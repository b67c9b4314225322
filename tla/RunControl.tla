------------------------------ MODULE RunControl ------------------------------
(***************************************************************************)
(* Attempts, halts and reconciliations of one repository: the launch of an *)
(* attempt and its supervision, the halt and resume verbs, the queue of    *)
(* halt requests that a supervisor polls, and the reconcile verb.  All of  *)
(* them are processes that take the repository lock, fold the run record   *)
(* and append to it; the record's own file format is module RunRecord.     *)
(*                                                                         *)
(* An append is one step here.  A process killed inside one leaves a torn  *)
(* tail, which every fold of the halt state refuses and the next append    *)
(* cuts.  Entries no fold of this module reads (accounting, deliveries,    *)
(* witness outcomes, operator input) are left out.                         *)
(***************************************************************************)
EXTENDS Naturals, Sequences, FiniteSets

CONSTANTS
  Proc,             \* processes that take the lock
  NoProc,           \* the holder of a free lock
  Runs,             \* runs of the repository
  NoAttempt,        \* no attempt
  Changes,          \* what a request file can ask: halt, resume; or garbled
  ScopeSets,        \* the sets of scopes a request can name
  AtomicPublish,    \* whether a request is named and linked in one step
  MaxLaunches,      \* bound: preparations recorded
  MaxRequests,      \* bound: halt and resume requests ever made
  MaxFindings       \* bound: reconciliations recorded

Scopes == {"run-admission", "tool-effects", "dispatch"}

ASSUME RunControlAssumption ==
  /\ NoProc \notin Proc
  /\ Changes \subseteq {"halt", "resume", "garbled"}
  /\ ScopeSets \subseteq (SUBSET Scopes) \ {{}}
  /\ AtomicPublish \in BOOLEAN
  /\ MaxLaunches \in Nat
  /\ MaxRequests \in Nat
  /\ MaxFindings \in Nat
  /\ NoAttempt \notin [run : Runs, n : Nat \ {0}]

Attempts == [run : Runs, n : Nat \ {0}]
Requests == 1 .. MaxRequests          \* a request's number is the time in its name

VARIABLES
  record,           \* the entries of the run record
  torn,             \* whether the file ends inside an entry
  holder,           \* who holds the repository lock
  ask,              \* what each request asks
  stage,            \* where each request is
  pc,               \* where each process is
  verb,             \* what each process is doing
  att,              \* the attempt a launch is about
  follows,          \* the reconciled attempts its intent will name
  batch,            \* the request files a process has listed and not removed
  said,             \* how the attempt's process ended
  owed              \* history: requests queued when the lock was taken

requests == <<ask, stage>>
local    == <<pc, verb, att, follows, batch, said, owed>>
vars     == <<record, torn, holder, requests, local>>

Said       == {"completed", "failed", "interrupted", "refused", "cancelled"}
Findings   == {"confirmed", "absent", "unknown"}
Conclusive == {"confirmed", "absent"}
Words      == Said \cup Findings \cup {"admitted", "none"}
Kinds == {"preparing", "prepared", "archived", "intent", "outcome",
          "reconciled", "halt", "resume", "stopped"}
Steps == {"idle", "locked", "draining", "removing", "ready", "preparing",
          "archiving", "admitted", "intended", "running", "deciding", "ended",
          "refusing", "confirming", "changing", "finding"}
Stages == {"none", "hidden", "queued", "direct", "gone"}

Entry(k, a, w) ==
  [kind |-> k, att |-> a, word |-> w, req |-> 0, scopes |-> {}, follows |-> {}]

------------------------------------------------------------------------------
(* Folds of the record.                                                    *)

Positions(k) == {i \in DOMAIN record : record[i].kind = k}

Intents == {record[i].att : i \in Positions("intent")}

\* What ends an attempt: its outcome, or a conclusive reconciliation of it.
Ends(e) ==
  \/ e.kind = "outcome"
  \/ e.kind = "reconciled" /\ e.word \in Conclusive

Concluded == {record[i].att : i \in {j \in DOMAIN record : Ends(record[j])}}

Live == Intents \ Concluded

\* The standing halts: what was halted and not resumed since.
Halted ==
  {c \in Scopes : \E i \in Positions("halt") :
     /\ c \in record[i].scopes
     /\ \A j \in Positions("resume") : j > i => c \notin record[j].scopes}

\* The latest stop asked of an attempt is not confirmed.
StopStands(a) ==
  \E i \in Positions("halt") :
     /\ record[i].att = a
     /\ \A j \in Positions("stopped") : j > i => record[j].att # a

\* Mutant of LastChangeIs: only the last record of any kind is looked at.
LastRecordIs(r) == record # << >> /\ record[Len(record)].req = r

\* The last halt or resume entry is the one this request asked for.
LastChangeIs(r) ==
  \E i \in Positions("halt") \cup Positions("resume") :
     /\ record[i].req = r
     /\ \A j \in Positions("halt") \cup Positions("resume") : j <= i

\* Conclusive reconciliations since the last intent of any effect.
SinceLastIntent ==
  {record[i].att : i \in
     {j \in Positions("reconciled") :
        /\ record[j].word \in Conclusive
        /\ \A k \in Positions("intent") \cup Positions("preparing") : k < j}}

\* A new attempt of a run is numbered after those the record holds.
NextAttempt(run) ==
  [run |-> run, n |-> Cardinality({a \in Intents : a.run = run}) + 1]

\* The halt state refuses a torn record before it reads anything.
Admitted == ~ torn /\ "run-admission" \notin Halted

Queued == {r \in Requests : stage[r] = "queued"}

Oldest(S) == CHOOSE r \in S : \A q \in S : r <= q

\* Requests not made yet, and the name the next one takes.
Unused == {r \in Requests : stage[r] = "none"}

NextName == CHOOSE r \in Unused : \A q \in Unused : r <= q

ChangeEntry(r, change, scopes) ==
  [Entry(change,
         IF /\ change = "halt"
            /\ scopes \cap {"run-admission", "tool-effects"} # {}
            /\ Live # {}
           THEN CHOOSE a \in Live : TRUE ELSE NoAttempt,
         "none") EXCEPT !.req = r, !.scopes = scopes]

------------------------------------------------------------------------------

Init ==
  /\ record = << >>
  /\ torn = FALSE
  /\ holder = NoProc
  /\ ask = [r \in Requests |-> [change |-> "halt", scopes |-> {}]]
  /\ stage = [r \in Requests |-> "none"]
  /\ pc = [p \in Proc |-> "idle"]
  /\ verb = [p \in Proc |-> "none"]
  /\ att = [p \in Proc |-> NoAttempt]
  /\ follows = [p \in Proc |-> {}]
  /\ batch = [p \in Proc |-> {}]
  /\ said = [p \in Proc |-> "none"]
  /\ owed = [p \in Proc |-> {}]

Goto(p, s) == pc' = [pc EXCEPT ![p] = s]

Append1(e) ==
  /\ record' = Append(record, e)
  /\ torn' = FALSE

\* The process ends, however it ends, and the system drops its lock.
Release(p) ==
  /\ holder' = NoProc
  /\ Goto(p, "idle")
  /\ verb' = [verb EXCEPT ![p] = "none"]
  /\ att' = [att EXCEPT ![p] = NoAttempt]
  /\ follows' = [follows EXCEPT ![p] = {}]
  /\ batch' = [batch EXCEPT ![p] = {}]
  /\ said' = [said EXCEPT ![p] = "none"]
  /\ owed' = [owed EXCEPT ![p] = {}]

Refuse(p) == Release(p) /\ UNCHANGED <<record, torn, requests>>

Stay == UNCHANGED <<holder, verb, follows, owed>>

------------------------------------------------------------------------------
(* The lock, and the queue drained under it.                               *)

\* Mutant of TryAcquire: a shared lock.
TryAcquireShared(p, v) ==
  /\ pc[p] = "idle"
  /\ holder' = p
  /\ Goto(p, "locked")
  /\ verb' = [verb EXCEPT ![p] = v]
  /\ owed' = [owed EXCEPT ![p] = Queued]
  /\ UNCHANGED <<record, torn, requests, att, follows, batch, said>>

\* Run, halt or resume, and reconcile all take the lock without waiting.
TryAcquire(p, v) ==
  /\ pc[p] = "idle"
  /\ holder = NoProc
  /\ holder' = p
  /\ Goto(p, "locked")
  /\ verb' = [verb EXCEPT ![p] = v]
  /\ owed' = [owed EXCEPT ![p] = Queued]
  /\ UNCHANGED <<record, torn, requests, att, follows, batch, said>>

\* Mutant of ListRequests: only halt and resume apply what is queued.
ListForChangesOnly(p) ==
  /\ pc[p] = "locked"
  /\ batch' = [batch EXCEPT ![p] = IF verb[p] = "change" THEN Queued ELSE {}]
  /\ Goto(p, "draining")
  /\ UNCHANGED <<record, torn, requests, att, said>>
  /\ Stay

\* Mutant of ListRequests: each file is removed as it is read.
ListAndRemove(p) ==
  /\ pc[p] = "locked"
  /\ batch' = [batch EXCEPT ![p] = Queued]
  /\ stage' = [r \in Requests |-> IF r \in Queued THEN "gone" ELSE stage[r]]
  /\ Goto(p, "draining")
  /\ UNCHANGED <<record, torn, ask, att, said>>
  /\ Stay

\* Every verb lists the queued requests before its own work.  One that does
\* not read refuses the verb and appends nothing.
ListRequests(p) ==
  /\ pc[p] = "locked"
  /\ IF \E r \in Queued : ask[r].change = "garbled"
       THEN Refuse(p)
       ELSE /\ batch' = [batch EXCEPT ![p] = Queued]
            /\ Goto(p, "draining")
            /\ UNCHANGED <<record, torn, requests, att, said>>
            /\ Stay

\* The supervisor's poll.  A request that does not read may be a halt, so the
\* attempt is not let run past it; it ends as interrupted.
Poll(p) ==
  /\ pc[p] = "running"
  /\ Queued # {}
  /\ IF \E r \in Queued : ask[r].change = "garbled"
       THEN /\ Goto(p, "ended")
            /\ said' = [said EXCEPT ![p] = "interrupted"]
            /\ UNCHANGED batch
       ELSE /\ Goto(p, "draining")
            /\ batch' = [batch EXCEPT ![p] = Queued]
            /\ UNCHANGED said
  /\ UNCHANGED <<record, torn, requests, att>>
  /\ Stay

\* The oldest request listed becomes the entry it asks for, unless that entry
\* is already the last halt or resume of the record.  A torn record refuses it.
ApplyRequest(p) ==
  /\ pc[p] = "draining"
  /\ batch[p] # {}
  /\ LET r == Oldest(batch[p]) IN
       IF ~ LastChangeIs(r) /\ torn
       THEN Refuse(p)
       ELSE /\ IF LastChangeIs(r)
                 THEN UNCHANGED <<record, torn>>
                 ELSE Append1(ChangeEntry(r, ask[r].change, ask[r].scopes))
            /\ Goto(p, "removing")
            /\ UNCHANGED <<requests, att, batch, said>>
            /\ Stay

\* Its file is removed once the entry is durable.
RemoveRequest(p) ==
  /\ pc[p] = "removing"
  /\ LET r == Oldest(batch[p]) IN
       /\ stage' = [stage EXCEPT ![r] = "gone"]
       /\ batch' = [batch EXCEPT ![p] = @ \ {r}]
  /\ Goto(p, "draining")
  /\ UNCHANGED <<record, torn, ask, att, said>>
  /\ Stay

\* The file cannot be removed.  A verb stops there; a supervisor reports it and
\* acts on what it appended.
RemoveFails(p) ==
  /\ pc[p] = "removing"
  /\ IF att[p] = NoAttempt
       THEN Refuse(p)
       ELSE /\ Goto(p, "deciding")
            /\ batch' = [batch EXCEPT ![p] = {}]
            /\ UNCHANGED <<record, torn, requests, att, said>>
            /\ Stay

\* Everything listed is applied: the process goes on to its own work.
Drained(p) ==
  /\ pc[p] = "draining"
  /\ batch[p] = {}
  /\ \/ att[p] # NoAttempt /\ Goto(p, "deciding")
     \/ att[p] = NoAttempt /\ verb[p] = "run" /\ Goto(p, "ready")
     \/ att[p] = NoAttempt /\ verb[p] = "change" /\ Goto(p, "changing")
     \/ att[p] = NoAttempt /\ verb[p] = "reconcile" /\ Goto(p, "finding")
  /\ UNCHANGED <<record, torn, requests, att, batch, said>>
  /\ Stay

------------------------------------------------------------------------------
(* Launching an attempt.                                                   *)

Count(k) == Cardinality(Positions(k))

\* Mutant of Prepare: the halt state is not consulted.
PrepareUnasked(p, run) ==
  /\ pc[p] = "ready"
  /\ Count("preparing") < MaxLaunches
  /\ IF torn \/ Live # {}
       THEN Refuse(p)
       ELSE /\ Append1(Entry("preparing", NoAttempt, "none"))
            /\ att' = [att EXCEPT ![p] = NextAttempt(run)]
            /\ follows' = [follows EXCEPT ![p] = SinceLastIntent]
            /\ Goto(p, "preparing")
            /\ UNCHANGED <<requests, holder, verb, batch, said, owed>>

\* Mutant of Prepare: only the run's own attempts are looked at.
PrepareBesideAnother(p, run) ==
  /\ pc[p] = "ready"
  /\ Count("preparing") < MaxLaunches
  /\ IF ~ Admitted \/ \E a \in Live : a.run = run
       THEN Refuse(p)
       ELSE /\ Append1(Entry("preparing", NoAttempt, "none"))
            /\ att' = [att EXCEPT ![p] = NextAttempt(run)]
            /\ follows' = [follows EXCEPT ![p] = SinceLastIntent]
            /\ Goto(p, "preparing")
            /\ UNCHANGED <<requests, holder, verb, batch, said, owed>>

\* Halted, unreadable or with an attempt live, the launch is refused and
\* nothing is written.  Otherwise the preparation has its own intent.
Prepare(p, run) ==
  /\ pc[p] = "ready"
  /\ Count("preparing") < MaxLaunches
  /\ IF ~ Admitted \/ Live # {}
       THEN Refuse(p)
       ELSE /\ Append1(Entry("preparing", NoAttempt, "none"))
            /\ att' = [att EXCEPT ![p] = NextAttempt(run)]
            /\ follows' = [follows EXCEPT ![p] = SinceLastIntent]
            /\ Goto(p, "preparing")
            /\ UNCHANGED <<requests, holder, verb, batch, said, owed>>

\* The workspace is prepared and the boundary checked, and what came of it is
\* recorded before anything follows from it.
Prepared(p) ==
  /\ pc[p] = "preparing"
  /\ \E w \in {"admitted", "refused"} :
       /\ Append1(Entry("prepared", NoAttempt, w))
       /\ Goto(p, IF w = "admitted" THEN "admitted" ELSE "archiving")
  /\ UNCHANGED <<requests, att, batch, said>>
  /\ Stay

\* A refused preparation that left files behind records where they go.
Archive(p) ==
  /\ pc[p] = "archiving"
  /\ \/ Append1(Entry("archived", NoAttempt, "none"))
     \/ UNCHANGED <<record, torn>>
  /\ Release(p)
  /\ UNCHANGED requests

\* The attempt exists once its intent is durable.
Begin(p) ==
  /\ pc[p] = "admitted"
  /\ Append1([Entry("intent", att[p], "none") EXCEPT !.follows = follows[p]])
  /\ Goto(p, "intended")
  /\ UNCHANGED <<requests, att, batch, said>>
  /\ Stay

\* A check between the intent and the spawn refuses the attempt.
RefuseBeforeSpawn(p) ==
  /\ pc[p] = "intended"
  /\ Goto(p, "refusing")
  /\ said' = [said EXCEPT ![p] = "refused"]
  /\ UNCHANGED <<record, torn, requests, att, batch>>
  /\ Stay

Spawn(p) ==
  /\ pc[p] = "intended"
  /\ Goto(p, "running")
  /\ UNCHANGED <<record, torn, requests, att, batch, said>>
  /\ Stay

\* Mutant of Decide: the latest halt entry decides, and a resume after it
\* withdraws the stop it asked for.
DecideUnlessResumed(p) ==
  /\ pc[p] = "deciding"
  /\ IF StopStands(att[p]) /\ Halted # {}
       THEN Goto(p, "ended") /\ said' = [said EXCEPT ![p] = "cancelled"]
       ELSE Goto(p, "running") /\ UNCHANGED said
  /\ UNCHANGED <<record, torn, requests, att, batch>>
  /\ Stay

\* After a poll: an unconfirmed stop of this attempt stops it.
Decide(p) ==
  /\ pc[p] = "deciding"
  /\ IF StopStands(att[p])
       THEN Goto(p, "ended") /\ said' = [said EXCEPT ![p] = "cancelled"]
       ELSE Goto(p, "running") /\ UNCHANGED said
  /\ UNCHANGED <<record, torn, requests, att, batch>>
  /\ Stay

\* The process ends by itself, or an abort recorded by the same poll stops it.
AgentEnds(p) ==
  /\ pc[p] = "running"
  /\ Goto(p, "ended")
  /\ \E w \in {"completed", "failed", "interrupted", "cancelled"} :
       said' = [said EXCEPT ![p] = w]
  /\ UNCHANGED <<record, torn, requests, att, batch>>
  /\ Stay

\* The record was changed by someone else while the process ran: nothing is
\* appended to it and the attempt stays live.
LeaveLive(p) ==
  /\ pc[p] = "ended"
  /\ Refuse(p)

\* The outcome: interrupted if the base moved, else refused if anything was
\* counted, else what was said.  A cancelled one goes on to confirm its stop.
Conclude(p) ==
  /\ pc[p] \in {"ended", "refusing"}
  /\ \E w \in {said[p], "refused", "interrupted"} :
       /\ Append1(Entry("outcome", att[p], w))
       /\ IF w = "cancelled"
            THEN Goto(p, "confirming") /\ Stay /\ UNCHANGED <<att, batch, said>>
            ELSE Release(p)
  /\ UNCHANGED requests

\* The stop of a cancelled attempt is confirmed after its outcome is durable.
ConfirmStop(p) ==
  /\ pc[p] = "confirming"
  /\ IF StopStands(att[p])
       THEN Append1(Entry("stopped", att[p], "none"))
       ELSE UNCHANGED <<record, torn>>
  /\ Release(p)
  /\ UNCHANGED requests

------------------------------------------------------------------------------
(* Halt, resume and reconcile.                                             *)

\* The verb's own change, after what was queued.  A torn record refuses it.
Change(p) ==
  /\ pc[p] = "changing"
  /\ Unused # {}
  /\ IF torn
       THEN Refuse(p)
       ELSE \E c \in Changes \ {"garbled"}, S \in ScopeSets :
              /\ Append1(ChangeEntry(NextName, c, S))
              /\ ask' = [ask EXCEPT ![NextName] =
                           [change |-> c, scopes |-> S]]
              /\ stage' = [stage EXCEPT ![NextName] = "direct"]
              /\ Release(p)

\* The lock is busy: the change is written under a hidden name that carries
\* the time it was asked.
Ask(c, S) ==
  /\ holder # NoProc
  /\ Unused # {}
  /\ ask' = [ask EXCEPT ![NextName] = [change |-> c, scopes |-> S]]
  /\ stage' = [stage EXCEPT ![NextName] =
                 IF AtomicPublish THEN "queued" ELSE "hidden"]
  /\ UNCHANGED <<record, torn, holder, local>>

\* It is linked to its final name and is a request from then on.
Publish(r) ==
  /\ stage[r] = "hidden"
  /\ stage' = [stage EXCEPT ![r] = "queued"]
  /\ UNCHANGED <<record, torn, holder, ask, local>>

\* An operator's finding about the live attempt; anything else is refused.
Reconcile(p) ==
  /\ pc[p] = "finding"
  /\ Count("reconciled") < MaxFindings
  /\ \/ \E a \in Live, w \in Findings : Append1(Entry("reconciled", a, w))
     \/ UNCHANGED <<record, torn>>
  /\ Release(p)
  /\ UNCHANGED requests

------------------------------------------------------------------------------
(* Kills.                                                                  *)

\* The process's next step appends.
Appending(p) ==
  \/ pc[p] \in {"preparing", "archiving", "admitted", "ended", "refusing"}
  \/ pc[p] = "draining" /\ batch[p] # {} /\ ~ torn
       /\ ~ LastChangeIs(Oldest(batch[p]))
  \/ pc[p] = "ready" /\ Admitted /\ Live = {}
  \/ pc[p] = "changing" /\ ~ torn
  \/ pc[p] = "finding" /\ Live # {}
  \/ pc[p] = "confirming" /\ StopStands(att[p])

\* A kill inside an append leaves part of an entry, or the old tail cut.
Crash(p) ==
  /\ pc[p] # "idle"
  /\ Release(p)
  /\ torn' \in IF Appending(p) THEN BOOLEAN ELSE {torn}
  /\ UNCHANGED <<record, requests>>

\* The steps a process takes by itself once it holds the lock.
Step(p) ==
  \/ ListRequests(p) \/ Poll(p) \/ ApplyRequest(p) \/ RemoveRequest(p)
  \/ RemoveFails(p) \/ Drained(p)
  \/ \E run \in Runs : Prepare(p, run)
  \/ Prepared(p) \/ Archive(p) \/ Begin(p) \/ RefuseBeforeSpawn(p) \/ Spawn(p)
  \/ Decide(p) \/ LeaveLive(p) \/ Conclude(p) \/ ConfirmStop(p)
  \/ Change(p) \/ Reconcile(p)

Next ==
  \/ \E p \in Proc : Step(p) \/ AgentEnds(p) \/ Crash(p)
  \/ \E p \in Proc, v \in {"run", "change", "reconcile"} : TryAcquire(p, v)
  \/ \E c \in Changes, S \in ScopeSets : Ask(c, S)
  \/ \E r \in Requests : Publish(r)

Spec == Init /\ [][Next]_vars

\* A process that holds the lock keeps going, and a request file that cannot
\* be removed now can be removed in the end.  Nothing makes an attempt's own
\* process end, and nothing makes anyone take the lock.
Fairness ==
  \A p \in Proc : WF_vars(Step(p)) /\ SF_vars(RemoveRequest(p))

FairSpec == Spec /\ Fairness

------------------------------------------------------------------------------
(* Properties.                                                             *)

Entries == [kind : Kinds, att : Attempts \cup {NoAttempt}, word : Words,
            req : 0 .. MaxRequests, scopes : SUBSET Scopes,
            follows : SUBSET Attempts]

RecordTypeOK ==
  /\ record \in Seq(Entries)
  /\ torn \in BOOLEAN

RequestTypeOK ==
  /\ ask \in [Requests -> [change : {"halt", "resume", "garbled"},
                           scopes : SUBSET Scopes]]
  /\ stage \in [Requests -> Stages]

LocalTypeOK ==
  /\ holder \in Proc \cup {NoProc}
  /\ pc \in [Proc -> Steps]
  /\ verb \in [Proc -> {"none", "run", "change", "reconcile"}]
  /\ att \in [Proc -> Attempts \cup {NoAttempt}]
  /\ follows \in [Proc -> SUBSET Attempts]
  /\ batch \in [Proc -> SUBSET Requests]
  /\ said \in [Proc -> Said \cup {"none"}]
  /\ owed \in [Proc -> SUBSET Requests]

\* Every variable keeps its type.
TypeOK == RecordTypeOK /\ RequestTypeOK /\ LocalTypeOK

\* One attempt is live in a repository at a time, whichever run it belongs to:
\* the lock is held from before the live check until the outcome, over two
\* appends, a queue and a process nobody controls (session.rs, lock.rs).
OneLiveAttempt == \A a, b \in Live : a = b

Supervising == {"intended", "running", "deciding", "ended", "refusing"}

Supervises(p) ==
  \/ pc[p] \in Supervising
  \/ pc[p] \in {"draining", "removing"} /\ att[p] # NoAttempt

\* While a process supervises an attempt, the record says that attempt is live
\* and can be folded: no reconciliation and no other launch concluded it, and
\* nobody left a torn tail under it.
SupervisedIsLive ==
  \A p \in Proc : Supervises(p) => att[p] \in Live /\ ~ torn

\* An attempt ends once: of its outcome and its conclusive reconciliations the
\* record holds one (attempt.rs, reconcile.rs rule 1).
EndsOnce ==
  \A i, j \in DOMAIN record :
    Ends(record[i]) /\ Ends(record[j]) /\ record[i].att = record[j].att => i = j

\* Entries about an attempt name one.
Named ==
  \A i \in DOMAIN record :
    record[i].kind \in {"intent", "outcome", "reconciled"} => record[i].att \in Attempts

OfRun(run) == {a \in Intents : a.run = run}

\* An attempt's number is at most the number of attempts of its run.
Numbered == \A a \in Intents : a.n <= Cardinality(OfRun(a.run))

\* Only what began ends.
EndsWhatBegan == Concluded \subseteq Intents

\* What the record alone has to satisfy.
RecordInv ==
  /\ Named
  /\ Numbered
  /\ EndsWhatBegan
  /\ OneLiveAttempt
  /\ EndsOnce

\* What a process has listed was published and reads.
BatchReads ==
  \A p \in Proc : \A r \in batch[p] :
    stage[r] # "none" /\ ask[r].change \in {"halt", "resume"}

\* Only the holder of the lock is past the step that takes it.
LockHeld == \A p \in Proc : pc[p] # "idle" => holder = p

\* What a process relies on where it stands: a verb has no attempt, a launch
\* between the live check and the intent has a number nobody took and nothing
\* is live, and a supervisor's attempt is live.
Fits(p) ==
  /\ pc[p] \in {"idle", "locked"} => att[p] = NoAttempt
  /\ pc[p] \in {"preparing", "admitted"} =>
       /\ Live = {}
       /\ att[p] \in Attempts \ Intents
       /\ att[p].n <= Cardinality(OfRun(att[p].run)) + 1
  /\ Supervises(p) => att[p] \in Live /\ ~ torn

IInv ==
  /\ TypeOK
  /\ RecordInv
  /\ BatchReads
  /\ LockHeld
  /\ \A p \in Proc : Fits(p)

\* A request whose file is gone is in the record: nothing queued is lost to a
\* kill between the append and the removal, or to a drain cut short.
NothingLost ==
  \A r \in Requests : stage[r] = "gone" => \E i \in DOMAIN record : record[i].req = r

\* A request is applied once, whoever applies it and however often a drain was
\* cut short between the append and the removal (halt.rs, apply_pending).
AppliedOnce ==
  \A i, j \in DOMAIN record :
    record[i].req # 0 /\ record[i].req = record[j].req => i = j

\* Queued requests enter the record in the order of their names.
AppliedInOrder ==
  \A i, j \in DOMAIN record :
    /\ i < j
    /\ record[i].req # 0 /\ stage[record[i].req] # "direct"
    /\ record[j].req # 0 /\ stage[record[j].req] # "direct"
    => record[i].req <= record[j].req

\* Queued requests are applied once and in order, over any number of drains, each
\* of which may be cut short.
RequestsApplied == AppliedOnce /\ AppliedInOrder

\* An attempt's intent is appended only while run-admission is not halted and
\* every request queued before its launch took the lock is in the record: a
\* halt whose supervisor died before applying it still refuses the next launch.
NoLaunchPastHalt ==
  [][\A p \in Proc : Begin(p) =>
       /\ Admitted
       /\ \A r \in owed[p] : \E i \in DOMAIN record : record[i].req = r]_vars

\* A queued halt that asks attempts to stop ends the supervision of a running
\* one, and a resume queued behind it does not save the attempt.
HaltStopsTheAttempt ==
  \A p \in Proc, r \in Requests :
    (/\ pc[p] = "running"
     /\ stage[r] = "queued"
     /\ ask[r].change = "halt"
     /\ ask[r].scopes \cap {"run-admission", "tool-effects"} # {})
    ~> (pc[p] \notin {"running", "deciding", "draining", "removing"})

\* How each finished attempt ended, by the one record that ended it: a
\* conclusive reconciliation reads as interrupted.
Ended ==
  [a \in Concluded |->
     LET i == CHOOSE i \in DOMAIN record : Ends(record[i]) /\ record[i].att = a
     IN  IF record[i].kind = "outcome" THEN record[i].word ELSE "interrupted"]

Asked     == {record[i].att : i \in Positions("halt")} \ {NoAttempt}
Confirmed == {record[i].att : i \in Positions("stopped")}

\* The processes, the queue and the record implement the ledger of attempts.
Ledger == INSTANCE AttemptLedger
            WITH Attempts <- [run : Runs, n : 1 .. MaxLaunches], Words <- Said,
                 live <- Live, ended <- Ended, halted <- Halted,
                 asked <- Asked, confirmed <- Confirmed

ImplementsAttemptLedger == Ledger!Spec
===============================================================================
