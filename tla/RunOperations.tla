----------------------------- MODULE RunOperations -----------------------------
(***************************************************************************)
(* Typed run operations under one controller lease: run lease, run op, the *)
(* queue of requests a live run's supervisor drains, a retry's launch and  *)
(* an abort's two recorded points.                                         *)
(*                                                                         *)
(* The repository lock is exclusive (RunRecord, RunControl), so what holds *)
(* it is one program counter, pc; it may be killed before any of its       *)
(* steps.  Requests are queued beside it.  Of the records about a run,     *)
(* those that neither operations nor attempts fold are left out: a version *)
(* counts the records that are here.                                       *)
(***************************************************************************)
EXTENDS Naturals, Sequences, FiniteSets

CONSTANTS
  Runs,             \* runs of the repository
  NoRun,            \* no run
  Names,            \* the names controllers give themselves
  Pids,             \* the processes they run in
  Keys,             \* idempotency keys
  Nothing,          \* no name, process or key
  Verbs,            \* what takes the lock: op, lease, run, reconcile
  Wants,            \* what a queued request asks: abort, acquire, release, break; or garbled
  MaxAttempts,      \* bound: attempts launched
  MaxRequests,      \* bound: requests ever queued
  MaxRecords        \* bound: no verb starts its own work on a record this long

ASSUME RunOperationsAssumption ==
  /\ NoRun \notin Runs
  /\ Nothing \notin Names \cup Pids \cup Keys \cup [name : Names, pid : Pids]
  /\ Verbs \subseteq {"op", "lease", "run", "reconcile"}
  /\ Wants \subseteq {"abort", "acquire", "release", "break", "garbled"}
  /\ MaxAttempts \in Nat
  /\ MaxRequests \in Nat
  /\ MaxRecords \in Nat

Operations == {"abort", "retry", "continue"}
Acts       == {"acquire", "release", "break"}
Requests   == 1 .. MaxRequests

VARIABLES
  record,           \* the entries of the run record
  ask,              \* what each queued request asks
  stage,            \* where each queued request is
  pc,               \* where the holder of the lock is; "free" when nobody holds it
  verb,             \* what the holder is doing
  batch,            \* the request files it has listed and not removed
  cur,              \* the request it is applying
  from,             \* the file that request came from; 0 for the verb's own
  retry,            \* the accepted retry it is launching for
  sup,              \* the attempt it supervises: its number, 0 for none
  run,              \* the run it launches
  said              \* how that attempt's process ended

queue == <<ask, stage>>
local == <<pc, verb, batch, cur, from, retry, sup, run, said>>
vars  == <<record, queue, local>>

Blank == [kind |-> "none", run |-> NoRun, n |-> 0, op |-> "none",
          key |-> Nothing, name |-> Nothing, pid |-> Nothing,
          lease |-> 0, ver |-> 0, word |-> "none", req |-> 0]

NoRequest == [what |-> "none", run |-> NoRun, name |-> Nothing, pid |-> Nothing,
              lease |-> 0, key |-> Nothing, ver |-> 0]

------------------------------------------------------------------------------
(* The fold of one run.                                                    *)

About(r, k) == {i \in DOMAIN record : record[i].run = r /\ record[i].kind = k}

\* The run's version: how many records are about it.
Version(r) == Cardinality({i \in DOMAIN record : record[i].run = r})

LatestAttempt(r) == Cardinality(About(r, "intent"))

Live(r) ==
  {n \in 1 .. LatestAttempt(r) : \A i \in About(r, "outcome") : record[i].n # n}

\* Mutant of LeaseOf: a lease that was ended still stands.
LastAcquired(r) ==
  {l \in About(r, "acquired") : \A i \in About(r, "acquired") : i <= l}

\* The run's lease: the last one acquired, unless a later record ended it.
LeaseOf(r) ==
  {l \in About(r, "acquired") :
     /\ \A i \in About(r, "acquired") : i <= l
     /\ \A i \in About(r, "ended") : record[i].lease # l}

\* Mutant of LeaseFits: any lease the name ever held will do.
LeaseFitsOnce(q) ==
  \E l \in About(q.run, "acquired") : l = q.lease /\ record[l].name = q.name

\* Rule 0: the request presents the run's lease under its holder's name.
LeaseFits(q) == \E l \in LeaseOf(q.run) : l = q.lease /\ record[l].name = q.name

\* Mutant of KeyHeld: an operation holds its key once it is completed.
KeyFinished(q) ==
  \E i \in About(q.run, "completed") \cup About(q.run, "stale") :
    record[i].key = q.key

\* Rules 1 and 2: the record holds the key, under an operation or a refusal.
KeyHeld(q) ==
  \E i \in About(q.run, "accepted") \cup About(q.run, "stale") :
    record[i].key = q.key

\* The operation's own precondition.  No adapter can resume a session, so
\* nothing is permitted to continue.
Permitted(q) ==
  \/ q.what = "abort" /\ Live(q.run) # {}
  \/ /\ q.what = "retry"
     /\ LatestAttempt(q.run) > 0
     /\ \A r \in Runs : Live(r) = {}

Requested(r, k) == \E i \in About(r, "completed") : record[i].key = k

\* The aborts whose stop is requested of an attempt and not confirmed.
StopsOf(r, n) ==
  {record[i].key : i \in
     {j \in About(r, "accepted") :
        /\ record[j].op = "abort"
        /\ record[j].n = n
        /\ Requested(r, record[j].key)
        /\ \A s \in About(r, "stopped") : record[s].key # record[j].key}}

\* The break this request asked for is in the record.
BreakRecorded ==
  \E i \in DOMAIN record : record[i].word = "broken" /\ record[i].req = from /\ from # 0

\* A request that does not read is skipped and left in place.
Readable == {f \in Requests : stage[f] = "queued" /\ ask[f].what # "garbled"}

Oldest(S) == CHOOSE f \in S : \A g \in S : f <= g

Unused == {f \in Requests : stage[f] = "none"}

(* What a controller submits: a lease it may have read of, and a version it *)
(* read before the last record, read now, or expects of the next.           *)
LeaseIds == {0} \cup UNION {About(r, "acquired") : r \in Runs}

Submission(what, r, c, l, k, v) ==
  [NoRequest EXCEPT !.what = what, !.run = r, !.name = c, !.lease = l, !.key = k, !.ver = v]

LeaseAct(what, r, c, p, l) ==
  [NoRequest EXCEPT !.what = what, !.run = r, !.name = c, !.pid = p, !.lease = l]

Versions(r) == {v \in 0 .. Version(r) + 1 : v + 1 >= Version(r)}

Operands(what, r) ==
  IF what \in Operations
  THEN {Submission(what, r, c, l, k, v) :
          c \in Names, l \in LeaseIds, k \in Keys, v \in Versions(r)}
  ELSE {LeaseAct(what, r, c, p, l) :
          c \in Names,
          p \in IF what = "acquire" THEN Pids ELSE {Nothing},
          l \in IF what = "release" THEN LeaseIds ELSE {0}}

------------------------------------------------------------------------------

Init ==
  /\ record = << >>
  /\ ask = [f \in Requests |-> NoRequest]
  /\ stage = [f \in Requests |-> "none"]
  /\ pc = "free"
  /\ verb = "none"
  /\ batch = {}
  /\ cur = NoRequest
  /\ from = 0
  /\ retry = NoRequest
  /\ sup = 0
  /\ run = NoRun
  /\ said = "none"

Add(e) == record' = Append(record, e)

\* An entry about the request being applied.
Entry(kind) ==
  [Blank EXCEPT !.kind = kind, !.run = cur.run, !.n = LatestAttempt(cur.run),
                !.op = cur.what, !.key = cur.key, !.name = cur.name,
                !.ver = cur.ver, !.lease = cur.lease, !.req = from]

\* The holder ends, however it ends, and the system drops the lock.
Release ==
  /\ pc' = "free"
  /\ verb' = "none"
  /\ batch' = {}
  /\ cur' = NoRequest
  /\ from' = 0
  /\ retry' = NoRequest
  /\ sup' = 0
  /\ run' = NoRun
  /\ said' = "none"

Goto(s) ==
  /\ pc' = s
  /\ UNCHANGED <<verb, batch, cur, from, retry, sup, run, said>>

------------------------------------------------------------------------------
(* The lock and the queue.                                                 *)

\* run op and run lease drain the queue first; run and run reconcile do not.
TakeLock(v) ==
  /\ pc = "free"
  /\ verb' = v
  /\ IF v \in {"op", "lease"}
       THEN pc' = "draining" /\ batch' = Readable
       ELSE pc' = v /\ UNCHANGED batch
  /\ UNCHANGED <<record, queue, cur, from, retry, sup, run, said>>

\* The lock is busy: an abort or a lease act is queued for the supervisor.
Ask(what, r) ==
  /\ pc # "free"
  /\ Unused # {}
  /\ LET f == Oldest(Unused) IN
       /\ \E q \in Operands(what, r) : ask' = [ask EXCEPT ![f] = q]
       /\ stage' = [stage EXCEPT ![f] = "queued"]
  /\ UNCHANGED <<record, local>>

\* The oldest request listed is applied as its verb would have.
TakeRequest ==
  /\ pc = "draining"
  /\ batch # {}
  /\ pc' = "applying"
  /\ from' = Oldest(batch)
  /\ cur' = ask[Oldest(batch)]
  /\ UNCHANGED <<record, queue, verb, batch, retry, sup, run, said>>

Drained ==
  /\ pc = "draining"
  /\ batch = {}
  /\ Goto(IF sup = 0 THEN "own" ELSE "deciding")
  /\ UNCHANGED <<record, queue>>

\* The verb's own request follows what was queued.
OwnRequest ==
  /\ pc = "own"
  /\ Len(record) < MaxRecords
  /\ \E what \in IF verb = "op" THEN Operations ELSE Acts, r \in Runs :
       \E q \in Operands(what, r) : cur' = q
  /\ pc' = "applying"
  /\ UNCHANGED <<record, queue, verb, batch, from, retry, sup, run, said>>

\* A drained request's file is removed; a verb's own request ends the verb.
Applied ==
  /\ pc = "applied"
  /\ IF from = 0
       THEN Release /\ UNCHANGED stage
       ELSE /\ stage' = [stage EXCEPT ![from] = "gone"]
            /\ batch' = batch \ {from}
            /\ from' = 0
            /\ cur' = NoRequest
            /\ pc' = "draining"
            /\ UNCHANGED <<verb, retry, sup, run, said>>
  /\ UNCHANGED <<record, ask>>

\* The file cannot be removed: a verb fails there, a supervisor reports it and
\* acts on what it applied.
RemoveFails ==
  /\ pc = "applied"
  /\ from # 0
  /\ IF sup = 0
       THEN Release
       ELSE /\ batch' = {}
            /\ from' = 0
            /\ cur' = NoRequest
            /\ pc' = "deciding"
            /\ UNCHANGED <<verb, retry, sup, run, said>>
  /\ UNCHANGED <<record, queue>>

------------------------------------------------------------------------------
(* Operations.                                                             *)

\* Without the lease, with a held key, or at the right version without its
\* precondition, nothing is appended: refused, or replayed from the record.
TurnAway ==
  /\ pc = "applying"
  /\ cur.what \in Operations
  /\ \/ ~ LeaseFits(cur)
     \/ KeyHeld(cur)
     \/ cur.ver = Version(cur.run) /\ ~ Permitted(cur)
  /\ Goto("applied")
  /\ UNCHANGED <<record, queue>>

\* A new key at another version: the refusal is recorded and holds the key.
RefuseStale ==
  /\ pc = "applying"
  /\ cur.what \in Operations
  /\ LeaseFits(cur)
  /\ ~ KeyHeld(cur)
  /\ cur.ver # Version(cur.run)
  /\ Add(Entry("stale"))
  /\ Goto("applied")
  /\ UNCHANGED queue

\* The operation's intent, durable before its effect.
Accept ==
  /\ pc = "applying"
  /\ cur.what \in Operations
  /\ LeaseFits(cur)
  /\ ~ KeyHeld(cur)
  /\ cur.ver = Version(cur.run)
  /\ Permitted(cur)
  /\ Add(Entry("accepted"))
  /\ Goto("accepted")
  /\ UNCHANGED queue

\* An accepted abort's effect is its stop-requested point.
RequestStop ==
  /\ pc = "accepted"
  /\ cur.what = "abort"
  /\ Add([Entry("completed") EXCEPT !.word = "stop-requested"])
  /\ Goto("applied")
  /\ UNCHANGED queue

\* An accepted retry runs the launch path under the lock it holds.
StartRetry ==
  /\ pc = "accepted"
  /\ cur.what = "retry"
  /\ pc' = "run"
  /\ retry' = cur
  /\ cur' = NoRequest
  /\ UNCHANGED <<record, queue, verb, batch, from, sup, run, said>>

\* Its outcome, after the launch: whether an attempt was appended.
CompleteRetry ==
  /\ pc = "completing"
  /\ Add([Blank EXCEPT !.kind = "completed", !.run = retry.run, !.op = "retry",
                       !.key = retry.key, !.n = sup,
                       !.word = IF sup = 0 THEN "not-launched" ELSE "launched"])
  /\ Release
  /\ UNCHANGED queue

------------------------------------------------------------------------------
(* Leases.                                                                 *)

Refuse ==
  /\ Goto("applied")
  /\ UNCHANGED <<record, queue>>

\* The controller asking holds the lease already.
KeepsLease ==
  \E l \in LeaseOf(cur.run) : record[l].name = cur.name /\ record[l].pid = cur.pid

\* The last lease's process may have ended; only a process of this machine
\* says so, and its number may be another's by now.
Expirable == LeaseOf(cur.run) # {} /\ ~ KeepsLease /\ Live(cur.run) = {}

Ending(l, word) ==
  [Entry("ended") EXCEPT !.lease = l, !.word = word, !.op = "none"]

AcquireRefused ==
  /\ pc = "applying"
  /\ cur.what = "acquire"
  /\ LatestAttempt(cur.run) = 0 \/ LeaseOf(cur.run) # {}
  /\ Refuse

\* Mutant of Expire: the run's live attempt is not looked at.
ExpireUnderAttempt ==
  /\ pc = "applying"
  /\ cur.what = "acquire"
  /\ LeaseOf(cur.run) # {} /\ ~ KeepsLease
  /\ \E l \in LeaseOf(cur.run) : Add(Ending(l, "expired"))
  /\ Goto("acquiring")
  /\ UNCHANGED queue

\* The holder's process has ended and the run has no live attempt: that is
\* recorded before the acquisition.
Expire ==
  /\ pc = "applying"
  /\ cur.what = "acquire"
  /\ Expirable
  /\ \E l \in LeaseOf(cur.run) : Add(Ending(l, "expired"))
  /\ Goto("acquiring")
  /\ UNCHANGED queue

\* Mutant of Acquire: a lease that stands is not looked at.
AcquireBeside ==
  /\ \/ pc = "acquiring"
     \/ pc = "applying" /\ cur.what = "acquire" /\ LatestAttempt(cur.run) > 0
  /\ Add([Entry("acquired") EXCEPT !.pid = cur.pid, !.ver = Version(cur.run)])
  /\ Goto("applied")
  /\ UNCHANGED queue

Acquire ==
  /\ \/ pc = "acquiring"
     \/ /\ pc = "applying"
        /\ cur.what = "acquire"
        /\ LatestAttempt(cur.run) > 0
        /\ LeaseOf(cur.run) = {}
  /\ Add([Entry("acquired") EXCEPT !.pid = cur.pid, !.ver = Version(cur.run)])
  /\ Goto("applied")
  /\ UNCHANGED queue

ReleaseLease ==
  /\ pc = "applying"
  /\ cur.what = "release"
  /\ IF LeaseFits(cur)
       THEN Add(Ending(cur.lease, "released")) /\ Goto("applied") /\ UNCHANGED queue
       ELSE Refuse

\* A break already in the record is not recorded again.
BreakLease ==
  /\ pc = "applying"
  /\ cur.what = "break"
  /\ IF LeaseOf(cur.run) # {} /\ ~ BreakRecorded
       THEN /\ \E l \in LeaseOf(cur.run) : Add(Ending(l, "broken"))
            /\ Goto("applied")
            /\ UNCHANGED queue
       ELSE Refuse

------------------------------------------------------------------------------
(* Attempts: what RunControl models in full.                               *)

\* After the launch path: a retry records what it came to.
Over ==
  IF retry # NoRequest
  THEN Goto("completing")
  ELSE Release

LaunchRefused ==
  /\ pc = "run"
  /\ Over
  /\ UNCHANGED <<record, queue>>

\* Nothing is live, and the attempt's intent is durable.
Launch ==
  /\ pc = "run"
  /\ \A r \in Runs : Live(r) = {}
  /\ Cardinality({i \in DOMAIN record : record[i].kind = "intent"}) < MaxAttempts
  /\ \E r \in IF retry # NoRequest THEN {retry.run} ELSE Runs :
       /\ run' = r
       /\ sup' = LatestAttempt(r) + 1
       /\ Add([Blank EXCEPT !.kind = "intent", !.run = r,
                            !.n = LatestAttempt(r) + 1, !.key = retry.key])
  /\ pc' = "supervising"
  /\ UNCHANGED <<queue, verb, batch, cur, from, retry, said>>

\* Mutant of Poll: a file that does not read stops the poll, as in the halt queue.
PollReadableOnly ==
  /\ pc = "supervising"
  /\ Readable # {}
  /\ Readable = {f \in Requests : stage[f] = "queued"}
  /\ pc' = "draining"
  /\ batch' = Readable
  /\ UNCHANGED <<record, queue, verb, cur, from, retry, sup, run, said>>

\* The poll lists the queued requests.
Poll ==
  /\ pc = "supervising"
  /\ Readable # {}
  /\ pc' = "draining"
  /\ batch' = Readable
  /\ UNCHANGED <<record, queue, verb, cur, from, retry, sup, run, said>>

\* Mutant of Decide: a stop requested under a lease released since is dropped.
DecideUnderLease ==
  /\ pc = "deciding"
  /\ IF StopsOf(run, sup) # {} /\ LeaseOf(run) # {}
       THEN pc' = "ended" /\ said' = "cancelled"
       ELSE pc' = "supervising" /\ UNCHANGED said
  /\ UNCHANGED <<record, queue, verb, batch, cur, from, retry, sup, run>>

\* A requested stop of this attempt stops it.
Decide ==
  /\ pc = "deciding"
  /\ IF StopsOf(run, sup) # {}
       THEN pc' = "ended" /\ said' = "cancelled"
       ELSE pc' = "supervising" /\ UNCHANGED said
  /\ UNCHANGED <<record, queue, verb, batch, cur, from, retry, sup, run>>

\* The process ends by itself, or a halt stops it.
AgentEnds ==
  /\ pc = "supervising"
  /\ pc' = "ended"
  /\ \E w \in {"completed", "interrupted", "cancelled"} : said' = w
  /\ UNCHANGED <<record, queue, verb, batch, cur, from, retry, sup, run>>

\* The outcome; the stops requested of a cancelled attempt are confirmed next.
Conclude ==
  /\ pc = "ended"
  /\ \E w \in {said, "refused", "interrupted"} :
       /\ Add([Blank EXCEPT !.kind = "outcome", !.run = run, !.n = sup, !.word = w])
       /\ IF w = "cancelled" THEN Goto("confirming") ELSE Over
  /\ UNCHANGED queue

\* The record changed under the supervisor: the attempt is left live.
LeaveLive ==
  /\ pc = "ended"
  /\ Over
  /\ UNCHANGED <<record, queue>>

ConfirmStop ==
  /\ pc = "confirming"
  /\ IF StopsOf(run, sup) = {}
       THEN Over /\ UNCHANGED record
       ELSE /\ \E k \in StopsOf(run, sup) :
                 Add([Blank EXCEPT !.kind = "stopped", !.run = run, !.n = sup,
                                   !.key = k])
            /\ Goto("confirming")
  /\ UNCHANGED queue

\* An operator reconciles the live attempt, which ends it as interrupted; or
\* the finding is refused.
Reconcile ==
  /\ pc = "reconcile"
  /\ \/ \E r \in Runs : \E n \in Live(r) :
          Add([Blank EXCEPT !.kind = "outcome", !.run = r, !.n = n,
                            !.word = "interrupted"])
     \/ UNCHANGED record
  /\ Release
  /\ UNCHANGED queue

Crash ==
  /\ pc # "free"
  /\ Release
  /\ UNCHANGED <<record, queue>>

Step ==
  \/ TakeRequest \/ Drained \/ OwnRequest \/ Applied \/ RemoveFails
  \/ TurnAway \/ RefuseStale \/ Accept \/ RequestStop \/ StartRetry
  \/ CompleteRetry \/ AcquireRefused \/ Expire \/ Acquire \/ ReleaseLease
  \/ BreakLease \/ LaunchRefused \/ Launch \/ Poll \/ Decide \/ Conclude
  \/ LeaveLive \/ ConfirmStop \/ Reconcile

Next ==
  \/ Step \/ AgentEnds \/ Crash
  \/ \E v \in Verbs : TakeLock(v)
  \/ \E what \in Wants, r \in Runs : Ask(what, r)

Spec == Init /\ [][Next]_vars

\* The holder keeps going, and a file that cannot be removed now can be in the
\* end.  Nothing makes an attempt's process end or a verb start.
FairSpec == Spec /\ WF_vars(Step) /\ SF_vars(Applied)

------------------------------------------------------------------------------
(* Properties.                                                             *)

Kinds == {"intent", "outcome", "acquired", "ended", "accepted", "stale",
          "completed", "stopped"}

\* A key is decided once, whatever is resent, drained twice or killed in
\* between: one intent or one recorded refusal, and at most one outcome, after
\* that intent (operation.rs, rules 1 to 3).
KeyDecidedOnce ==
  \A i, j \in DOMAIN record :
    /\ record[i].run = record[j].run
    /\ record[i].key = record[j].key
    /\ record[j].kind \in {"accepted", "stale", "completed"}
    => /\ record[i].kind = record[j].kind => i = j
       /\ ~ (record[i].kind = "accepted" /\ record[j].kind = "stale")
       /\ record[j].kind = "completed" =>
            \E k \in About(record[j].run, "accepted") :
              k < j /\ record[k].key = record[j].key

\* A lease passes on only after a record ended it, and it does not expire while
\* its run has an attempt without an outcome: a controller whose process died
\* keeps the run as long as the attempt it may have to stop is there.
LeaseHandover ==
  \A r \in Runs :
    /\ \A i, j \in About(r, "acquired") : i < j =>
         \E k \in About(r, "ended") : i < k /\ k < j /\ record[k].lease = i
    /\ \A k \in About(r, "ended") : record[k].word = "expired" =>
         \A i \in About(r, "intent") : i < k =>
           \E j \in About(r, "outcome") : i < j /\ j < k /\ record[j].n = record[i].n

\* What was decided under a key was decided for the holder of the lease it
\* presented, and what was accepted was decided against exactly the records
\* before it, however long the request waited in the queue.
DecidedUnderLease ==
  \A r \in Runs : \A i \in About(r, "accepted") \cup About(r, "stale") :
    LET l == record[i].lease IN
      /\ l \in About(r, "acquired") /\ l < i
      /\ record[l].name = record[i].name
      /\ \A k \in About(r, "ended") : k < i => record[k].lease # l
      /\ record[i].kind = "accepted" =>
           record[i].ver = Cardinality({j \in DOMAIN record : j < i /\ record[j].run = r})

\* A key launches at most one attempt, and only after its intent: a controller
\* that lost the answer and sends the retry again does not launch twice.
OneLaunchPerKey ==
  \A r \in Runs : \A i \in About(r, "intent") : record[i].key # Nothing =>
    /\ \A j \in About(r, "intent") : record[j].key = record[i].key => i = j
    /\ \E k \in About(r, "accepted") :
         k < i /\ record[k].key = record[i].key /\ record[k].op = "retry"

\* A key is decided once and launches once, whatever is resent, drained twice or
\* killed in between (operation.rs, rules 1 to 3).
KeysDecided == KeyDecidedOnce /\ OneLaunchPerKey

\* An abort's stop is confirmed once, after it was requested and after the
\* attempt it named ended cancelled, in that order.
StopConfirmedAfterCancelled ==
  \A r \in Runs : \A k \in About(r, "stopped") :
    /\ \A s \in About(r, "stopped") : record[s].key = record[k].key => s = k
    /\ \E i \in About(r, "completed"), j \in About(r, "outcome") :
         /\ i < j /\ j < k
         /\ record[i].key = record[k].key
         /\ record[j].n = record[k].n /\ record[j].word = "cancelled"

\* A queued request whose file was left behind is applied again by the next
\* writer, and every record it asks for is there once all the same.
AppliedOnce ==
  \A i, j \in DOMAIN record :
    /\ record[i].req # 0
    /\ record[i].req = record[j].req
    /\ record[i].kind = record[j].kind
    => i = j

\* What a controller asked was decided under the lease it presented, entered the
\* record once, and what it stopped is confirmed after it stopped.
RequestsDecided == DecidedUnderLease /\ AppliedOnce /\ StopConfirmedAfterCancelled

\* While a supervisor runs, every queued request that reads is answered, those
\* behind a file that does not read and those whose removal fails at first
\* included.
QueuedIsAnswered ==
  \A f \in Requests :
    (pc = "supervising" /\ f \in Readable) ~> (stage[f] = "gone" \/ sup = 0)

\* A stop requested of the attempt under supervision ends the supervision,
\* whether run or a retry launched it.
AbortStopsTheAttempt ==
  (sup # 0 /\ StopsOf(run, sup) # {}) ~> sup = 0

Nobody == Nothing

HolderOf(r) ==
  IF LeaseOf(r) = {} THEN Nobody
  ELSE LET l == CHOOSE l \in LeaseOf(r) : TRUE
       IN  [name |-> record[l].name, pid |-> record[l].pid]

VerdictOf(r, k) ==
  LET kinds == {record[i].kind : i \in {j \in DOMAIN record : record[j].run = r /\ record[j].key = k}}
  IN IF "stopped" \in kinds THEN "stopped"
     ELSE IF "completed" \in kinds THEN "completed"
     ELSE IF "accepted" \in kinds THEN "accepted"
     ELSE IF "stale" \in kinds THEN "refused"
     ELSE "undecided"

\* The record, the queue and the verbs implement the controller's lease.
Lease == INSTANCE ControllerLease
           WITH Controllers <- [name : Names, pid : Pids], Nobody <- Nobody,
                holder <- [r \in Runs |-> HolderOf(r)],
                verdict <- [r \in Runs |-> [k \in Keys |-> VerdictOf(r, k)]]

ImplementsControllerLease == Lease!Spec
===============================================================================
