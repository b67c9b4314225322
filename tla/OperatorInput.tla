----------------------------- MODULE OperatorInput -----------------------------
(***************************************************************************)
(* Operator input to a live attempt: the input verb, the queue of requests *)
(* the supervisor drains, the supervisor's desk, the notes it places in    *)
(* the attempt's exchange directory and the gate that returns them to the  *)
(* agent's governed calls.                                                 *)
(*                                                                         *)
(* The repository lock is exclusive, so what holds it is one program       *)
(* counter, pc.  The gate is not under that lock: it runs once per         *)
(* governed call, beside the desk and beside other gates, and the two      *)
(* share the notes directory and the gate log alone.  One run is enough:   *)
(* an input is only ever compared with inputs and attempts of its own run. *)
(* The lease a command presents is RunOperations; here it holds it.        *)
(***************************************************************************)
EXTENDS Naturals, Sequences, FiniteSets

CONSTANTS
  Gates,            \* governed calls that may be at the gate at one time
  Bodies,           \* the texts operators send
  Kinds,            \* "note", "abort", or both
  Lifetimes,        \* how long an input may be asked to stand
  LogLimit,         \* how many lines of the gate log the supervisor reads
  MaxAttempts,      \* bound: attempts launched
  MaxRequests,      \* bound: requests ever queued
  MaxInputs,        \* bound: inputs ever recorded
  MaxCalls,         \* bound: governed calls ever made
  MaxTime           \* bound: the clock

ASSUME OperatorInputAssumption ==
  /\ Kinds \subseteq {"note", "abort"}
  /\ Lifetimes \subseteq Nat \ {0}
  /\ LogLimit \in Nat
  /\ MaxAttempts \in Nat
  /\ MaxRequests \in Nat
  /\ MaxInputs \in Nat
  /\ MaxCalls \in Nat
  /\ MaxTime \in Nat

Requests == 1 .. MaxRequests
Attempts == 1 .. MaxAttempts
Ids      == 1 .. MaxInputs

VARIABLES
  record,           \* the entries of the run record
  ask,              \* what each queued request asks
  stage,            \* where each queued request is
  pc,               \* where the holder of the lock is; "free" when nobody holds it
  verb,             \* what the holder is doing
  at,               \* the clock as the holder read it
  batch,            \* the request files it has listed and not removed
  cur,              \* the request it is taking
  from,             \* the file that request came from; 0 for the verb's own
  sup,              \* the attempt it supervises; 0 for none
  said,             \* how that attempt's process ended
  fresh,            \* the drain has recorded an input
  open,             \* the desk has something to settle
  todo,             \* the notes the desk has yet to settle in this pass
  seen,             \* the notes the gate log named when this pass began
  placed,           \* the notes in the exchange directories
  log,              \* each attempt's gate log: 0 for an admitted call, or the note returned
  gate,             \* what each gate is doing
  agents,           \* the attempts whose agent runs
  now               \* the clock

desk  == <<open, todo, seen>>
local == <<pc, verb, at, batch, cur, from, sup, said, fresh, desk>>
child == <<log, gate, agents>>
vars  == <<record, ask, stage, local, placed, child, now>>

Idle == [n |-> 0, clock |-> 0, names |-> {}, holds |-> 0]

Submission(what, b, n, ends) == [what |-> what, body |-> b, n |-> n, expires |-> ends]

NoSubmission == Submission("none", "none", 0, 0)
NoRequest == [sub |-> NoSubmission, ver |-> 0]

------------------------------------------------------------------------------
(* The folds of the record.                                                *)

Entry(kind, n) == [kind |-> kind, n |-> n, id |-> 0, sub |-> NoSubmission, word |-> "none",
                   why |-> "none", key |-> 0, ver |-> 0]

All(k) == {i \in DOMAIN record : record[i].kind = k}

LatestAttempt == Cardinality(All("intent"))

Live(n) ==
  /\ \E i \in All("intent") : record[i].n = n
  /\ \A i \in All("outcome") \cup All("reconciled") : record[i].n # n

Recorded == {record[i].id : i \in All("input")}

Sub(id) == record[CHOOSE i \in All("input") : record[i].id = id].sub

\* Where an input stands: the last state the record moved it to.
StateOf(id) ==
  LET about == {i \in DOMAIN record : record[i].id = id /\ record[i].kind # "decided"} IN
  IF about = {} THEN "none" ELSE record[CHOOSE i \in about : \A j \in about : j <= i].word

Notes(n) == {id \in Recorded : Sub(id).what = "note" /\ Sub(id).n = n}

Unsettled(n) == {id \in Notes(n) : StateOf(id) \in {"pending", "delivered"}}

\* Mutant of NextId: inputs that are settled give up their number.
NextFreeId ==
  Cardinality({id \in Recorded : StateOf(id) \in {"pending", "delivered"}}) + 1

NextId == Cardinality(Recorded) + 1

\* The input that already records this submission, by its whole content.
RecordedAs(sub) == {id \in Recorded : Sub(id) = sub}

\* Mutant of Taken: each request is an input of its own.
NeverTaken(q) == FALSE

Taken(q) == RecordedAs(q.sub) # {}

KeyHeld(f) == \E i \in All("decided") : record[i].key = f

\* The notes the supervisor reads back: those the bounded start of the log names.
Returned(n) == {log[n][i] : i \in {j \in DOMAIN log[n] : j <= LogLimit}} \ {0}

Least(S) == CHOOSE f \in S : \A g \in S : f <= g

Queued == {f \in Requests : stage[f] = "queued"}

Unused == {f \in Requests : stage[f] = "none"}

------------------------------------------------------------------------------

Init ==
  /\ record = << >>
  /\ ask = [f \in Requests |-> NoRequest]
  /\ stage = [f \in Requests |-> "none"]
  /\ pc = "free"
  /\ verb = "none"
  /\ at = 0
  /\ batch = {}
  /\ cur = NoRequest
  /\ from = 0
  /\ sup = 0
  /\ said = "none"
  /\ fresh = FALSE
  /\ open = FALSE
  /\ todo = {}
  /\ seen = {}
  /\ placed = {}
  /\ log = [n \in Attempts |-> << >>]
  /\ gate = [g \in Gates |-> Idle]
  /\ agents = {}
  /\ now = 0

Add(e) == record' = Append(record, e)

Release ==
  /\ pc' = "free"
  /\ verb' = "none"
  /\ at' = 0
  /\ batch' = {}
  /\ cur' = NoRequest
  /\ from' = 0
  /\ sup' = 0
  /\ said' = "none"
  /\ fresh' = FALSE
  /\ open' = FALSE
  /\ todo' = {}
  /\ seen' = {}

Goto(s) ==
  /\ pc' = s
  /\ UNCHANGED <<verb, at, batch, cur, from, sup, said, fresh, desk>>

\* The process group of an attempt's agent is killed, its gates with it.
Kill(n) ==
  /\ agents' = agents \ {n}
  /\ gate' = [g \in Gates |-> IF gate[g].n = n THEN Idle ELSE gate[g]]

------------------------------------------------------------------------------
(* Submitting: the input verb with the lock free, or a request file.       *)

\* input note and input command drain the queue first; run and reconcile do not.
TakeLock(v) ==
  /\ pc = "free"
  /\ verb' = v
  /\ at' = now
  /\ IF v = "input"
       THEN pc' = "draining" /\ batch' = Queued
       ELSE pc' = v /\ UNCHANGED batch
  /\ UNCHANGED <<record, ask, stage, cur, from, sup, said, fresh, desk, placed, child, now>>

\* What an operator asks of the run's latest attempt.  A command also presents
\* the version its controller read, now or one record ago.
Asked(clock) ==
  LET subs(k) == {Submission(k, b, LatestAttempt, clock + d) : b \in Bodies, d \in Lifetimes}
  IN  {[sub |-> s, ver |-> 0] : s \in IF "note" \in Kinds THEN subs("note") ELSE {}}
        \cup {[sub |-> s, ver |-> Len(record) - old] :
               s \in IF "abort" \in Kinds THEN subs("abort") ELSE {}, old \in {0, 1}}

\* The lock is busy: the request is queued for the supervisor.
Ask ==
  /\ pc # "free"
  /\ LatestAttempt > 0
  /\ Unused # {}
  /\ LET f == Least(Unused) IN
       /\ \E q \in Asked(now) : ask' = [ask EXCEPT ![f] = q]
       /\ stage' = [stage EXCEPT ![f] = "queued"]
  /\ UNCHANGED <<record, local, placed, child, now>>

TakeRequest ==
  /\ pc = "draining"
  /\ batch # {}
  /\ pc' = "taking"
  /\ from' = Least(batch)
  /\ cur' = ask[Least(batch)]
  /\ UNCHANGED <<record, ask, stage, verb, at, batch, sup, said, fresh, desk, placed, child, now>>

\* The verb's own submission follows what was queued.
OwnSubmission ==
  /\ pc = "draining"
  /\ batch = {}
  /\ verb = "input"
  /\ IF LatestAttempt = 0
       THEN Release
       ELSE /\ \E q \in Asked(at) : cur' = q
            /\ pc' = "taking"
            /\ UNCHANGED <<verb, at, batch, from, sup, said, fresh, desk>>
  /\ UNCHANGED <<record, ask, stage, placed, child, now>>

\* A submission is recorded before its expiry; a note of a live attempt only.
Acceptable(sub) ==
  /\ sub.expires > at
  /\ sub.what = "note" => Live(sub.n)

RefuseInput ==
  /\ pc = "taking"
  /\ ~ Taken(cur)
  /\ ~ Acceptable(cur.sub)
  /\ Goto("taken")
  /\ UNCHANGED <<record, ask, stage, placed, child, now>>

AfterRecord == IF cur.sub.what = "abort" THEN "commanding" ELSE "taken"

\* The pending record, durable before anything else happens to the input.
RecordInput ==
  /\ pc = "taking"
  /\ ~ Taken(cur)
  /\ Acceptable(cur.sub)
  /\ Cardinality(Recorded) < MaxInputs
  /\ Add([Entry("input", cur.sub.n) EXCEPT
            !.id = NextId, !.sub = cur.sub, !.word = "pending"])
  /\ pc' = AfterRecord
  /\ fresh' = TRUE
  /\ UNCHANGED <<ask, stage, verb, at, batch, cur, from, sup, said, desk, placed, child, now>>

\* A writer recorded it and could not remove its file: nothing is appended, and
\* a command goes on to be decided.
AlreadyRecorded ==
  /\ pc = "taking"
  /\ Taken(cur)
  /\ Goto(AfterRecord)
  /\ UNCHANGED <<record, ask, stage, placed, child, now>>

\* The version a command is decided against: its own pending record, appended
\* since its controller read the version, is one record more.
DecidedAt(q) == q.ver + 1

\* A command the record has no answer to add to: its key is held, or it is
\* current and no attempt is live.  A queued request has a key of its own, named
\* by its file; what verbs submit themselves shares one.
AnswerKnown ==
  \/ KeyHeld(from)
  \/ DecidedAt(cur) = Len(record) /\ ~ Live(LatestAttempt)

\* The abort is decided after its input is recorded, with the input as reason.
DecideCommand ==
  /\ pc = "commanding"
  /\ IF AnswerKnown
       THEN UNCHANGED record
       ELSE \E id \in RecordedAs(cur.sub) :
              Add([Entry("decided", LatestAttempt) EXCEPT
                     !.id = id, !.key = from, !.ver = cur.ver,
                     !.word = IF DecidedAt(cur) = Len(record) THEN "accepted" ELSE "stale"])
  /\ Goto("taken")
  /\ UNCHANGED <<ask, stage, placed, child, now>>

\* A drained request's file is removed; a verb's own submission ends the verb.
Applied ==
  /\ pc = "taken"
  /\ IF from = 0
       THEN Release /\ UNCHANGED stage
       ELSE /\ stage' = [stage EXCEPT ![from] = "gone"]
            /\ batch' = batch \ {from}
            /\ from' = 0
            /\ cur' = NoRequest
            /\ pc' = "draining"
            /\ UNCHANGED <<verb, at, sup, said, fresh, desk>>
  /\ UNCHANGED <<record, ask, placed, child, now>>

\* Mutant of RemoveFails: the desk is woken by a drain that succeeds, alone.
RemoveFailsUnwoken ==
  /\ pc = "taken"
  /\ from # 0
  /\ IF sup = 0
       THEN Release
       ELSE /\ batch' = {}
            /\ from' = 0
            /\ cur' = NoRequest
            /\ fresh' = FALSE
            /\ pc' = "desk"
            /\ UNCHANGED <<verb, at, sup, said, desk>>
  /\ UNCHANGED <<record, ask, stage, placed, child, now>>

\* The file cannot be removed: a verb fails there; a supervisor wakes its desk,
\* for the input may have been recorded and will not be recorded again.
RemoveFails ==
  /\ pc = "taken"
  /\ from # 0
  /\ IF sup = 0
       THEN Release
       ELSE /\ batch' = {}
            /\ from' = 0
            /\ cur' = NoRequest
            /\ fresh' = FALSE
            /\ open' = TRUE
            /\ pc' = "desk"
            /\ UNCHANGED <<verb, at, sup, said, todo, seen>>
  /\ UNCHANGED <<record, ask, stage, placed, child, now>>

Drained ==
  /\ pc = "draining"
  /\ batch = {}
  /\ sup # 0
  /\ open' = (open \/ fresh)
  /\ fresh' = FALSE
  /\ pc' = "desk"
  /\ UNCHANGED <<record, ask, stage, verb, at, batch, cur, from, sup, said, todo, seen,
                 placed, child, now>>

------------------------------------------------------------------------------
(* The launch, the poll and the end: what RunControl models in full.       *)

\* begin: an attempt is launched only when none is live.
Launch ==
  /\ pc = "run"
  /\ IF LatestAttempt < MaxAttempts /\ \A n \in 1 .. LatestAttempt : ~ Live(n)
       THEN /\ Add(Entry("intent", LatestAttempt + 1))
            /\ sup' = LatestAttempt + 1
            /\ agents' = agents \cup {LatestAttempt + 1}
            /\ open' = TRUE
            /\ pc' = "watching"
            /\ UNCHANGED <<verb, at, batch, cur, from, said, fresh, todo, seen>>
       ELSE Release /\ UNCHANGED <<record, agents>>
  /\ UNCHANGED <<ask, stage, placed, log, gate, now>>

\* Nothing is read of the record or appended while nothing is queued or open.
Poll ==
  /\ pc = "watching"
  /\ Queued # {} \/ open
  /\ pc' = "draining"
  /\ batch' = Queued
  /\ at' = now
  /\ UNCHANGED <<record, ask, stage, verb, cur, from, sup, said, fresh, desk, placed, child, now>>

\* An accepted abort of this attempt stops it; otherwise it runs on.
Decide ==
  /\ pc = "deciding"
  /\ IF \E i \in All("decided") : record[i].word = "accepted" /\ record[i].n = sup
       THEN pc' = "ended" /\ said' = "cancelled" /\ Kill(sup)
       ELSE pc' = "watching" /\ UNCHANGED <<said, gate, agents>>
  /\ UNCHANGED <<record, ask, stage, verb, at, batch, cur, from, sup, fresh, desk,
                 placed, log, now>>

\* The agent's process ends by itself and its group is killed.
AgentEnds ==
  /\ pc = "watching"
  /\ pc' = "ended"
  /\ said' = "completed"
  /\ Kill(sup)
  /\ UNCHANGED <<record, ask, stage, verb, at, batch, cur, from, sup, fresh, desk,
                 placed, log, now>>

\* The record changed under the supervisor: nothing is appended to it.
LeaveLive ==
  /\ pc = "ended"
  /\ Release
  /\ UNCHANGED <<record, ask, stage, placed, child, now>>

Conclude ==
  /\ pc = "concluding"
  /\ Add([Entry("outcome", sup) EXCEPT !.word = said])
  /\ Release
  /\ UNCHANGED <<ask, stage, placed, child, now>>

\* run reconcile finds an attempt nobody supervises and ends it.  Its notes
\* are nobody's to move.
Reconcile ==
  /\ pc = "reconcile"
  /\ IF LatestAttempt > 0 /\ Live(LatestAttempt)
       THEN Add(Entry("reconciled", LatestAttempt))
       ELSE UNCHANGED record
  /\ Release
  /\ UNCHANGED <<ask, stage, placed, child, now>>

\* The holder is killed.  Its agent, and the gates under it, may run on.
Crash ==
  /\ pc # "free"
  /\ Release
  /\ Kill(sup) \/ UNCHANGED <<gate, agents>>
  /\ UNCHANGED <<record, ask, stage, placed, log, now>>

------------------------------------------------------------------------------
(* The desk.                                                               *)

\* A pass begins: the notes to settle, and the log as it is now.  The closing
\* pass is made whether or not the desk is open, on a clock read again.
BeginPass ==
  /\ \/ pc = "desk" /\ open /\ UNCHANGED at
     \/ pc = "ended" /\ at' = now
  /\ todo' = Unsettled(sup)
  /\ seen' = Returned(sup)
  /\ open' = FALSE
  /\ pc' = "settling"
  /\ UNCHANGED <<record, ask, stage, verb, batch, cur, from, sup, said, fresh, placed, child, now>>

NothingOpen ==
  /\ pc = "desk"
  /\ ~ open
  /\ Goto("deciding")
  /\ UNCHANGED <<record, ask, stage, placed, child, now>>

PassEnds ==
  /\ pc = "settling"
  /\ todo = {}
  /\ pc' = IF said = "none" THEN "deciding" ELSE "concluding"
  /\ seen' = {}
  /\ UNCHANGED <<record, ask, stage, verb, at, batch, cur, from, sup, said, fresh, open, todo,
                 placed, child, now>>

Due(id) == said # "none" \/ at >= Sub(id).expires

Why(word) ==
  IF word # "expired" THEN "none"
  ELSE IF said # "none" THEN "attempt-ended"
  ELSE "expiry-passed"

\* The next note of the pass, in the order they were recorded.
Turn(id) == pc = "settling" /\ todo # {} /\ id = Least(todo)

Move(id, word) ==
  Add([Entry("state", sup) EXCEPT !.id = id, !.word = word, !.why = Why(word)])

\* The pass goes on to the note after it.
Turned(id) ==
  /\ todo' = todo \ {id}
  /\ pc' = "settling"

ExpirePending(id) ==
  /\ Turn(id)
  /\ StateOf(id) = "pending"
  /\ Due(id)
  /\ Move(id, "expired")
  /\ Turned(id)
  /\ UNCHANGED <<ask, stage, verb, at, batch, cur, from, sup, said, fresh, open, seen,
                 placed, child, now>>

\* The note's file is published, then its delivery recorded.
Place(id) ==
  /\ Turn(id)
  /\ StateOf(id) = "pending"
  /\ ~ Due(id)
  /\ id \notin placed
  /\ placed' = placed \cup {id}
  /\ open' = TRUE
  /\ pc' = "placed"
  /\ UNCHANGED <<record, ask, stage, verb, at, batch, cur, from, sup, said, fresh, todo, seen,
                 child, now>>

PlaceFails(id) ==
  /\ Turn(id)
  /\ StateOf(id) = "pending"
  /\ ~ Due(id)
  /\ open' = TRUE
  /\ Turned(id)
  /\ UNCHANGED <<record, ask, stage, verb, at, batch, cur, from, sup, said, fresh, seen,
                 placed, child, now>>

Deliver(id) ==
  /\ pc = "placed"
  /\ id = Least(todo)
  /\ Move(id, "delivered")
  /\ Turned(id)
  /\ UNCHANGED <<ask, stage, verb, at, batch, cur, from, sup, said, fresh, open, seen,
                 placed, child, now>>

\* A returned or due note is taken away first; failing to is only reported.
Withdraw(id) ==
  /\ Turn(id)
  /\ StateOf(id) = "delivered"
  /\ id \in seen \/ Due(id)
  /\ placed' \in {placed, placed \ {id}}
  /\ pc' = "withdrawn"
  /\ UNCHANGED <<record, ask, stage, verb, at, batch, cur, from, sup, said, fresh, desk,
                 child, now>>

\* Mutant of Settle: what is due is looked at before what the gate returned.
SettleDueFirst(id) ==
  /\ pc = "withdrawn"
  /\ id = Least(todo)
  /\ Move(id, IF Due(id) THEN "expired" ELSE "acknowledged")
  /\ Turned(id)
  /\ UNCHANGED <<ask, stage, verb, at, batch, cur, from, sup, said, fresh, open, seen,
                 placed, child, now>>

\* What the gate returned is looked at before what is due.
Settle(id) ==
  /\ pc = "withdrawn"
  /\ id = Least(todo)
  /\ Move(id, IF id \in seen THEN "acknowledged" ELSE "expired")
  /\ Turned(id)
  /\ UNCHANGED <<ask, stage, verb, at, batch, cur, from, sup, said, fresh, open, seen,
                 placed, child, now>>

\* A delivered note that is neither returned nor due keeps the desk open.
LeaveOpen(id) ==
  /\ Turn(id)
  /\ StateOf(id) = "delivered"
  /\ id \notin seen
  /\ ~ Due(id)
  /\ open' = TRUE
  /\ Turned(id)
  /\ UNCHANGED <<record, ask, stage, verb, at, batch, cur, from, sup, said, fresh, seen,
                 placed, child, now>>

Desk(id) ==
  \/ ExpirePending(id) \/ Place(id) \/ PlaceFails(id) \/ Deliver(id)
  \/ Withdraw(id) \/ Settle(id) \/ LeaveOpen(id)

------------------------------------------------------------------------------
(* The gate of one governed call.                                          *)

Calls == Cardinality(UNION {{<<n, i>> : i \in {j \in DOMAIN log[n] : log[n][j] = 0}} :
                              n \in Attempts})

\* A gate looks through the notes it listed until it has one to return, or none
\* is left and the call proceeds without.
Looking(n, clock, names) ==
  IF names = {} THEN Idle ELSE [n |-> n, clock |-> clock, names |-> names, holds |-> 0]

\* An admitted call: the log says so, then the clock is read and the placed
\* notes are listed.
GateCalls(g, n) ==
  /\ n \in agents
  /\ gate[g] = Idle
  /\ Calls < MaxCalls
  /\ log' = [log EXCEPT ![n] = Append(@, 0)]
  /\ gate' = [gate EXCEPT ![g] = Looking(n, now, {id \in placed : Sub(id).n = n})]
  /\ UNCHANGED <<record, ask, stage, local, placed, agents, now>>

\* Still there, not expired by the clock the gate read, and not in the log.
Returnable(g, id) ==
  /\ id \in placed
  /\ gate[g].clock < Sub(id).expires
  /\ \A i \in DOMAIN log[gate[g].n] : log[gate[g].n][i] # id

GatePasses(g) ==
  /\ gate[g].names # {}
  /\ LET id == Least(gate[g].names) IN
       /\ ~ Returnable(g, id)
       /\ gate' = [gate EXCEPT ![g] = Looking(@.n, @.clock, @.names \ {id})]
  /\ UNCHANGED <<record, ask, stage, local, placed, log, agents, now>>

\* The body is read before its return is logged.
GateHolds(g) ==
  /\ gate[g].names # {}
  /\ LET id == Least(gate[g].names) IN
       /\ Returnable(g, id)
       /\ gate' = [gate EXCEPT ![g].holds = id, ![g].names = {}]
  /\ UNCHANGED <<record, ask, stage, local, placed, log, agents, now>>

\* The return is logged, and then the note printed: one note for this call.
GateReturns(g) ==
  /\ gate[g].holds # 0
  /\ log' = [log EXCEPT ![gate[g].n] = Append(@, gate[g].holds)]
  /\ gate' = [gate EXCEPT ![g] = Idle]
  /\ UNCHANGED <<record, ask, stage, local, placed, agents, now>>

Gate(g) ==
  \/ \E n \in Attempts : GateCalls(g, n)
  \/ GatePasses(g) \/ GateHolds(g) \/ GateReturns(g)

Tick ==
  /\ now < MaxTime
  /\ now' = now + 1
  /\ UNCHANGED <<record, ask, stage, local, placed, child>>

------------------------------------------------------------------------------

\* The supervisor's own steps, but for those that depend on its agent.
Supervise ==
  \/ TakeRequest \/ RefuseInput \/ RecordInput \/ AlreadyRecorded \/ DecideCommand
  \/ Applied \/ RemoveFails \/ Drained \/ Poll \/ Decide \/ Conclude
  \/ BeginPass \/ NothingOpen \/ PassEnds \/ \E id \in Ids : Desk(id)

Next ==
  \/ \E v \in {"input", "run", "reconcile"} : TakeLock(v)
  \/ OwnSubmission \/ Ask
  \/ Supervise
  \/ Launch \/ AgentEnds \/ LeaveLive \/ Reconcile \/ Crash
  \/ \E g \in Gates : Gate(g)
  \/ Tick

Spec == Init /\ [][Next]_vars

\* A supervisor keeps polling.  Nothing is owed by the agent, its gates, the
\* operators, or a process that is killed.
FairSpec == Spec /\ WF_vars(sup # 0 /\ Supervise)

------------------------------------------------------------------------------
(* Properties.                                                             *)

\* A submission is recorded once however often its file is taken: left behind
\* by a writer, found again by the next one, or typed again by its operator.
RecordedOnce == \A id, other \in Recorded : Sub(id) = Sub(other) => id = other

\* When a supervisor records an attempt's outcome, no note of the attempt is
\* left pending or delivered, whenever it was queued and whatever the gates did.
NotesSettled == \A i \in All("outcome") : Unsettled(record[i].n) = {}

\* A note is acknowledged only when a gate of its own attempt logged it, and it
\* was delivered to that attempt before.
AcknowledgedWasReturned ==
  \A i \in All("state") : record[i].word = "acknowledged" =>
    \E k \in DOMAIN log[record[i].n] : log[record[i].n][k] = record[i].id

\* A note that expired because its attempt ended was not read: no line of the
\* log that the supervisor reads names it.
EndedUnread ==
  \A i \in All("state") :
    record[i].why = "attempt-ended" => record[i].id \notin Returned(record[i].n)

\* A command whose controller read its version before the command's input was
\* recorded is refused as stale only for a record that input did not make.  (One
\* typed again within the second, at a version read since, is not: the code adds
\* one for a record that was there.)
StaleForAnother ==
  \A i \in All("decided") :
    LET own == {j \in All("input") : record[j].id = record[i].id} IN
    record[i].word = "stale" /\ (\A j \in own : record[i].ver < j)
      => \E j \in record[i].ver + 1 .. i - 1 : j \notin own

\* A submission is recorded once and judged against what its controller read,
\* over kills, drains that find its file again and operators who type it again.
SubmissionsDecided == RecordedOnce /\ StaleForAnother

\* What the record says of a note at the end is what the gates did with it.
NotesTold == NotesSettled /\ AcknowledgedWasReturned /\ EndedUnread

\* A note that is due is settled by a supervisor that keeps polling, however it
\* was queued, unless it stops supervising.
NoteIsSettled ==
  \A id \in Ids :
    (sup # 0 /\ id \in Unsettled(sup) /\ now >= Sub(id).expires)
      ~> (sup = 0 \/ StateOf(id) \in {"acknowledged", "expired"})

\* Every input moves as the states of spec 053 allow.
Abstract == INSTANCE InputStates WITH state <- [id \in Ids |-> StateOf(id)]
ImplementsInputStates == Abstract!Spec
===============================================================================
