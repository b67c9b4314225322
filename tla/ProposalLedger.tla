---------------------------- MODULE ProposalLedger ----------------------------
(***************************************************************************)
(* Observation and proposals.  A verb that writes takes the observation    *)
(* lock, settles the admission a dead writer left, reads what a ref offers *)
(* now, and appends entries to one chain: what was observed, the proposals *)
(* the change calls for, and what became of them.  An admission crosses    *)
(* into the run record: its intent names the proposal.                     *)
(*                                                                         *)
(* The chain is read by folding it, so the model keeps the fold; an entry  *)
(* is one durable step, and a kill between two frees the lock.  A torn     *)
(* last entry is cut by the next append and folds as if it were not there. *)
(*                                                                         *)
(* JournalProofs is about this module and about two more, so what every    *)
(* specification has is named PL... here.                                  *)
(***************************************************************************)
EXTENDS Naturals, Sequences, SequencesExt, FiniteSets

CONSTANTS
  SpecOrder,        \* the specs of the corpus, in the order of their ids
  Contracts,        \* the digests a spec's contract may have
  Refusals,         \* the classes a corpus may be refused with
  Refs,             \* the refs an operator observes
  Docs,             \* what else a commit holds: a change of it moves no projection
  NoRef,            \* what has no ref
  WholeCorpus,      \* what a notice about no single spec names
  MaxObserved,      \* bound: observations recorded
  MaxDeaths,        \* bound: writers killed
  MaxMoves          \* bound: times a ref, the policy or an override moves

ASSUME ProposalLedgerAssumption ==
  /\ SpecOrder \in Seq(Range(SpecOrder)) /\ WholeCorpus \notin Range(SpecOrder)
  /\ NoRef \notin Refs /\ "answered" \notin Refusals
  /\ MaxObserved \in Nat /\ MaxDeaths \in Nat /\ MaxMoves \in Nat

VARIABLES
  world,            \* what each ref offers now
  ledger,           \* the fold of the observation chain
  intents,          \* the run record: how many attempts name each proposal
  writer,           \* the writer that holds the observation lock
  observed,         \* the observations recorded so far
  deaths,           \* the writers killed so far
  moves,            \* the moves of the world so far
  interrupted       \* history: an observation was interrupted, and none finished since

plvars == <<world, ledger, intents, writer, observed, deaths, moves, interrupted>>

Corpus == Range(SpecOrder)

------------------------------------------------------------------------------
(* What an observation reads.                                              *)

\* A spec is absent from the plan, excluded, or eligible; an eligible one is
\* bound to a contract or has none.
Rows == {"absent", "excluded", "unbound"} \cup Contracts

Bound(row) == row \in Contracts
Eligible(row) == row \in Contracts \cup {"unbound"}

\* An input identity determines its projections: two inputs are one when they are equal.
Inputs ==
  [doc : Docs, corpus : {"answered"}, rows : [Corpus -> Rows]]
    \cup [doc : Docs, corpus : Refusals, rows : {[s \in Corpus |-> "absent"]}]

Answered(input) == input.corpus = "answered"

\* Two contracts that are both unavailable did not move.
MovedTo(before, after) == before # after

------------------------------------------------------------------------------
(* What a change calls for.                                                *)

Run(s, contract) == [kind |-> "run", about |-> "eligible-work", spec |-> s, before |-> "none", after |-> contract]
Notice(about, s, before, after) == [kind |-> "notice", about |-> about, spec |-> s, before |-> before, after |-> after]

Proposals ==
  [kind : {"run"}, about : {"eligible-work"}, spec : Corpus, before : {"none"}, after : Contracts]
    \cup [kind : {"notice"}, about : {"withdrawn-work"}, spec : Corpus, before : {"eligible"}, after : {"absent", "excluded"}]
    \cup [kind : {"notice"}, about : {"moved-contract"}, spec : Corpus, before : Contracts, after : Contracts \cup {"unbound"}]
    \cup [kind : {"notice"}, about : {"corpus-refusal"}, spec : {WholeCorpus}, before : Refusals \cup {"answered"}, after : Refusals]

\* Eligible before and now, under another contract.
ForMoved(s, before, after) ==
  IF Eligible(before) /\ Eligible(after) /\ MovedTo(before, after)
  THEN (IF Bound(after) THEN <<Run(s, after)>> ELSE <<>>)
         \o (IF Bound(before) THEN <<Notice("moved-contract", s, before, after)>> ELSE <<>>)
  ELSE <<>>

\* Entered or left eligibility.
ForWork(s, before, after) ==
  CASE ~Eligible(before) /\ Bound(after) -> <<Run(s, after)>>
    [] Eligible(before) /\ ~Eligible(after) -> <<Notice("withdrawn-work", s, "eligible", after)>>
    [] OTHER -> <<>>

ForCorpus(before, after) ==
  IF before \notin {"none", after} /\ after \in Refusals
  THEN <<Notice("corpus-refusal", WholeCorpus, before, after)>> ELSE <<>>

\* The transitions from the last observation, and from the last answered one, in
\* the order of their projections and then of their specs.
Candidates(last, base, input) ==
  IF Answered(input)
  THEN FlattenSeq([i \in DOMAIN SpecOrder |->
         ForMoved(SpecOrder[i], base[SpecOrder[i]], input.rows[SpecOrder[i]])])
       \o FlattenSeq([i \in DOMAIN SpecOrder |->
         ForWork(SpecOrder[i], base[SpecOrder[i]], input.rows[SpecOrder[i]])])
  ELSE ForCorpus(last, input.corpus)

------------------------------------------------------------------------------
(* The fold of the chain.                                                  *)

NoObservation == [corpus |-> "none"]

EmptyLedger ==
  [last |-> NoObservation, lastRef |-> NoRef, calls |-> <<>>, base |-> [s \in Corpus |-> "absent"],
   written |-> {}, state |-> [p \in Proposals |-> "none"], ref |-> [p \in Proposals |-> NoRef]]

\* A recurrence opens what nobody decided; an acknowledgment is of one occurrence.
Reopens(state) == state \in {"stale", "superseded", "acknowledged"}

Entry(what, p, ref) == [entry |-> what, proposal |-> p, ref |-> ref]

Observes(input, ref, calls) == [entry |-> "observed", input |-> input, ref |-> ref, calls |-> calls]

\* An entry's effect on the fold; "disposed" entries are named by their disposition.
Apply(l, e) ==
  CASE e.entry = "observed" ->
         [l EXCEPT !.last = e.input, !.lastRef = e.ref, !.calls = e.calls, !.written = {},
                   !.base = IF Answered(e.input) THEN e.input.rows ELSE @]
    [] e.entry = "proposed" ->
         [l EXCEPT !.state[e.proposal] = "open", !.ref[e.proposal] = e.ref, !.written = @ \cup {e.proposal}]
    [] e.entry = "recurred" ->
         [l EXCEPT !.state[e.proposal] = IF Reopens(@) THEN "open" ELSE @,
                   !.ref[e.proposal] = e.ref, !.written = @ \cup {e.proposal}]
    [] e.entry = "released" -> [l EXCEPT !.state[e.proposal] = "open"]
    [] OTHER -> [l EXCEPT !.state[e.proposal] = e.entry]

\* Mutant of Superseded: a run proposal opens beside another.
NoneSuperseded(l, p) == {}

\* The open run proposals of the same spec, under another contract.
Superseded(l, p) ==
  IF p.kind = "run" /\ l.state[p] = "open"
  THEN {q \in Proposals : q.kind = "run" /\ q.spec = p.spec /\ q # p /\ l.state[q] = "open"} ELSE {}

\* What one candidate adds: its own entry, and one for each proposal it supersedes.
Planned(plan, p, ref) ==
  LET first == Entry(IF plan.l.state[p] = "none" THEN "proposed" ELSE "recurred", p, ref)
      l == Apply(plan.l, first)
      old == Superseded(l, p)
  IN [l |-> [l EXCEPT !.state = [q \in Proposals |-> IF q \in old THEN "superseded" ELSE l.state[q]]],
      out |-> plan.out \o <<first>> \o SetToSeq({Entry("superseded", q, NoRef) : q \in old})]

\* The entries an observation calls for, each planned over those before it.
Plan(ledgerNow, ref, candidates) ==
  LET planned[n \in 0 .. Len(candidates)] ==
        IF n = 0 THEN [l |-> ledgerNow, out |-> <<>>] ELSE Planned(planned[n - 1], candidates[n], ref)
  IN planned[Len(candidates)].out

------------------------------------------------------------------------------
(* The writer: one verb under the observation lock.                        *)

Free == [verb |-> "none", at |-> "free", todo |-> <<>>, target |-> NoRef, read |-> NoObservation]

At(verb, at) == writer.verb = verb /\ writer.at = at /\ writer.todo = <<>>

Goto(at, todo) == writer' = [writer EXCEPT !.at = at, !.todo = todo]

\* Mutant of Settled: an orphaned admission is released without reading the run record.
SettledUnread(p) == Entry("released", p, NoRef)

\* What becomes of an admission whose writer died: the run record decides.
Settled(p) == Entry(IF intents[p] > 0 THEN "admitted" ELSE "released", p, NoRef)

Recovery == SetToSeq({Settled(p) : p \in {q \in Proposals : ledger.state[q] = "admitting"}})

\* The lock, the chain and the orphaned admissions; then the verb's own work.
Begins(verb, target) ==
  /\ writer = Free
  /\ writer' = [Free EXCEPT !.verb = verb, !.at = "recovering", !.target = target, !.todo = Recovery]
  /\ UNCHANGED <<world, ledger, intents, observed, deaths, moves, interrupted>>

\* One entry, durable before the next.
Appends ==
  /\ writer.todo # <<>>
  /\ ledger' = Apply(ledger, Head(writer.todo))
  /\ observed' = IF Head(writer.todo).entry = "observed" THEN observed + 1 ELSE observed
  /\ writer' = [writer EXCEPT !.todo = Tail(@)]
  /\ UNCHANGED <<world, intents, deaths, moves, interrupted>>

\* What the last observation called for and an interrupted writer never appended.
Missing ==
  LET calls == ledger.calls
  IN FlattenSeq([i \in DOMAIN calls |-> IF calls[i] \in ledger.written THEN <<>> ELSE <<calls[i]>>])

\* The ref is read once.  The same input as the last one is not observed again.
Observes1(ref) ==
  LET input == world[ref]
      calls == Candidates(ledger.last.corpus, ledger.base, input)
      entry == Observes(input, ref, calls)
  IN
  /\ IF input = ledger.last
     THEN writer' = [writer EXCEPT !.at = "observed", !.read = input, !.todo = Plan(ledger, ledger.lastRef, Missing)]
     ELSE /\ observed < MaxObserved
          /\ writer' = [writer EXCEPT !.at = "observed", !.read = input,
                            !.todo = <<entry>> \o Plan(Apply(ledger, entry), ref, calls)]
  /\ UNCHANGED <<world, ledger, intents, observed, deaths, moves, interrupted>>

Finishes ==
  /\ writer' = Free
  /\ UNCHANGED <<world, ledger, intents, observed, deaths, moves>>

\* observe: the ref, and every entry it calls for.
ObserveReads == At("observe", "recovering") /\ Observes1(writer.target)
ObserveEnds == At("observe", "observed") /\ Finishes /\ interrupted' = FALSE

\* proposal dismiss closes a run, proposal acknowledge a notice; both only an open one.
Closes ==
  LET p == writer.target IN
  /\ At("close", "recovering")
  /\ IF ledger.state[p] = "open"
     THEN Goto("closed", <<Entry(IF p.kind = "run" THEN "dismissed" ELSE "acknowledged", p, NoRef)>>)
     ELSE Goto("closed", <<>>)
  /\ UNCHANGED <<world, ledger, intents, observed, deaths, moves, interrupted>>

CloseEnds == At("close", "closed") /\ Finishes /\ UNCHANGED interrupted

\* proposal admit: an open run proposal, its latest ref observed afresh.
AdmitReads ==
  /\ At("admit", "recovering") /\ writer.target.kind = "run" /\ ledger.state[writer.target] = "open"
  /\ Observes1(ledger.ref[writer.target])

AdmitRefuses ==
  /\ At("admit", "recovering") /\ ~(writer.target.kind = "run" /\ ledger.state[writer.target] = "open")
  /\ Finishes /\ UNCHANGED interrupted

\* Mutant of Differs: any contract of an eligible spec will do.
DiffersInEligibility(p, input) == ~Answered(input) \/ ~Eligible(input.rows[p.spec])

\* What the proposal was made of is no longer so.
Differs(p, input) == ~Answered(input) \/ input.rows[p.spec] # p.after

AdmitDecides ==
  /\ At("admit", "observed")
  /\ IF Differs(writer.target, ledger.last)
     THEN Goto("disposed", <<Entry("stale", writer.target, NoRef)>>)
     ELSE Goto("admitting", <<Entry("admitting", writer.target, NoRef)>>)
  /\ interrupted' = FALSE
  /\ UNCHANGED <<world, ledger, intents, observed, deaths, moves>>

\* The run path: its own lock, its own refusals, and an intent that names the proposal.
Enters ==
  /\ At("admit", "admitting") /\ Goto("entered", <<>>)
  /\ \/ UNCHANGED intents
     \/ intents' = [intents EXCEPT ![writer.target] = @ + 1]
  /\ UNCHANGED <<world, ledger, observed, deaths, moves, interrupted>>

\* What the run record says, never the run's answer.
AdmitSettles ==
  /\ At("admit", "entered") /\ Goto("disposed", <<Settled(writer.target)>>)
  /\ UNCHANGED <<world, ledger, intents, observed, deaths, moves, interrupted>>

AdmitEnds == At("admit", "disposed") /\ Finishes /\ UNCHANGED interrupted

\* A writer is killed, or a step of it fails: what it appended stays, the lock is free.
Killed ==
  /\ writer # Free /\ deaths < MaxDeaths
  /\ deaths' = deaths + 1 /\ writer' = Free
  /\ interrupted' = (interrupted \/ writer.at = "observed")
  /\ UNCHANGED <<world, ledger, intents, observed, moves>>

------------------------------------------------------------------------------
(* The repository, the policy and the overrides, at any time.              *)

Moves(ref, input) ==
  /\ moves < MaxMoves /\ moves' = moves + 1
  /\ world[ref] # input /\ world' = [world EXCEPT ![ref] = input]
  /\ UNCHANGED <<ledger, intents, writer, observed, deaths, interrupted>>

------------------------------------------------------------------------------

PLInit ==
  /\ world \in [Refs -> Inputs]
  /\ ledger = EmptyLedger
  /\ intents = [p \in Proposals |-> 0]
  /\ writer = Free
  /\ observed = 0 /\ deaths = 0 /\ moves = 0 /\ interrupted = FALSE

Known == {p \in Proposals : ledger.state[p] # "none"}

Verb ==
  \/ \E ref \in Refs : Begins("observe", ref)
  \/ \E p \in Known : Begins("admit", p) \/ Begins("close", p)

PLNext ==
  \/ Verb
  \/ Appends
  \/ ObserveReads
  \/ ObserveEnds
  \/ Closes
  \/ CloseEnds
  \/ AdmitReads
  \/ AdmitRefuses
  \/ AdmitDecides
  \/ Enters
  \/ AdmitSettles
  \/ AdmitEnds
  \/ Killed
  \/ \E ref \in Refs, input \in Inputs : Moves(ref, input)

PLSpec == PLInit /\ [][PLNext]_plvars

------------------------------------------------------------------------------
(* Properties.                                                             *)

\* A proposal causes at most one attempt, whatever is killed between the two
\* records: an admission that reached the run record is never offered again.
OneAttemptPerProposal == \A p \in Proposals : intents[p] <= 1

\* An attempt is entered only for what its proposal was made of: the input read
\* under this very hold of the lock is answered and binds the spec to the
\* proposal's contract.
RunsWhatWasProposed ==
  [][\A p \in Proposals : intents'[p] > intents[p] =>
       /\ Answered(writer.read) /\ writer.read.rows[p.spec] = p.after
       /\ ledger.state[p] = "admitting"]_plvars

\* While no observation stands interrupted, everything the last one called for
\* is in the chain, whichever writers were killed before.
CalledForIsWritten ==
  writer = Free /\ ~interrupted => Range(ledger.calls) \subseteq ledger.written

\* At most one run proposal of a spec is open, once no observation was ever
\* interrupted (an interrupted one loses the supersession: the section "Known
\* divergences" of the README).
OneOpenRun ==
  writer = Free /\ deaths = 0 =>
    \A p, q \in Proposals :
      p.kind = "run" /\ q.kind = "run" /\ p.spec = q.spec
        /\ ledger.state[p] = "open" /\ ledger.state[q] = "open" => p = q

\* The open proposals are those the last observation calls for, and no others: none it called
\* for is missing, and none that a newer one replaced is still there to be admitted.
OpenIsCalledFor == CalledForIsWritten /\ OneOpenRun
==============================================================================
