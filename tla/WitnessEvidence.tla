-------------------------- MODULE WitnessEvidence --------------------------
(***************************************************************************)
(* The witness beside an attempt: a sidecar process whose effect is         *)
(* bracketed in the run record (statecraft-cli's witness.rs over the        *)
(* adapter's witness/), the identity fold that reads the bracket            *)
(* (recovery.rs), the admission of what it captured (statecraft-acceptance  *)
(* and statecraft-run's wire.rs) and the question acceptance asks of it.    *)
(*                                                                          *)
(* One run.  An append may fail, which writes nothing, and the supervisor   *)
(* may be killed between any two steps.  The sidecar is what it sends: it   *)
(* may announce readiness or not, break its protocol, report key material   *)
(* (a custody violation), name a capture that is not its own, or end early. *)
(* A capture is named by the attempt whose manifest it is, so a digest is   *)
(* an attempt number.  What makes a reference or a manifest unusable apart  *)
(* from its identities (its encoding, its type, its producer, prohibited    *)
(* content, retention) is the one flag sound, and whether the capture is      *)
(* whole is one flag for the terminal message and the manifest, which one     *)
(* producer writes.                                                         *)
(***************************************************************************)
EXTENDS Naturals, Sequences, FiniteSets

CONSTANTS MaxAttempts,   \* attempts of the run
          MaxLines       \* messages a sidecar has sent that nobody read

ASSUME BoundsAssumption == MaxAttempts \in Nat \ {0} /\ MaxLines \in Nat \ {0}

Attempts == 1..MaxAttempts

VARIABLES chain,   \* the record: a sequence of entries
          w,       \* the supervisor's own state
          lines    \* what the sidecar sent and nobody read

vars == <<chain, w, lines>>

---------------------------------------------------------------------------
(* The record and its folds.                                               *)

Entry(kind, a, detail) == [kind |-> kind, attempt |-> a, detail |-> detail]
Of(kind, a) == {i \in DOMAIN chain : chain[i].kind = kind /\ chain[i].attempt = a}
Appended(kind, a, detail) == chain' = Append(chain, Entry(kind, a, detail))

Started(a) == Of("attempt", a) # {}
Ended(a) == Of("end", a) # {}
Latest == Cardinality({a \in Attempts : Started(a)})

\* The identity-aware fold.  An effect is minted from its attempt's number.
Clash(a) == Cardinality(Of("intent", a)) > 1
Orphans(a) == {i \in Of("close", a) : \A j \in Of("intent", a) : j > i}
Doubles(a) == IF Cardinality(Of("close", a) \ Orphans(a)) > 1 THEN Of("close", a) ELSE {}
Defective(a) == Clash(a) \/ Orphans(a) # {} \/ Doubles(a) # {}
ClosedOnce(a) == Of("intent", a) # {} /\ Of("close", a) \ Orphans(a) # {} /\ ~Defective(a)

The(set) == CHOOSE i \in set : TRUE

\* What the attempt was asked for, as the record keeps it.
NotRecorded == "not-recorded"
RecordedPolicy(a) ==
  LET found == Of("policy", a) IN
  IF found = {} THEN NotRecorded
  ELSE IF Cardinality(found) = 1 THEN chain[The(found)].detail ELSE "ambiguous"

---------------------------------------------------------------------------
(* The judgment of one candidate, in the order of its steps.               *)

\* Mutant: the closing outcome is not asked which capture it closed.
NamesAny(subject, digest) == TRUE

\* The closing outcome names the capture it closed, when it names one.
Names(subject, digest) ==
  LET d == chain[The(Of("close", subject))].detail IN d \in {0, digest}

\* Exact subject binding: an effect of this run closed once, this attempt's.
Bind(a, subject, digest) ==
  IF ~ClosedOnce(subject) \/ ~Names(subject, digest) THEN "subject-mismatch"
  ELSE IF subject < a THEN "stale"
  ELSE IF subject > a THEN "subject-mismatch" ELSE "bound"

Prior(a, c) ==
  \E i \in Of("admission", a) : chain[i].detail.digest = c.reference /\ chain[i].detail.subject = c.subject

\* A candidate c is a reference (a digest and a subject) and manifest bytes.
Reason(a, c) ==
  LET binding == Bind(a, c.subject, c.reference)
      policy == RecordedPolicy(a)
  IN IF ~c.sound THEN "malformed"
     ELSE IF c.bytes # c.reference THEN "digest-mismatch"
     ELSE IF binding # "bound" THEN binding
     ELSE IF policy = "ambiguous" THEN "policy-mismatch"
     ELSE IF Prior(a, c) THEN "duplicate"
     ELSE IF c.bytes # c.subject THEN "subject-mismatch"   \* the manifest's own subject
     ELSE IF policy = "required" /\ ~c.whole THEN "incomplete"
     ELSE "satisfied"

---------------------------------------------------------------------------
(* What acceptance asks.                                                   *)

End(a) == chain[The(Of("end", a))].detail

\* Mutant: only the recorded policy says whether a witness was required.
RequiredByPolicy(a) == RecordedPolicy(a) = "required"

Required(a) == End(a).required \/ RecordedPolicy(a) = "required"

Admitted(a) == \E i \in Of("admission", a) : chain[i].detail.reason = "satisfied"

\* Nothing the shipped policy permits stands in for an admitted artifact.
WireEligible(a) == ~Required(a) \/ (RecordedPolicy(a) # "ambiguous" /\ Admitted(a))

\* The attempt acceptance would judge, and what its record lets it judge.
Acceptable(a) ==
  /\ a = Latest /\ Ended(a)
  /\ End(a).outcome = "completed"
  /\ WireEligible(a)

---------------------------------------------------------------------------
(* The witness's own state.                                                *)

NoCapture == [reference |-> 0, subject |-> 1, bytes |-> 0, named |-> 0,
              whole |-> FALSE, sound |-> FALSE]

Idle == [pc |-> "idle", a |-> 0, requested |-> FALSE, required |-> FALSE,
         bound |-> FALSE, observed |-> "not-started", qualified |-> FALSE,
         sidecar |-> "none", terminal |-> NoCapture, finished |-> FALSE,
         findings |-> FALSE, outcome |-> "none"]

Init == chain = <<>> /\ w = Idle /\ lines = <<>>

At(pc) == w.pc = pc

\* The one posture an attempt records.
Posture(requested, required, observed) ==
  IF ~requested THEN IF required THEN "required-and-missing" ELSE "not-requested"
  ELSE CASE observed \in {"not-started", "unavailable"} -> "unavailable"
         [] observed \in {"failed", "incomplete", "witnessed", "unqualified"} -> observed

\* The intent of the attempt is durable before any of this.  --require-witness
\* asks for the capture it requires.
Begin ==
  /\ At("idle") /\ Latest < MaxAttempts
  /\ Latest > 0 => Ended(Latest)
  /\ \E requested, required \in BOOLEAN :
       /\ required => requested
       /\ Appended("attempt", Latest + 1, required)   \* history: what was asked
       /\ w' = [Idle EXCEPT !.a = Latest + 1, !.requested = requested, !.required = required,
                            !.pc = IF requested THEN "located" ELSE "child"]
  /\ UNCHANGED lines

\* No producer reserves no endpoint, and the child runs unwitnessed.
Unlocated == At("located") /\ w' = [w EXCEPT !.pc = "child"] /\ UNCHANGED <<chain, lines>>

\* Mutant: a witness that failed lets the child run without it.
RefusedRuns(observed) == [w EXCEPT !.pc = "child", !.observed = observed]

\* Witnessing failed once the endpoint was reserved: the child is not spawned.
RefusedChild(observed) ==
  [w EXCEPT !.pc = "closing", !.outcome = "refused",
            !.observed = IF @ = "not-started" THEN observed ELSE @]

\* The sidecar is confined, or witnessing cannot start.
Confine ==
  /\ At("located")
  /\ \/ \E q \in BOOLEAN : w' = [w EXCEPT !.pc = "policy", !.qualified = q]
     \/ w' = RefusedChild("unavailable")
  /\ UNCHANGED <<chain, lines>>

RecordPolicy ==
  /\ At("policy")
  /\ \/ /\ Appended("policy", w.a, IF w.required THEN "required" ELSE "optional")
        /\ w' = [w EXCEPT !.pc = "intent"]
     \/ w' = RefusedChild("unavailable") /\ UNCHANGED chain
  /\ UNCHANGED lines

\* The intent is durable before the sidecar starts.
OpenEffect ==
  /\ At("intent")
  /\ \/ Appended("intent", w.a, {}) /\ w' = [w EXCEPT !.pc = "spawn", !.bound = TRUE]
     \/ w' = RefusedChild("unavailable") /\ UNCHANGED chain
  /\ UNCHANGED lines

SpawnSidecar ==
  /\ At("spawn")
  /\ \/ w' = [w EXCEPT !.pc = "starting", !.sidecar = "running"]
     \/ w' = RefusedChild("unavailable")
  /\ UNCHANGED <<chain, lines>>

---------------------------------------------------------------------------
(* The sidecar.                                                            *)

\* What a sidecar that breaks its protocol sends, and key material.
Noise == {"noise", "key"}

\* What a terminal message names and what its manifest turns out to be: its own
\* attempt's, an earlier attempt's left in the area, or nothing.
Captures ==
  [reference : 0..w.a, subject : 1..w.a, bytes : 0..w.a, named : 1..w.a,
   whole : BOOLEAN, sound : BOOLEAN]

SidecarSends ==
  /\ w.sidecar = "running" /\ Len(lines) < MaxLines
  /\ \E m \in Noise \cup {IF At("starting") THEN "ready" ELSE "terminal"} : lines' = Append(lines, m)
  /\ UNCHANGED <<chain, w>>

---------------------------------------------------------------------------
(* The bounded reader, and the ends of a sidecar.                          *)

\* Line i is out of place, or follows the one terminal message that stands.
Finding(s, i) ==
  lines[i] # "terminal" \/ s.finished \/ \E j \in 1 .. i - 1 : lines[j] = "terminal"

AllRead(s) ==
  [s EXCEPT !.findings = @ \/ \E i \in DOMAIN lines : Finding(s, i),
            !.finished = @ \/ \E i \in DOMAIN lines : lines[i] = "terminal"]

Terminals(s) == IF s.finished THEN Captures ELSE {NoCapture}

Integrity(c) == IF c.bytes = 0 THEN "missing" ELSE IF c.bytes = c.named THEN "intact" ELSE "mismatch"

\* Any finding, a missing terminal message, or an end other than a clean exit
\* after one within the grace is a failure.
Observed(s, clean) ==
  IF s.findings \/ ~s.finished \/ ~clean THEN "failed"
  ELSE IF ~s.terminal.whole THEN "incomplete"
  ELSE IF Integrity(s.terminal) = "intact" /\ s.qualified THEN "witnessed" ELSE "unqualified"

\* The child is refused or stopped, or the start failed: the sidecar is killed
\* now, and what it had sent is read for its findings.
Aborted(s) ==
  [AllRead(s) EXCEPT !.sidecar = "aborted", !.observed = "failed",
                     !.findings = FALSE, !.qualified = FALSE]

---------------------------------------------------------------------------
(* The start and the child.                                                *)

\* Lines before the ready message are findings.
Ready ==
  /\ At("starting") /\ lines # <<>> /\ Head(lines) # "key"
  /\ w' = IF Head(lines) = "ready" THEN [w EXCEPT !.pc = "child"] ELSE [w EXCEPT !.findings = TRUE]
  /\ lines' = Tail(lines) /\ UNCHANGED chain

\* A sidecar that exits, stays silent to its deadline or sends key material, an
\* endpoint or certificate that is not the admitted one, or a child boundary
\* that does not hold against the listening sidecar.
NotReady ==
  /\ At("starting")
  /\ w' = [Aborted(w) EXCEPT !.pc = "closing", !.outcome = "refused"]
  /\ lines' = <<>> /\ UNCHANGED chain

\* At each event of the child, what the sidecar sent is read, and key material
\* stops both.  Nothing is read between events.
ChildEvent ==
  /\ At("child") /\ w.sidecar = "running" /\ lines # <<>>
  /\ IF \E i \in DOMAIN lines : lines[i] = "key"
     THEN \E c \in Terminals(AllRead(w)) :
            w' = [Aborted(w) EXCEPT !.pc = "closing", !.outcome = "interrupted", !.terminal = c]
     ELSE w' = AllRead(w)
  /\ lines' = <<>> /\ UNCHANGED chain

ChildEnds ==
  /\ At("child")
  /\ \E outcome \in {"completed", "interrupted"} :
       w' = [w EXCEPT !.pc = "custody", !.outcome = outcome]
  /\ UNCHANGED <<chain, lines>>

\* The record changed while the child ran: the attempt stays live, and so does
\* the sidecar's effect.
RecordChanged ==
  /\ At("child")
  /\ w' = Idle /\ lines' = <<>> /\ UNCHANGED chain

\* Custody ends after the child: stdin closes, the terminal message is read
\* within the grace, and a sidecar that outlives it is killed.
CloseSidecar ==
  /\ At("custody")
  /\ IF w.sidecar # "running" THEN w' = [w EXCEPT !.pc = "closing"]
     ELSE \E clean \in BOOLEAN, c \in Terminals(AllRead(w)) :
            LET s == [AllRead(w) EXCEPT !.terminal = c] IN
            w' = [s EXCEPT !.pc = "closing", !.sidecar = "closed",
                           !.findings = FALSE, !.qualified = FALSE,
                           !.observed = Observed(s, clean)]
  /\ lines' = <<>> /\ UNCHANGED chain

---------------------------------------------------------------------------
(* The closing outcome, the admission and the attempt's outcome.           *)

\* The effect's one closing outcome, if its intent was written.  Only a durable
\* one has an admission follow it.
WriteOutcome ==
  /\ At("closing")
  /\ IF ~w.bound THEN w' = [w EXCEPT !.pc = "conclude"] /\ UNCHANGED chain
     ELSE \E closed \in BOOLEAN :
            /\ IF closed THEN Appended("close", w.a, IF w.finished THEN w.terminal.named ELSE 0)
               ELSE UNCHANGED chain
            /\ w' = [w EXCEPT !.pc = IF closed THEN "judge" ELSE "conclude"]
  /\ UNCHANGED lines

\* The manifest of the reference the terminal message named is read and judged.
\* An aborted sidecar's manifest is not read, and neither is one that is absent.
Judged == w.finished /\ w.terminal.reference # 0 /\ w.sidecar = "closed" /\ w.terminal.bytes # 0

Admit ==
  /\ At("judge")
  /\ w' = [w EXCEPT !.pc = "conclude"]
  /\ \/ /\ Judged
        /\ Appended("admission", w.a,
             [digest |-> w.terminal.reference, subject |-> w.terminal.subject,
              reason |-> Reason(w.a, w.terminal),
              of |-> IF Reason(w.a, w.terminal) = "satisfied" THEN w.terminal ELSE NoCapture])
     \/ UNCHANGED chain
  /\ UNCHANGED lines

\* The attempt's outcome says what witness it had and what it was asked for.
\* A record that cannot be written leaves it live.
Conclude ==
  /\ At("conclude")
  /\ \/ Appended("end", w.a,
          [outcome |-> w.outcome, required |-> w.required,
           posture |-> Posture(w.requested, w.required, w.observed)])
     \/ UNCHANGED chain
  /\ w' = Idle /\ UNCHANGED lines

\* The supervisor is killed; its sidecar's input closes with it.
Kill == ~At("idle") /\ w' = Idle /\ lines' = <<>> /\ UNCHANGED chain

\* Reconciliation ends a live attempt without a word about its witness.
Reconcile ==
  /\ At("idle") /\ Latest > 0 /\ ~Ended(Latest)
  /\ Appended("end", Latest, [outcome |-> "interrupted", required |-> FALSE,
                              posture |-> NotRecorded])
  /\ UNCHANGED <<w, lines>>

Next ==
  \/ Begin \/ Unlocated \/ Confine \/ RecordPolicy \/ OpenEffect \/ SpawnSidecar
  \/ SidecarSends \/ Ready \/ NotReady \/ ChildEvent \/ ChildEnds
  \/ RecordChanged \/ CloseSidecar \/ WriteOutcome \/ Admit \/ Conclude \/ Kill \/ Reconcile

Spec == Init /\ [][Next]_vars
---------------------------------------------------------------------------
TypeOK ==
  /\ \A i \in DOMAIN chain :
       /\ chain[i].kind \in {"attempt", "policy", "intent", "close", "admission", "end"}
       /\ chain[i].attempt \in Attempts
  /\ w.a \in 0..MaxAttempts /\ Len(lines) <= MaxLines
  /\ w.sidecar \in {"none", "running", "aborted", "closed"}
  /\ w.observed \in {"not-started", "unavailable", "failed", "incomplete", "witnessed", "unqualified"}

\* Whatever fails or is killed, the record never holds a bracket its own fold
\* must refuse: no effect has two intents or two outcomes, and no outcome is
\* without the intent before it.
BracketsClean == \A a \in Attempts : ~Defective(a)

\* An admitted artifact is its attempt's own: its manifest, its reference and
\* the closing outcome written before it name one capture, under the one intent
\* of that attempt.  Neither an earlier attempt's capture nor one the sidecar
\* did not close with is admitted.
AdmittedIsOwn ==
  \A i \in DOMAIN chain :
    chain[i].kind = "admission" /\ chain[i].detail.reason = "satisfied" =>
      LET a == chain[i].attempt
          d == chain[i].detail
      IN /\ d.digest = a /\ d.subject = a /\ d.of.bytes = a
         /\ \E j, k \in 1..i : j < k /\ j \in Of("intent", a) /\ k \in Of("close", a) /\ chain[k].detail = a

\* What the record holds of a witness can be read back and is about the attempt that asked for
\* it, whatever failed, was killed, or was left by an earlier attempt.
EvidenceIsOwn == BracketsClean /\ AdmittedIsOwn

\* The child runs beside the sidecar it was given, bracketed and under the
\* recorded policy, or without one because none could be reserved: a witness
\* that failed after that never becomes a child without a witness.
ChildAsAsked ==
  At("child") =>
    \/ w.sidecar = "none" /\ ~w.bound /\ Of("policy", w.a) = {}
    \/ w.sidecar = "running" /\ Of("intent", w.a) # {} /\ RecordedPolicy(w.a) # NotRecorded

Asked(a) == chain[The(Of("attempt", a))].detail

\* An attempt that was asked for a witness is accepted only on an admitted
\* artifact whose capture was whole, even when the sidecar never started, its
\* policy was never recorded or its supervisor was killed.
RequiredIsEvidenced ==
  \A a \in Attempts : Started(a) /\ Asked(a) /\ Acceptable(a) =>
    \E i \in Of("admission", a) : chain[i].detail.reason = "satisfied" /\ chain[i].detail.of.whole
============================================================================
