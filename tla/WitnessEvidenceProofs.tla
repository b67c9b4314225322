---------------------- MODULE WitnessEvidenceProofs ----------------------
(***************************************************************************)
(* What is proved of the witness, for any number of attempts and unread     *)
(* messages.  The record holds each kind of entry of an attempt at most     *)
(* once, and the phase the supervisor is in says which of them it holds     *)
(* already; from these follow the clean brackets, the capture an admission  *)
(* is about, and what a required witness is accepted on.                    *)
(***************************************************************************)
EXTENDS WitnessEvidence, FiniteSetTheorems, TLAPS

---------------------------------------------------------------------------
(* The inductive invariant.                                                *)

Kinds == {"attempt", "policy", "intent", "close", "admission", "end"}
Observations == {"not-started", "unavailable", "failed", "incomplete", "witnessed", "unqualified"}
Postures == Observations \cup {"required-and-missing", "not-requested", NotRecorded}
Outcomes == {"none", "refused", "interrupted", "completed"}
Reasons == {"malformed", "digest-mismatch", "subject-mismatch", "stale", "policy-mismatch",
            "duplicate", "incomplete", "satisfied"}

Numbers == 0 .. MaxAttempts

AnyCapture ==
  [reference : Numbers, subject : Numbers, bytes : Numbers, named : Numbers,
   whole : BOOLEAN, sound : BOOLEAN]

Admissions == [digest : Numbers, subject : Numbers, reason : Reasons, of : AnyCapture]
Ends == [outcome : Outcomes, required : BOOLEAN, posture : Postures]

Details == BOOLEAN \cup {"required", "optional"} \cup {{}} \cup Numbers \cup Admissions \cup Ends

Entries == [kind : Kinds, attempt : Attempts, detail : Details]

Phases == {"idle", "located", "policy", "intent", "spawn", "starting", "child", "custody",
           "closing", "judge", "conclude"}

Supervisors ==
  [pc : Phases, a : Numbers, requested : BOOLEAN, required : BOOLEAN, bound : BOOLEAN,
   observed : Observations, qualified : BOOLEAN,
   sidecar : {"none", "running", "aborted", "closed"}, terminal : AnyCapture,
   finished : BOOLEAN, findings : BOOLEAN, outcome : Outcomes]

Messages == Noise \cup {"ready", "terminal"}

Typed ==
  /\ chain \in Seq(Entries)
  /\ w \in Supervisors
  /\ lines \in Seq(Messages) /\ Len(lines) <= MaxLines

\* Attempts are numbered from one, without a gap.
Numbered ==
  /\ Latest \in Numbers
  /\ {a \in Attempts : Started(a)} = 1 .. Latest
  /\ \A i \in DOMAIN chain : chain[i].attempt \in 1 .. Latest

\* An attempt has one entry of a kind, at most.
OneOfAKind ==
  \A i, j \in DOMAIN chain :
    chain[i].kind = chain[j].kind /\ chain[i].attempt = chain[j].attempt => i = j

\* A closing outcome follows its effect's intent.
ClosedAfterIntent ==
  \A a \in Attempts : \A i \in Of("close", a) : \E j \in Of("intent", a) : j < i

\* What AdmittedIsOwn says, attempt by attempt.
Own(i, a) ==
  /\ chain[i].detail.digest = a /\ chain[i].detail.subject = a /\ chain[i].detail.of.bytes = a
  /\ \E j \in Of("intent", a), k \in Of("close", a) : j < k /\ k <= i /\ chain[k].detail = a

AdmittedOwn ==
  \A a \in Attempts : \A i \in Of("admission", a) :
    chain[i].detail.reason = "satisfied" => Own(i, a)

\* What an outcome says was required was asked for, unless the attempt never completed.
EndSaysAsked ==
  \A a \in Attempts : \A i \in Of("end", a), j \in Of("attempt", a) :
    chain[i].detail.outcome = "completed" => chain[i].detail.required = chain[j].detail

\* An attempt that was asked for a witness has a whole capture admitted, or none.
AdmittedWhole ==
  \A a \in Attempts : \A i \in Of("admission", a), j \in Of("attempt", a) :
    chain[i].detail.reason = "satisfied" /\ chain[j].detail => chain[i].detail.of.whole

\* The attempt at work is the latest, is live, and is recorded as it was asked for.
AtWork(a) ==
  /\ a = Latest /\ Of("end", a) = {}
  /\ \A i \in Of("attempt", a) : chain[i].detail = w.required
  /\ \A i \in Of("policy", a) : chain[i].detail = IF w.required THEN "required" ELSE "optional"
  /\ w.bound <=> Of("intent", a) # {}
  /\ w.bound => Of("policy", a) # {}
  /\ w.sidecar = "closed" /\ w.finished => w.terminal.named \in 1 .. a

\* The sidecar's bracket, at each phase of the attempt.
Unbracketed(a) == w.sidecar = "none" /\ ~w.bound /\ Of("policy", a) = {}
Bracketed == w.sidecar = "running" /\ w.bound

Closed(a) ==
  /\ w.bound /\ Of("close", a) # {}
  /\ \A i \in Of("close", a) : chain[i].detail = IF w.finished THEN w.terminal.named ELSE 0

Phase(a) ==
  /\ w.pc \in {"located", "policy"} => Unbracketed(a)
  /\ w.pc = "intent" => w.sidecar = "none" /\ ~w.bound /\ Of("policy", a) # {}
  /\ w.pc = "spawn" => w.sidecar = "none" /\ w.bound
  /\ w.pc = "starting" => Bracketed
  /\ w.pc \in {"child", "custody"} => Unbracketed(a) \/ Bracketed
  /\ w.pc \notin {"judge", "conclude"} => Of("close", a) = {}
  /\ w.pc # "conclude" => Of("admission", a) = {}
  /\ w.pc = "judge" => Closed(a)

Working ==
  w.pc # "idle" =>
    /\ w.a \in Attempts
    /\ \A a \in Attempts : a = w.a => AtWork(a) /\ Phase(a)

RecordInv ==
  /\ Numbered /\ OneOfAKind /\ ClosedAfterIntent
  /\ AdmittedOwn /\ EndSaysAsked /\ AdmittedWhole

IInv == Typed /\ RecordInv /\ Working

---------------------------------------------------------------------------
(* The record and an append to it.                                         *)

LEMMA OfIs ==
  ASSUME Typed, NEW k, NEW a, NEW i
  PROVE  i \in Of(k, a) <=> i \in 1 .. Len(chain) /\ chain[i].kind = k /\ chain[i].attempt = a
BY DEF Of, Typed

LEMMA ChainSame ==
  ASSUME UNCHANGED chain
  PROVE  /\ \A k, a : Of(k, a)' = Of(k, a)
         /\ Latest' = Latest
         /\ RecordInv => RecordInv'
<1>1. \A k, a : Of(k, a)' = Of(k, a)
  BY DEF Of
<1>2. Latest' = Latest
  BY <1>1 DEF Latest, Started
<1>3. Numbered => Numbered'
  BY <1>1, <1>2 DEF Numbered, Started
<1>4. OneOfAKind => OneOfAKind'
  BY DEF OneOfAKind
<1>5. ClosedAfterIntent => ClosedAfterIntent'
  BY <1>1 DEF ClosedAfterIntent
<1>6. AdmittedOwn => AdmittedOwn'
  BY <1>1 DEF AdmittedOwn, Own
<1>7. EndSaysAsked => EndSaysAsked'
  BY <1>1 DEF EndSaysAsked
<1>8. AdmittedWhole => AdmittedWhole'
  BY <1>1 DEF AdmittedWhole
<1> QED
  BY <1>1, <1>2, <1>3, <1>4, <1>5, <1>6, <1>7, <1>8 DEF RecordInv

\* The record grown by one entry.
Grown(kind, a, detail) ==
  /\ chain' \in Seq(Entries)
  /\ Len(chain') = Len(chain) + 1
  /\ \A i \in 1 .. Len(chain) : chain'[i] = chain[i]
  /\ chain'[Len(chain) + 1] = Entry(kind, a, detail)

LEMMA Grows ==
  ASSUME Typed, NEW kind \in Kinds, NEW a \in Attempts, NEW detail \in Details,
         Appended(kind, a, detail)
  PROVE  Grown(kind, a, detail)
<1>1. Entry(kind, a, detail) \in Entries
  BY DEF Entry, Entries
<1> QED
  BY <1>1 DEF Grown, Appended, Typed

LEMMA OfAfter ==
  ASSUME Typed, NEW kind, NEW a, NEW detail, Grown(kind, a, detail)
  PROVE  /\ \A k, b : k # kind \/ b # a => Of(k, b)' = Of(k, b)
         /\ Of(kind, a)' = Of(kind, a) \cup {Len(chain) + 1}
         /\ \A k, b : Of(k, b) \subseteq 1 .. Len(chain)
<1>1. Len(chain) \in Nat /\ DOMAIN chain = 1 .. Len(chain)
  BY DEF Typed
<1>2. DOMAIN chain' = 1 .. Len(chain) + 1
  BY <1>1 DEF Grown
<1>3. \A i \in 1 .. Len(chain) : chain'[i] = chain[i]
  BY DEF Grown
<1>4. chain'[Len(chain) + 1].kind = kind /\ chain'[Len(chain) + 1].attempt = a
  BY DEF Grown, Entry
<1>5. ASSUME NEW k, NEW b, k # kind \/ b # a
      PROVE  Of(k, b)' = Of(k, b)
  BY <1>1, <1>2, <1>3, <1>4, <1>5 DEF Of
<1>6. Of(kind, a)' = Of(kind, a) \cup {Len(chain) + 1}
  BY <1>1, <1>2, <1>3, <1>4 DEF Of
<1>7. \A k, b : Of(k, b) \subseteq 1 .. Len(chain)
  BY <1>1 DEF Of
<1> QED
  BY <1>5, <1>6, <1>7

LEMMA LatestAfter ==
  ASSUME Typed, NEW kind, NEW a \in Attempts, NEW detail, Grown(kind, a, detail), Numbered
  PROVE  /\ kind # "attempt" => Latest' = Latest /\ \A b \in Attempts : Started(b)' <=> Started(b)
         /\ kind = "attempt" /\ a = Latest + 1 =>
              /\ Latest' = Latest + 1
              /\ {b \in Attempts : Started(b)'} = 1 .. Latest + 1
<1>1. CASE kind # "attempt"
  <2>1. \A b \in Attempts : Started(b)' <=> Started(b)
    BY <1>1, OfAfter DEF Started
  <2> QED
    BY <1>1, <2>1 DEF Latest
<1>2. CASE kind = "attempt" /\ a = Latest + 1
  <2>1. \A b \in Attempts : Started(b)' <=> Started(b) \/ b = a
    BY <1>2, OfAfter DEF Started
  <2>2. PICK n \in Nat : n = Latest
    BY DEF Numbered, Numbers
  <2>3. {b \in Attempts : Started(b)'} = 1 .. n + 1
    <3>1. \A b \in Attempts : Started(b) <=> b \in 1 .. n
      BY <2>2 DEF Numbered
    <3>2. a = n + 1
      BY <1>2, <2>2
    <3>3. 1 .. n + 1 \subseteq Attempts
      BY <3>2, BoundsAssumption DEF Attempts
    <3> QED
      BY <2>1, <3>1, <3>2, <3>3, BoundsAssumption DEF Attempts
  <2>4. Latest' = n + 1
    <3>1. Latest' = Cardinality(1 .. n + 1)
      BY <2>3 DEF Latest
    <3> QED
      BY <3>1, FS_Interval
  <2> QED
    BY <2>2, <2>3, <2>4, <1>2
<1> QED
  BY <1>1, <1>2

\* What the record must say for an entry to be appended.
Rightful(kind, a, detail) ==
  /\ Of(kind, a) = {}
  /\ IF kind = "attempt" THEN a = Latest + 1 ELSE a \in 1 .. Latest
  /\ kind = "close" => Of("intent", a) # {}
  /\ kind = "end" /\ detail.outcome = "completed" =>
       \A j \in Of("attempt", a) : chain[j].detail = detail.required
  /\ kind = "admission" /\ detail.reason = "satisfied" =>
       /\ detail.digest = a /\ detail.subject = a /\ detail.of.bytes = a
       /\ \E j \in Of("intent", a), k \in Of("close", a) : j < k /\ chain[k].detail = a
       /\ \A j \in Of("attempt", a) : chain[j].detail => detail.of.whole

LEMMA RightfulStep ==
  ASSUME Typed, RecordInv, NEW kind, NEW a \in Attempts, NEW detail,
         Grown(kind, a, detail), Rightful(kind, a, detail)
  PROVE  RecordInv'
<1> DEFINE n == Len(chain) + 1
<1>1. /\ n \in Nat /\ DOMAIN chain = 1 .. Len(chain) /\ DOMAIN chain' = 1 .. n
      /\ Len(chain) \in Nat
  BY DEF Typed, Grown
<1>2. /\ \A i \in 1 .. Len(chain) : chain'[i] = chain[i]
      /\ chain'[n].kind = kind /\ chain'[n].attempt = a /\ chain'[n].detail = detail
  BY DEF Grown, Entry
<1>3. /\ \A k, b : k # kind \/ b # a => Of(k, b)' = Of(k, b)
      /\ Of(kind, a)' = {n}
      /\ \A k, b : Of(k, b) \subseteq 1 .. Len(chain)
  BY OfAfter DEF Rightful
<1>r. Numbered /\ OneOfAKind /\ ClosedAfterIntent /\ AdmittedOwn /\ EndSaysAsked /\ AdmittedWhole
  BY DEF RecordInv
<1>n. PICK m \in Nat : m = Latest
  BY <1>r DEF Numbered, Numbers
<1>4. Numbered'
  <2>1. CASE kind # "attempt"
    <3>1. Latest' = m /\ \A b \in Attempts : Started(b)' <=> Started(b)
      BY <1>n, <1>r, <2>1, LatestAfter
    <3>2. {b \in Attempts : Started(b)'} = 1 .. m
      BY <1>n, <1>r, <3>1 DEF Numbered
    <3>3. \A i \in 1 .. n : chain'[i].attempt \in 1 .. m
      BY <1>1, <1>2, <1>n, <1>r, <2>1 DEF Numbered, Rightful
    <3> QED
      BY <1>1, <1>n, <1>r, <3>1, <3>2, <3>3 DEF Numbered
  <2>2. CASE kind = "attempt"
    <3>1. Latest' = m + 1 /\ {b \in Attempts : Started(b)'} = 1 .. m + 1
      BY <1>n, <1>r, <2>2, LatestAfter DEF Rightful
    <3>2. \A i \in 1 .. n : chain'[i].attempt \in 1 .. m + 1
      BY <1>1, <1>2, <1>n, <1>r, <2>2 DEF Numbered, Rightful
    <3>3. m + 1 \in Numbers
      BY <1>n, <2>2, BoundsAssumption DEF Rightful, Attempts, Numbers
    <3> QED
      BY <1>1, <3>1, <3>2, <3>3 DEF Numbered
  <2> QED
    BY <2>1, <2>2
<1>5. OneOfAKind'
  <2>1. \A i \in 1 .. Len(chain) : ~ (chain[i].kind = kind /\ chain[i].attempt = a)
    BY <1>1 DEF Rightful, Of
  <2> QED
    BY <1>1, <1>2, <1>r, <2>1 DEF OneOfAKind
<1>6. ClosedAfterIntent'
  <2> SUFFICES ASSUME NEW b \in Attempts, NEW i \in Of("close", b)'
               PROVE  \E j \in Of("intent", b)' : j < i
    BY DEF ClosedAfterIntent
  <2>1. Of("intent", b) \subseteq Of("intent", b)'
    BY <1>3 DEF Rightful
  <2>2. CASE kind = "close" /\ b = a
    BY <1>1, <1>3, <2>1, <2>2 DEF Rightful
  <2>3. CASE ~ (kind = "close" /\ b = a)
    BY <1>3, <1>r, <2>1, <2>3 DEF ClosedAfterIntent
  <2> QED
    BY <2>2, <2>3
<1>7. AdmittedOwn'
  <2> SUFFICES ASSUME NEW b \in Attempts, NEW i \in Of("admission", b)',
                      chain'[i].detail.reason = "satisfied"
               PROVE  Own(i, b)'
    BY DEF AdmittedOwn
  <2>1. \A k : Of(k, b) \subseteq Of(k, b)'
    BY <1>3 DEF Rightful
  <2>2. CASE kind = "admission" /\ b = a
    <3>1. i = n
      BY <1>3, <2>2
    <3>2. PICK j \in Of("intent", b), k \in Of("close", b) : j < k /\ chain[k].detail = b
      BY <1>2, <2>2, <3>1 DEF Rightful
    <3>3. k <= i /\ chain'[k].detail = b
      BY <1>1, <1>2, <1>3, <3>1, <3>2
    <3>4. /\ chain'[i].detail.digest = b /\ chain'[i].detail.subject = b
          /\ chain'[i].detail.of.bytes = b
      BY <1>2, <2>2, <3>1 DEF Rightful
    <3> QED
      BY <2>1, <3>2, <3>3, <3>4 DEF Own
  <2>3. CASE ~ (kind = "admission" /\ b = a)
    <3>1. i \in Of("admission", b) /\ chain'[i] = chain[i]
      BY <1>2, <1>3, <2>3
    <3>2. Own(i, b)
      BY <1>r, <3>1 DEF AdmittedOwn
    <3>3. \A k \in Of("close", b) : chain'[k] = chain[k]
      BY <1>2, <1>3
    <3> QED
      BY <2>1, <3>1, <3>2, <3>3 DEF Own
  <2> QED
    BY <2>2, <2>3
<1>8. EndSaysAsked'
  <2> SUFFICES ASSUME NEW b \in Attempts, NEW i \in Of("end", b)', NEW j \in Of("attempt", b)',
                      chain'[i].detail.outcome = "completed"
               PROVE  chain'[i].detail.required = chain'[j].detail
    BY DEF EndSaysAsked
  <2>1. CASE kind = "end" /\ b = a
    BY <1>2, <1>3, <2>1 DEF Rightful
  <2>2. CASE kind = "attempt" /\ b = a
    <3>1. i \in 1 .. Len(chain) /\ chain[i].attempt = a
      BY <1>3, <2>2, OfIs
    <3> QED
      BY <1>1, <1>n, <1>r, <2>2, <3>1 DEF Numbered, Rightful
  <2>3. CASE b # a \/ kind \notin {"end", "attempt"}
    BY <1>2, <1>3, <1>r, <2>3 DEF EndSaysAsked
  <2> QED
    BY <2>1, <2>2, <2>3
<1>9. AdmittedWhole'
  <2> SUFFICES ASSUME NEW b \in Attempts, NEW i \in Of("admission", b)', NEW j \in Of("attempt", b)',
                      chain'[i].detail.reason = "satisfied", chain'[j].detail
               PROVE  chain'[i].detail.of.whole
    BY DEF AdmittedWhole
  <2>1. CASE kind = "admission" /\ b = a
    BY <1>2, <1>3, <2>1 DEF Rightful
  <2>2. CASE kind = "attempt" /\ b = a
    <3>1. i \in 1 .. Len(chain) /\ chain[i].attempt = a
      BY <1>3, <2>2, OfIs
    <3> QED
      BY <1>1, <1>n, <1>r, <2>2, <3>1 DEF Numbered, Rightful
  <2>3. CASE b # a \/ kind \notin {"admission", "attempt"}
    BY <1>2, <1>3, <1>r, <2>3 DEF AdmittedWhole
  <2> QED
    BY <2>1, <2>2, <2>3
<1> QED
  BY <1>4, <1>5, <1>6, <1>7, <1>8, <1>9 DEF RecordInv

---------------------------------------------------------------------------
(* The steps.                                                              *)

LEMMA IdleTyped == Idle \in Supervisors /\ NoCapture \in AnyCapture
<1>1. NoCapture \in AnyCapture
  BY BoundsAssumption DEF NoCapture, AnyCapture, Numbers
<1> QED
  BY <1>1, BoundsAssumption
     DEF Idle, Supervisors, Phases, Observations, Outcomes, Numbers

LEMMA InvInit == Init => IInv
<1> SUFFICES ASSUME Init PROVE IInv
  OBVIOUS
<1>1. chain = <<>> /\ lines = <<>> /\ w = Idle
  BY DEF Init
<1>2. \A k, a : Of(k, a) = {}
  BY <1>1 DEF Of
<1>3. Typed
  BY <1>1, IdleTyped, BoundsAssumption DEF Typed
<1>4. {a \in Attempts : Started(a)} = {} /\ Latest = 0
  <2>1. {a \in Attempts : Started(a)} = {}
    BY <1>2 DEF Started
  <2> QED
    BY <2>1, FS_EmptySet DEF Latest
<1>5. Numbered
  BY <1>1, <1>4, BoundsAssumption DEF Numbered, Numbers
<1>6. OneOfAKind /\ ClosedAfterIntent /\ AdmittedOwn /\ EndSaysAsked /\ AdmittedWhole
  BY <1>1, <1>2 DEF OneOfAKind, ClosedAfterIntent, AdmittedOwn, EndSaysAsked, AdmittedWhole
<1>7. Working
  BY <1>1 DEF Working, Idle
<1> QED
  BY <1>3, <1>5, <1>6, <1>7 DEF IInv, RecordInv

\* The supervisor moves, and neither the attempt nor the record does.
LEMMA Moves ==
  ASSUME IInv, UNCHANGED chain, w' \in Supervisors, w'.a = w.a, w.pc # "idle",
         lines' \in Seq(Messages), Len(lines') <= MaxLines,
         \A a \in Attempts : a = w.a /\ AtWork(a) /\ Phase(a) => AtWork(a)' /\ Phase(a)'
  PROVE  IInv'
<1>1. RecordInv'
  BY ChainSame DEF IInv
<1>2. Typed'
  BY DEF IInv, Typed
<1>3. Working'
  BY DEF IInv, Working
<1> QED
  BY <1>1, <1>2, <1>3 DEF IInv

\* The attempt is left, with nothing written.
LEMMA Leaves ==
  ASSUME IInv, UNCHANGED chain, w' = Idle, lines' \in Seq(Messages), Len(lines') <= MaxLines
  PROVE  IInv'
<1>1. RecordInv'
  BY ChainSame DEF IInv
<1>2. Typed'
  BY IdleTyped DEF IInv, Typed
<1>3. Working'
  BY DEF Idle, Working
<1> QED
  BY <1>1, <1>2, <1>3 DEF IInv

\* The supervisor writes an entry of the attempt at work.
LEMMA Writes ==
  ASSUME IInv, NEW kind \in Kinds, NEW a \in Attempts, NEW detail \in Details,
         Appended(kind, a, detail), Rightful(kind, a, detail),
         w' \in Supervisors, lines' \in Seq(Messages), Len(lines') <= MaxLines,
         w'.pc # "idle" =>
           /\ w'.a = a
           /\ Grown(kind, a, detail) => AtWork(a)' /\ Phase(a)'
  PROVE  IInv'
<1>1. Grown(kind, a, detail)
  BY Grows DEF IInv
<1>2. RecordInv'
  BY <1>1, RightfulStep DEF IInv
<1>3. Typed'
  BY <1>1 DEF Typed, Grown
<1>4. Working'
  BY <1>1 DEF Working
<1> QED
  BY <1>2, <1>3, <1>4 DEF IInv

\* What is known of the attempt at work.
LEMMA Knows ==
  ASSUME IInv, w.pc # "idle", NEW a, a = w.a
  PROVE  a \in Attempts /\ AtWork(a) /\ Phase(a) /\ a \in 1 .. Latest /\ a = Latest
<1>1. a \in Attempts /\ AtWork(a) /\ Phase(a)
  BY DEF IInv, Working
<1>2. a \in 1 .. a
  BY <1>1, BoundsAssumption DEF Attempts
<1> QED
  BY <1>1, <1>2 DEF AtWork

LEMMA LinesTyped ==
  ASSUME Typed
  PROVE  /\ lines \in Seq(Messages) /\ Len(lines) <= MaxLines
         /\ <<>> \in Seq(Messages) /\ Len(<<>>) <= MaxLines
         /\ w \in Supervisors
BY BoundsAssumption DEF Typed

LEMMA DoBegin == ASSUME IInv, Begin PROVE IInv'
<1>1. PICK requested \in BOOLEAN, required \in BOOLEAN :
        /\ required => requested
        /\ Appended("attempt", Latest + 1, required)
        /\ w' = [Idle EXCEPT !.a = Latest + 1, !.requested = requested, !.required = required,
                             !.pc = IF requested THEN "located" ELSE "child"]
  BY DEF Begin
<1>2. PICK a : a = Latest + 1
  OBVIOUS
<1>3. /\ Typed /\ Latest \in Numbers /\ Latest < MaxAttempts /\ UNCHANGED lines
      /\ \A i \in DOMAIN chain : chain[i].attempt \in 1 .. Latest
  BY DEF IInv, RecordInv, Numbered, Begin
<1>4. a \in Attempts
  BY <1>2, <1>3, BoundsAssumption DEF Attempts, Numbers
<1>5. \A k : Of(k, a) = {}
  <2>1. a \notin 1 .. Latest
    BY <1>2, <1>3 DEF Numbers
  <2> QED
    BY <1>3, <2>1 DEF Of
<1>6. Rightful("attempt", a, required)
  BY <1>2, <1>5 DEF Rightful
<1>7. /\ w' = [Idle EXCEPT !.a = a, !.requested = requested, !.required = required,
                           !.pc = IF requested THEN "located" ELSE "child"]
      /\ w' \in Supervisors
  <2>1. w' = [Idle EXCEPT !.a = a, !.requested = requested, !.required = required,
                           !.pc = IF requested THEN "located" ELSE "child"]
    BY <1>1, <1>2
  <2>2. a \in Numbers
    BY <1>4, BoundsAssumption DEF Attempts, Numbers
  <2> QED
    BY <2>1, <2>2, IdleTyped DEF Supervisors, Phases
<1>8. ASSUME Grown("attempt", a, required) PROVE AtWork(a)' /\ Phase(a)'
  <2>1. /\ \A k : k # "attempt" => Of(k, a)' = {}
        /\ Of("attempt", a)' = {Len(chain) + 1}
    BY <1>3, <1>5, <1>8, OfAfter
  <2>2. Latest' = a
    BY <1>2, <1>3, <1>4, <1>8, LatestAfter DEF IInv, RecordInv
  <2>3. chain'[Len(chain) + 1].detail = required
    BY <1>8 DEF Grown, Entry
  <2>4. AtWork(a)'
    BY <1>7, <2>1, <2>2, <2>3 DEF AtWork, Idle
  <2>5. Phase(a)'
    BY <1>7, <2>1 DEF Phase, Unbracketed, Idle
  <2> QED
    BY <2>4, <2>5
<1>9. w'.a = a
  BY <1>7 DEF Idle
<1>10. Appended("attempt", a, required)
  BY <1>1, <1>2
<1> QED
  BY <1>3, <1>4, <1>6, <1>7, <1>8, <1>9, <1>10, LinesTyped, Writes DEF Kinds, Details

\* A step that only moves the supervisor keeps what is known of its attempt.
LEMMA DoUnlocated == ASSUME IInv, Unlocated PROVE IInv'
<1>1. /\ w.pc = "located" /\ w' = [w EXCEPT !.pc = "child"] /\ UNCHANGED <<chain, lines>>
      /\ Typed
  BY DEF Unlocated, At, IInv
<1>2. w' \in Supervisors /\ w'.a = w.a
  BY <1>1 DEF Typed, Supervisors, Phases
<1>3. ASSUME NEW a \in Attempts, a = w.a, AtWork(a), Phase(a)
      PROVE  AtWork(a)' /\ Phase(a)'
  <2>1. AtWork(a)'
    BY <1>1, <1>3, ChainSame DEF AtWork, Typed, Supervisors
  <2>2. Phase(a)'
    BY <1>1, <1>3, ChainSame DEF Phase, Unbracketed, Typed, Supervisors
  <2> QED
    BY <2>1, <2>2
<1> QED
  BY <1>1, <1>2, <1>3, LinesTyped, Moves

LEMMA Refuses ==
  ASSUME IInv, w.pc \in {"located", "policy", "intent", "spawn"},
         w' = RefusedChild("unavailable"), UNCHANGED <<chain, lines>>
  PROVE  IInv'
<1>1. Typed
  BY DEF IInv
<1>2. PICK o \in Observations :
        w' = [w EXCEPT !.pc = "closing", !.outcome = "refused", !.observed = o]
  BY <1>1 DEF RefusedChild, Typed, Supervisors, Observations
<1>3. w' \in Supervisors /\ w'.a = w.a
  BY <1>1, <1>2 DEF Typed, Supervisors, Phases, Outcomes
<1>4. ASSUME NEW a \in Attempts, a = w.a, AtWork(a), Phase(a)
      PROVE  AtWork(a)' /\ Phase(a)'
  <2>1. /\ w'.required = w.required /\ w'.bound = w.bound /\ w'.sidecar = w.sidecar
        /\ w'.finished = w.finished /\ w'.terminal = w.terminal /\ w'.pc = "closing"
    BY <1>1, <1>2 DEF Typed, Supervisors
  <2>2. /\ \A k : Of(k, a)' = Of(k, a)
        /\ Latest' = Latest /\ chain' = chain
    BY ChainSame
  <2>3. AtWork(a)'
    BY <1>4, <2>1, <2>2 DEF AtWork
  <2>4. Phase(a)'
    BY <1>4, <2>1, <2>2 DEF Phase
  <2> QED
    BY <2>3, <2>4
<1> QED
  BY <1>1, <1>3, <1>4, LinesTyped, Moves

LEMMA DoConfine == ASSUME IInv, Confine PROVE IInv'
<1>1. w.pc = "located" /\ UNCHANGED <<chain, lines>> /\ Typed
  BY DEF Confine, At, IInv
<1>2. ASSUME NEW q \in BOOLEAN, w' = [w EXCEPT !.pc = "policy", !.qualified = q]
      PROVE  IInv'
  <2>1. w' \in Supervisors /\ w'.a = w.a
    BY <1>1, <1>2 DEF Typed, Supervisors, Phases
  <2>2. ASSUME NEW a \in Attempts, a = w.a, AtWork(a), Phase(a)
        PROVE  AtWork(a)' /\ Phase(a)'
    <3>1. AtWork(a)'
      BY <1>1, <1>2, <2>2, ChainSame DEF AtWork, Typed, Supervisors
    <3>2. Phase(a)'
      BY <1>1, <1>2, <2>2, ChainSame DEF Phase, Unbracketed, Typed, Supervisors
    <3> QED
      BY <3>1, <3>2
  <2> QED
    BY <1>1, <2>1, <2>2, LinesTyped, Moves
<1>3. CASE w' = RefusedChild("unavailable")
  BY <1>1, <1>3, Refuses
<1> QED
  BY <1>2, <1>3 DEF Confine

LEMMA DoRecordPolicy == ASSUME IInv, RecordPolicy PROVE IInv'
<1>1. w.pc = "policy" /\ UNCHANGED lines /\ Typed
  BY DEF RecordPolicy, At, IInv
<1>2. ASSUME Appended("policy", w.a, IF w.required THEN "required" ELSE "optional"),
             w' = [w EXCEPT !.pc = "intent"]
      PROVE  IInv'
  <2>1. PICK a : a = w.a
    OBVIOUS
  <2>2. PICK d : d = IF w.required THEN "required" ELSE "optional"
    OBVIOUS
  <2>3. a \in Attempts /\ AtWork(a) /\ Phase(a) /\ a \in 1 .. Latest
    BY <1>1, <2>1, Knows
  <2>4. d \in Details
    BY <2>2 DEF Details
  <2>5. Rightful("policy", a, d)
    BY <1>1, <2>3 DEF Rightful, Phase, Unbracketed
  <2>6. w' \in Supervisors /\ w'.a = a
    BY <1>1, <1>2, <2>1 DEF Typed, Supervisors, Phases
  <2>7. ASSUME Grown("policy", a, d) PROVE AtWork(a)' /\ Phase(a)'
    <3>1. /\ \A k : k # "policy" => Of(k, a)' = Of(k, a)
          /\ Of("policy", a)' = {Len(chain) + 1}
      BY <1>1, <2>5, <2>7, OfAfter DEF Rightful
    <3>2. Latest' = Latest
      BY <1>1, <2>3, <2>7, LatestAfter DEF IInv, RecordInv
    <3>3. chain'[Len(chain) + 1].detail = d /\ \A i \in Of("attempt", a) : chain'[i] = chain[i]
      BY <1>1, <2>7, OfAfter DEF Grown, Entry
    <3>4. w'.required = w.required /\ w'.bound = w.bound /\ w'.sidecar = w.sidecar /\ w'.pc = "intent"
      BY <1>1, <1>2 DEF Typed, Supervisors
    <3>5. AtWork(a)'
      BY <1>1, <2>2, <2>3, <3>1, <3>2, <3>3, <3>4 DEF AtWork, Phase, Unbracketed
    <3>6. Phase(a)'
      BY <1>1, <2>3, <3>1, <3>4 DEF Phase, Unbracketed
    <3> QED
      BY <3>5, <3>6
  <2>8. Appended("policy", a, d)
    BY <1>2, <2>1, <2>2
  <2> QED
    BY <1>1, <2>3, <2>4, <2>5, <2>6, <2>7, <2>8, LinesTyped, Writes DEF Kinds
<1>3. CASE w' = RefusedChild("unavailable") /\ UNCHANGED chain
  BY <1>1, <1>3, Refuses
<1> QED
  BY <1>2, <1>3 DEF RecordPolicy

LEMMA DoOpenEffect == ASSUME IInv, OpenEffect PROVE IInv'
<1>1. w.pc = "intent" /\ UNCHANGED lines /\ Typed
  BY DEF OpenEffect, At, IInv
<1>2. ASSUME Appended("intent", w.a, {}), w' = [w EXCEPT !.pc = "spawn", !.bound = TRUE]
      PROVE  IInv'
  <2>1. PICK a : a = w.a
    OBVIOUS
  <2>3. a \in Attempts /\ AtWork(a) /\ Phase(a) /\ a \in 1 .. Latest
    BY <1>1, <2>1, Knows
  <2>4. {} \in Details
    BY DEF Details
  <2>5. Rightful("intent", a, {})
    BY <1>1, <2>3 DEF Rightful, Phase, AtWork
  <2>6. w' \in Supervisors /\ w'.a = a
    BY <1>1, <1>2, <2>1 DEF Typed, Supervisors, Phases
  <2>7. ASSUME Grown("intent", a, {}) PROVE AtWork(a)' /\ Phase(a)'
    <3>1. /\ \A k : k # "intent" => Of(k, a)' = Of(k, a)
          /\ Of("intent", a)' = {Len(chain) + 1}
      BY <1>1, <2>5, <2>7, OfAfter DEF Rightful
    <3>2. Latest' = Latest
      BY <1>1, <2>3, <2>7, LatestAfter DEF IInv, RecordInv
    <3>3. \A k : \A i \in Of(k, a) : chain'[i] = chain[i]
      BY <1>1, <2>7, OfAfter DEF Grown
    <3>4. w'.required = w.required /\ w'.bound = TRUE /\ w'.sidecar = w.sidecar /\ w'.pc = "spawn"
      BY <1>1, <1>2 DEF Typed, Supervisors
    <3>5. AtWork(a)'
      BY <1>1, <2>3, <3>1, <3>2, <3>3, <3>4 DEF AtWork, Phase
    <3>6. Phase(a)'
      BY <1>1, <2>3, <3>1, <3>4 DEF Phase
    <3> QED
      BY <3>5, <3>6
  <2>8. Appended("intent", a, {})
    BY <1>2, <2>1
  <2> QED
    BY <1>1, <2>3, <2>4, <2>5, <2>6, <2>7, <2>8, LinesTyped, Writes DEF Kinds
<1>3. CASE w' = RefusedChild("unavailable") /\ UNCHANGED chain
  BY <1>1, <1>3, Refuses
<1> QED
  BY <1>2, <1>3 DEF OpenEffect

LEMMA DoSpawnSidecar == ASSUME IInv, SpawnSidecar PROVE IInv'
<1>1. w.pc = "spawn" /\ UNCHANGED <<chain, lines>> /\ Typed
  BY DEF SpawnSidecar, At, IInv
<1>2. CASE w' = [w EXCEPT !.pc = "starting", !.sidecar = "running"]
  <2>1. w' \in Supervisors /\ w'.a = w.a
    BY <1>1, <1>2 DEF Typed, Supervisors, Phases
  <2>2. ASSUME NEW a \in Attempts, a = w.a, AtWork(a), Phase(a)
        PROVE  AtWork(a)' /\ Phase(a)'
    <3>1. AtWork(a)'
      BY <1>1, <1>2, <2>2, ChainSame DEF AtWork, Typed, Supervisors
    <3>2. Phase(a)'
      BY <1>1, <1>2, <2>2, ChainSame DEF Phase, Bracketed, Typed, Supervisors
    <3> QED
      BY <3>1, <3>2
  <2> QED
    BY <1>1, <2>1, <2>2, LinesTyped, Moves
<1>3. CASE w' = RefusedChild("unavailable")
  BY <1>1, <1>3, Refuses
<1> QED
  BY <1>2, <1>3 DEF SpawnSidecar

\* What the sidecar sends changes nothing the record or the supervisor knows.
LEMMA Stays ==
  ASSUME IInv, UNCHANGED <<chain, w>>, lines' \in Seq(Messages), Len(lines') <= MaxLines
  PROVE  IInv'
<1>1. RecordInv'
  BY ChainSame DEF IInv
<1>2. Typed'
  BY DEF IInv, Typed
<1>3. Working'
  <2> SUFFICES ASSUME w'.pc # "idle"
               PROVE  w'.a \in Attempts /\ \A a \in Attempts : a = w'.a => AtWork(a)' /\ Phase(a)'
    BY DEF Working
  <2>1. ASSUME NEW a \in Attempts, a = w'.a PROVE AtWork(a)' /\ Phase(a)'
    <3>1. AtWork(a) /\ Phase(a)
      BY <2>1 DEF IInv, Working
    <3>2. AtWork(a)'
      BY <3>1, ChainSame DEF AtWork
    <3>3. Phase(a)'
      BY <3>1, ChainSame DEF Phase, Unbracketed, Bracketed, Closed
    <3> QED
      BY <3>2, <3>3
  <2> QED
    BY <2>1 DEF IInv, Working
<1> QED
  BY <1>1, <1>2, <1>3 DEF IInv

LEMMA DoSidecarSends == ASSUME IInv, SidecarSends PROVE IInv'
<1>1. Typed /\ UNCHANGED <<chain, w>> /\ Len(lines) < MaxLines
  BY DEF SidecarSends, IInv
<1>2. PICK m \in Messages : lines' = Append(lines, m)
  BY DEF SidecarSends, Messages
<1>3. lines' \in Seq(Messages) /\ Len(lines') <= MaxLines
  BY <1>1, <1>2, BoundsAssumption DEF Typed
<1> QED
  BY <1>1, <1>3, Stays

\* Reading sets two flags and no more.
LEMMA AllReadIs ==
  ASSUME Typed
  PROVE  \E f, g \in BOOLEAN : AllRead(w) = [w EXCEPT !.findings = f, !.finished = g]
<1> DEFINE f == w.findings \/ \E i \in DOMAIN lines : Finding(w, i)
           g == w.finished \/ \E i \in DOMAIN lines : lines[i] = "terminal"
<1>1. f \in BOOLEAN /\ g \in BOOLEAN
  OBVIOUS
<1>2. AllRead(w) = [w EXCEPT !.findings = f, !.finished = g]
  BY DEF AllRead, Typed, Supervisors
<1> QED
  BY <1>1, <1>2

LEMMA DoReady == ASSUME IInv, Ready PROVE IInv'
<1>1. w.pc = "starting" /\ lines # <<>> /\ lines' = Tail(lines) /\ UNCHANGED chain /\ Typed
  BY DEF Ready, At, IInv
<1>2. lines' \in Seq(Messages) /\ Len(lines') <= MaxLines
  BY <1>1, BoundsAssumption DEF Typed
<1>3. PICK p \in {"starting", "child"}, f \in BOOLEAN : w' = [w EXCEPT !.pc = p, !.findings = f]
  <2>1. CASE w' = [w EXCEPT !.pc = "child"]
    <3>1. w' = [w EXCEPT !.pc = "child", !.findings = w.findings] /\ w.findings \in BOOLEAN
      BY <1>1, <2>1 DEF Typed, Supervisors
    <3> QED
      BY <3>1
  <2>2. CASE w' = [w EXCEPT !.findings = TRUE]
    <3>1. w' = [w EXCEPT !.pc = "starting", !.findings = TRUE]
      BY <1>1, <2>2 DEF Typed, Supervisors
    <3> QED
      BY <3>1
  <2> QED
    BY <2>1, <2>2 DEF Ready
<1>4. w' \in Supervisors /\ w'.a = w.a
  BY <1>1, <1>3 DEF Typed, Supervisors, Phases
<1>5. ASSUME NEW a \in Attempts, a = w.a, AtWork(a), Phase(a)
      PROVE  AtWork(a)' /\ Phase(a)'
  <2>1. /\ w'.required = w.required /\ w'.bound = w.bound /\ w'.sidecar = w.sidecar
        /\ w'.finished = w.finished /\ w'.terminal = w.terminal /\ w'.pc \in {"starting", "child"}
    BY <1>1, <1>3 DEF Typed, Supervisors
  <2>2. (\A k : Of(k, a)' = Of(k, a)) /\ Latest' = Latest /\ chain' = chain
    BY <1>1, ChainSame
  <2>3. AtWork(a)'
    BY <1>5, <2>1, <2>2 DEF AtWork
  <2>4. Phase(a)'
    BY <1>1, <1>5, <2>1, <2>2 DEF Phase, Bracketed
  <2> QED
    BY <2>3, <2>4
<1> QED
  BY <1>1, <1>2, <1>4, <1>5, Moves

\* The sidecar's custody ends, aborted or closed, with what was read of it.
LEMMA Custody ==
  ASSUME IInv, UNCHANGED chain, w.pc \in {"starting", "child", "custody"}, w' \in Supervisors,
         w'.a = w.a, w'.required = w.required, w'.bound = w.bound, w'.pc = "closing",
         w'.sidecar = "closed" /\ w'.finished => w'.terminal.named \in 1 .. w.a,
         lines' \in Seq(Messages), Len(lines') <= MaxLines
  PROVE  IInv'
<1>1. ASSUME NEW a \in Attempts, a = w.a, AtWork(a), Phase(a)
      PROVE  AtWork(a)' /\ Phase(a)'
  <2>2. (\A k : Of(k, a)' = Of(k, a)) /\ Latest' = Latest /\ chain' = chain
    BY ChainSame
  <2>3. AtWork(a)'
    BY <1>1, <2>2 DEF AtWork
  <2>4. Phase(a)'
    BY <1>1, <2>2 DEF Phase
  <2> QED
    BY <2>3, <2>4
<1> QED
  BY <1>1, Moves

LEMMA AbortedIs ==
  ASSUME Typed
  PROVE  /\ Aborted(w) \in Supervisors
         /\ Aborted(w).a = w.a /\ Aborted(w).required = w.required /\ Aborted(w).bound = w.bound
         /\ Aborted(w).sidecar = "aborted"
<1>1. PICK f \in BOOLEAN, g \in BOOLEAN : AllRead(w) = [w EXCEPT !.findings = f, !.finished = g]
  BY AllReadIs
<1> QED
  BY <1>1 DEF Aborted, Typed, Supervisors, Observations

LEMMA TerminalsTyped ==
  ASSUME Typed, w.a \in Attempts, NEW s, NEW c \in Terminals(s)
  PROVE  c \in AnyCapture /\ (s.finished => c.named \in 1 .. w.a)
<1>1. w.a \in Numbers /\ 0 .. w.a \subseteq Numbers
  BY BoundsAssumption DEF Attempts, Numbers
<1>2. Captures \subseteq AnyCapture
  BY <1>1 DEF Captures, AnyCapture, Numbers
<1>3. CASE s.finished
  BY <1>2, <1>3 DEF Terminals, Captures
<1>4. CASE ~ s.finished
  BY <1>4, IdleTyped DEF Terminals
<1> QED
  BY <1>3, <1>4

LEMMA DoNotReady == ASSUME IInv, NotReady PROVE IInv'
<1>1. /\ w.pc = "starting" /\ lines' = <<>> /\ UNCHANGED chain /\ Typed
      /\ w' = [Aborted(w) EXCEPT !.pc = "closing", !.outcome = "refused"]
  BY DEF NotReady, At, IInv
<1>2. /\ w' \in Supervisors /\ w'.a = w.a /\ w'.required = w.required /\ w'.bound = w.bound
      /\ w'.pc = "closing" /\ w'.sidecar # "closed"
  BY <1>1, AbortedIs DEF Supervisors, Phases, Outcomes
<1> QED
  BY <1>1, <1>2, LinesTyped, Custody

LEMMA DoChildEvent == ASSUME IInv, ChildEvent PROVE IInv'
<1>1. w.pc = "child" /\ w.sidecar = "running" /\ lines' = <<>> /\ UNCHANGED chain /\ Typed
  BY DEF ChildEvent, At, IInv
<1>2. w.a \in Attempts
  BY <1>1, Knows
<1>3. ASSUME NEW c \in Terminals(AllRead(w)),
             w' = [Aborted(w) EXCEPT !.pc = "closing", !.outcome = "interrupted", !.terminal = c]
      PROVE  IInv'
  <2>1. c \in AnyCapture
    BY <1>1, <1>2, <1>3, TerminalsTyped
  <2>2. /\ w' \in Supervisors /\ w'.a = w.a /\ w'.required = w.required /\ w'.bound = w.bound
        /\ w'.pc = "closing" /\ w'.sidecar # "closed"
    BY <1>1, <1>3, <2>1, AbortedIs DEF Supervisors, Phases, Outcomes
  <2> QED
    BY <1>1, <2>2, LinesTyped, Custody
<1>4. CASE w' = AllRead(w)
  <2>1. PICK f \in BOOLEAN, g \in BOOLEAN : w' = [w EXCEPT !.findings = f, !.finished = g]
    BY <1>1, <1>4, AllReadIs
  <2>2. w' \in Supervisors /\ w'.a = w.a
    BY <1>1, <2>1 DEF Typed, Supervisors
  <2>3. ASSUME NEW a \in Attempts, a = w.a, AtWork(a), Phase(a)
        PROVE  AtWork(a)' /\ Phase(a)'
    <3>1. /\ w'.required = w.required /\ w'.bound = w.bound /\ w'.sidecar = "running"
          /\ w'.pc = "child"
      BY <1>1, <2>1 DEF Typed, Supervisors
    <3>2. (\A k : Of(k, a)' = Of(k, a)) /\ Latest' = Latest /\ chain' = chain
      BY <1>1, ChainSame
    <3>3. AtWork(a)'
      BY <2>3, <3>1, <3>2 DEF AtWork
    <3>4. Phase(a)'
      BY <1>1, <2>3, <3>1, <3>2 DEF Phase, Unbracketed, Bracketed
    <3> QED
      BY <3>3, <3>4
  <2> QED
    BY <1>1, <2>2, <2>3, LinesTyped, Moves
<1> QED
  BY <1>3, <1>4 DEF ChildEvent

LEMMA DoChildEnds == ASSUME IInv, ChildEnds PROVE IInv'
<1>1. w.pc = "child" /\ UNCHANGED <<chain, lines>> /\ Typed
  BY DEF ChildEnds, At, IInv
<1>2. PICK o \in {"completed", "interrupted"} : w' = [w EXCEPT !.pc = "custody", !.outcome = o]
  BY DEF ChildEnds
<1>3. w' \in Supervisors /\ w'.a = w.a
  BY <1>1, <1>2 DEF Typed, Supervisors, Phases, Outcomes
<1>4. ASSUME NEW a \in Attempts, a = w.a, AtWork(a), Phase(a)
      PROVE  AtWork(a)' /\ Phase(a)'
  <2>1. /\ w'.required = w.required /\ w'.bound = w.bound /\ w'.sidecar = w.sidecar
        /\ w'.finished = w.finished /\ w'.terminal = w.terminal /\ w'.pc = "custody"
    BY <1>1, <1>2 DEF Typed, Supervisors
  <2>2. (\A k : Of(k, a)' = Of(k, a)) /\ Latest' = Latest /\ chain' = chain
    BY <1>1, ChainSame
  <2>3. AtWork(a)'
    BY <1>4, <2>1, <2>2 DEF AtWork
  <2>4. Phase(a)'
    BY <1>1, <1>4, <2>1, <2>2 DEF Phase, Unbracketed, Bracketed
  <2> QED
    BY <2>3, <2>4
<1> QED
  BY <1>1, <1>3, <1>4, LinesTyped, Moves

LEMMA DoCloseSidecar == ASSUME IInv, CloseSidecar PROVE IInv'
<1>1. w.pc = "custody" /\ lines' = <<>> /\ UNCHANGED chain /\ Typed
  BY DEF CloseSidecar, At, IInv
<1>2. PICK a : a = w.a
  OBVIOUS
<1>3. a \in Attempts /\ Phase(a) /\ AtWork(a)
  BY <1>1, <1>2, Knows
<1>4. CASE w.sidecar # "running"
  <2>1. w' = [w EXCEPT !.pc = "closing"] /\ w.sidecar = "none"
    BY <1>1, <1>3, <1>4 DEF CloseSidecar, Phase, Unbracketed, Bracketed
  <2>2. /\ w' \in Supervisors /\ w'.a = w.a /\ w'.required = w.required /\ w'.bound = w.bound
        /\ w'.pc = "closing" /\ w'.sidecar # "closed"
    BY <1>1, <2>1 DEF Typed, Supervisors, Phases
  <2> QED
    BY <1>1, <2>2, LinesTyped, Custody
<1>5. CASE w.sidecar = "running"
  <2>1. PICK clean \in BOOLEAN, c \in Terminals(AllRead(w)) :
          w' = [[AllRead(w) EXCEPT !.terminal = c]
                  EXCEPT !.pc = "closing", !.sidecar = "closed", !.findings = FALSE,
                         !.qualified = FALSE,
                         !.observed = Observed([AllRead(w) EXCEPT !.terminal = c], clean)]
    BY <1>5 DEF CloseSidecar
  <2>2. PICK f \in BOOLEAN, g \in BOOLEAN : AllRead(w) = [w EXCEPT !.findings = f, !.finished = g]
    BY <1>1, AllReadIs
  <2>3. PICK o : o = Observed([AllRead(w) EXCEPT !.terminal = c], clean)
    OBVIOUS
  <2>4. o \in Observations
    BY <2>3 DEF Observed, Observations
  <2>5. c \in AnyCapture /\ (AllRead(w).finished => c.named \in 1 .. w.a)
    BY <1>1, <1>2, <1>3, TerminalsTyped
  <2>6. w' = [w EXCEPT !.finished = g, !.terminal = c, !.pc = "closing", !.sidecar = "closed",
                       !.findings = FALSE, !.qualified = FALSE, !.observed = o]
    BY <1>1, <2>1, <2>2, <2>3 DEF Typed, Supervisors
  <2>7. AllRead(w).finished = g
    BY <1>1, <2>2 DEF Typed, Supervisors
  <2>8. /\ w' \in Supervisors /\ w'.a = w.a /\ w'.required = w.required /\ w'.bound = w.bound
        /\ w'.pc = "closing" /\ w'.finished = g /\ w'.terminal = c
    BY <1>1, <2>4, <2>5, <2>6 DEF Typed, Supervisors, Phases
  <2> QED
    BY <1>1, <2>5, <2>7, <2>8, LinesTyped, Custody
<1> QED
  BY <1>4, <1>5

LEMMA DoWriteOutcome == ASSUME IInv, WriteOutcome PROVE IInv'
<1>1. w.pc = "closing" /\ UNCHANGED lines /\ Typed
  BY DEF WriteOutcome, At, IInv
<1>2. PICK a : a = w.a
  OBVIOUS
<1>3. a \in Attempts /\ Phase(a) /\ AtWork(a) /\ a \in 1 .. Latest
  BY <1>1, <1>2, Knows
<1>4. CASE w' = [w EXCEPT !.pc = "conclude"] /\ UNCHANGED chain
  <2>1. w' \in Supervisors /\ w'.a = w.a
    BY <1>1, <1>4 DEF Typed, Supervisors, Phases
  <2>2. AtWork(a)' /\ Phase(a)'
    <3>1. /\ w'.required = w.required /\ w'.bound = w.bound /\ w'.sidecar = w.sidecar
          /\ w'.finished = w.finished /\ w'.terminal = w.terminal /\ w'.pc = "conclude"
      BY <1>1, <1>4 DEF Typed, Supervisors
    <3>2. (\A k : Of(k, a)' = Of(k, a)) /\ Latest' = Latest /\ chain' = chain
      BY <1>4, ChainSame
    <3>3. AtWork(a)'
      BY <1>3, <3>1, <3>2 DEF AtWork
    <3>4. Phase(a)'
      BY <3>1 DEF Phase
    <3> QED
      BY <3>3, <3>4
  <2> QED
    BY <1>1, <1>2, <1>4, <2>1, <2>2, LinesTyped, Moves
<1>5. CASE /\ w.bound
           /\ Appended("close", w.a, IF w.finished THEN w.terminal.named ELSE 0)
           /\ w' = [w EXCEPT !.pc = "judge"]
  <2>1. PICK d : d = IF w.finished THEN w.terminal.named ELSE 0
    OBVIOUS
  <2>2. d \in Details
    BY <1>1, <2>1, BoundsAssumption DEF Typed, Supervisors, AnyCapture, Details, Numbers
  <2>3. Appended("close", a, d)
    BY <1>2, <1>5, <2>1
  <2>4. Rightful("close", a, d)
    BY <1>1, <1>3, <1>5 DEF Rightful, Phase, AtWork
  <2>5. w' \in Supervisors /\ w'.a = a
    BY <1>1, <1>2, <1>5 DEF Typed, Supervisors, Phases
  <2>6. ASSUME Grown("close", a, d) PROVE AtWork(a)' /\ Phase(a)'
    <3>1. /\ \A k : k # "close" => Of(k, a)' = Of(k, a)
          /\ Of("close", a)' = {Len(chain) + 1}
      BY <1>1, <2>4, <2>6, OfAfter DEF Rightful
    <3>2. Latest' = Latest
      <4>1. Numbered
        BY DEF IInv, RecordInv
      <4> QED
        BY <1>1, <1>3, <2>6, <4>1, LatestAfter
    <3>3. /\ chain'[Len(chain) + 1].detail = d
          /\ \A k : \A i \in Of(k, a) : chain'[i] = chain[i]
      BY <1>1, <2>6, OfAfter DEF Grown, Entry
    <3>4. /\ w'.required = w.required /\ w'.bound = w.bound /\ w'.sidecar = w.sidecar
          /\ w'.finished = w.finished /\ w'.terminal = w.terminal /\ w'.pc = "judge"
      BY <1>1, <1>5 DEF Typed, Supervisors
    <3>5. AtWork(a)'
      BY <1>3, <3>1, <3>2, <3>3, <3>4 DEF AtWork
    <3>6. Phase(a)'
      BY <1>1, <1>3, <1>5, <2>1, <3>1, <3>3, <3>4 DEF Phase, Closed
    <3> QED
      BY <3>5, <3>6
  <2> QED
    BY <1>1, <1>3, <2>2, <2>3, <2>4, <2>5, <2>6, LinesTyped, Writes DEF Kinds
<1> QED
  BY <1>4, <1>5 DEF WriteOutcome

\* The one entry of a kind is the one that is read.
LEMMA TheOne ==
  ASSUME OneOfAKind, NEW k, NEW a, Of(k, a) # {}
  PROVE  The(Of(k, a)) \in Of(k, a) /\ Of(k, a) = {The(Of(k, a))}
<1>1. The(Of(k, a)) \in Of(k, a)
  BY DEF The
<1> QED
  BY <1>1 DEF OneOfAKind, Of

LEMMA OneEntry ==
  ASSUME OneOfAKind, NEW k, NEW a, Of(k, a) # {}
  PROVE  Cardinality(Of(k, a)) = 1
<1>1. PICK x : Of(k, a) = {x}
  BY TheOne
<1> QED
  BY <1>1, FS_Singleton

LEMMA PolicyRead ==
  ASSUME OneOfAKind, NEW a, Of("policy", a) # {}
  PROVE  RecordedPolicy(a) = chain[The(Of("policy", a))].detail
         /\ The(Of("policy", a)) \in Of("policy", a)
<1>1. Cardinality(Of("policy", a)) = 1
  BY TheOne, OneEntry
<1> QED
  BY <1>1, TheOne DEF RecordedPolicy

\* What a satisfied judgment has established of its candidate.
LEMMA Satisfied ==
  ASSUME NEW a, NEW c \in AnyCapture, Reason(a, c) = "satisfied"
  PROVE  /\ c.bytes = c.reference /\ c.bytes = c.subject
         /\ Bind(a, c.subject, c.reference) = "bound"
         /\ RecordedPolicy(a) = "required" => c.whole
<1> DEFINE binding == Bind(a, c.subject, c.reference)
           policy == RecordedPolicy(a)
<1>1. Reason(a, c) =
        IF ~c.sound THEN "malformed"
        ELSE IF c.bytes # c.reference THEN "digest-mismatch"
        ELSE IF binding # "bound" THEN binding
        ELSE IF policy = "ambiguous" THEN "policy-mismatch"
        ELSE IF Prior(a, c) THEN "duplicate"
        ELSE IF c.bytes # c.subject THEN "subject-mismatch"
        ELSE IF policy = "required" /\ ~c.whole THEN "incomplete"
        ELSE "satisfied"
  BY DEF Reason
<1>2. binding # "satisfied"
  BY DEF Bind
<1>3. c.sound \in BOOLEAN /\ c.whole \in BOOLEAN
  BY DEF AnyCapture
<1> HIDE DEF binding, policy
<1>4. c.bytes = c.reference /\ binding = "bound" /\ c.bytes = c.subject
      /\ (policy = "required" => c.whole)
  BY <1>1, <1>2, <1>3
<1> QED
  BY <1>4 DEF binding, policy

LEMMA Bound ==
  ASSUME NEW a \in Nat, NEW s \in Nat, NEW d, Bind(a, s, d) = "bound"
  PROVE  s = a /\ Names(s, d)
BY DEF Bind

LEMMA ReasonTyped ==
  ASSUME NEW a, NEW c
  PROVE  Reason(a, c) \in Reasons
BY DEF Reason, Reasons, Bind

LEMMA DoAdmit == ASSUME IInv, Admit PROVE IInv'
<1>1. /\ w.pc = "judge" /\ UNCHANGED lines /\ Typed /\ RecordInv
      /\ w' = [w EXCEPT !.pc = "conclude"]
  BY DEF Admit, At, IInv
<1>2. PICK a : a = w.a
  OBVIOUS
<1>3. a \in Attempts /\ Phase(a) /\ AtWork(a) /\ a \in 1 .. Latest
  BY <1>1, <1>2, Knows
<1>4. /\ w' \in Supervisors /\ w'.a = w.a
      /\ w'.required = w.required /\ w'.bound = w.bound /\ w'.sidecar = w.sidecar
      /\ w'.finished = w.finished /\ w'.terminal = w.terminal /\ w'.pc = "conclude"
  BY <1>1 DEF Typed, Supervisors, Phases
<1>5. CASE UNCHANGED chain
  <2>1. (\A k : Of(k, a)' = Of(k, a)) /\ Latest' = Latest /\ chain' = chain
    BY <1>5, ChainSame
  <2>2. AtWork(a)'
    BY <1>3, <1>4, <2>1 DEF AtWork
  <2>3. Phase(a)'
    BY <1>4 DEF Phase
  <2> QED
    BY <1>1, <1>2, <1>4, <1>5, <2>2, <2>3, LinesTyped, Moves
<1>6. ASSUME Judged,
             Appended("admission", w.a,
               [digest |-> w.terminal.reference, subject |-> w.terminal.subject,
                reason |-> Reason(w.a, w.terminal),
                of |-> IF Reason(w.a, w.terminal) = "satisfied" THEN w.terminal ELSE NoCapture])
      PROVE  IInv'
  <2>1. PICK c : c = w.terminal
    OBVIOUS
  <2>2. PICK r : r = Reason(a, c)
    OBVIOUS
  <2>3. PICK d : d = [digest |-> c.reference, subject |-> c.subject, reason |-> r,
                      of |-> IF r = "satisfied" THEN c ELSE NoCapture]
    OBVIOUS
  <2>4. c \in AnyCapture
    BY <1>1, <2>1 DEF Typed, Supervisors
  <2>5. d \in Details
    <3>1. r \in Reasons
      BY <2>2, ReasonTyped
    <3>2. d \in Admissions
      BY <2>3, <2>4, <3>1, IdleTyped DEF Admissions, AnyCapture
    <3> QED
      BY <3>2 DEF Details
  <2>6. Appended("admission", a, d)
    BY <1>2, <1>6, <2>1, <2>2, <2>3
  <2>7. Closed(a) /\ Of("admission", a) = {}
    BY <1>1, <1>3 DEF Phase
  <2>8. ASSUME r = "satisfied"
        PROVE  /\ d.digest = a /\ d.subject = a /\ d.of.bytes = a
               /\ \E j \in Of("intent", a), k \in Of("close", a) : j < k /\ chain[k].detail = a
               /\ \A j \in Of("attempt", a) : chain[j].detail => d.of.whole
    <3>1. /\ c.bytes = c.reference /\ c.bytes = c.subject
          /\ Bind(a, c.subject, c.reference) = "bound"
          /\ RecordedPolicy(a) = "required" => c.whole
      BY <2>2, <2>4, <2>8, Satisfied
    <3>2. c.subject = a /\ Names(a, c.reference)
      <4>1. c.subject \in Nat /\ a \in Nat
        BY <1>3, <2>4 DEF AnyCapture, Numbers, Attempts
      <4> QED
        BY <3>1, <4>1, Bound
    <3>3. The(Of("close", a)) \in Of("close", a)
      BY <1>1, <2>7, TheOne DEF Closed, RecordInv
    <3>4. chain[The(Of("close", a))].detail = c.named /\ c.named \in 1 .. a
      BY <1>3, <1>6, <2>1, <2>7, <3>3 DEF Closed, Judged, AtWork
    <3>5. chain[The(Of("close", a))].detail = c.reference
      BY <1>3, <3>2, <3>4 DEF Names, Attempts
    <3>6. c.reference = a /\ c.bytes = a
      BY <3>1, <3>2
    <3>7. PICK j \in Of("intent", a) : j < The(Of("close", a))
      BY <1>1, <1>3, <3>3 DEF RecordInv, ClosedAfterIntent
    <3>8. d.digest = c.reference /\ d.subject = c.subject /\ d.of = c
      BY <2>3, <2>8
    <3>9. ASSUME NEW i \in Of("attempt", a), chain[i].detail PROVE c.whole
      <4>1. w.required
        BY <1>3, <3>9 DEF AtWork
      <4>2. Of("policy", a) # {} /\ \A l \in Of("policy", a) : chain[l].detail = "required"
        BY <1>3, <2>7, <4>1 DEF AtWork, Closed
      <4>3. RecordedPolicy(a) = "required"
        BY <1>1, <4>2, PolicyRead DEF RecordInv
      <4> QED
        BY <3>1, <4>3
    <3> QED
      BY <3>2, <3>3, <3>5, <3>6, <3>7, <3>8, <3>9
  <2>9. d.reason = r
    BY <2>3
  <2>10. Rightful("admission", a, d)
    BY <1>3, <2>7, <2>8, <2>9 DEF Rightful
  <2>11. ASSUME Grown("admission", a, d) PROVE AtWork(a)' /\ Phase(a)'
    <3>1. \A k : k # "admission" => Of(k, a)' = Of(k, a)
      BY <1>1, <2>11, OfAfter
    <3>2. Latest' = Latest
      <4>1. Numbered /\ Typed /\ a \in Attempts
        BY <1>1, <1>3 DEF RecordInv
      <4>2. ASSUME NEW k, k # "attempt", Grown(k, a, d) PROVE Latest' = Latest
        BY ONLY <4>1, <4>2, LatestAfter
      <4> QED
        BY <2>11, <4>2
    <3>3. \A k : \A i \in Of(k, a) : chain'[i] = chain[i]
      BY <1>1, <2>11, OfAfter DEF Grown
    <3>4. AtWork(a)'
      BY <1>3, <1>4, <3>1, <3>2, <3>3 DEF AtWork
    <3>5. Phase(a)'
      BY <1>4 DEF Phase
    <3> QED
      BY <3>4, <3>5
  <2> QED
    BY <1>1, <1>2, <1>3, <1>4, <2>5, <2>6, <2>10, <2>11, LinesTyped, Writes DEF Kinds
<1> QED
  BY <1>5, <1>6 DEF Admit

\* An outcome ends its attempt, and nobody is at work on it afterwards.
LEMMA EndsIt ==
  ASSUME IInv, NEW a \in Attempts, NEW d \in Ends, Appended("end", a, d), a \in 1 .. Latest,
         Of("end", a) = {},
         d.outcome = "completed" => \A j \in Of("attempt", a) : chain[j].detail = d.required,
         w' \in Supervisors, w'.pc = "idle", UNCHANGED lines
  PROVE  IInv'
<1>1. d \in Details
  BY DEF Details
<1>2. Rightful("end", a, d)
  BY DEF Rightful
<1> QED
  BY <1>1, <1>2, LinesTyped, Writes DEF Kinds, IInv

LEMMA DoConclude == ASSUME IInv, Conclude PROVE IInv'
<1>1. w.pc = "conclude" /\ w' = Idle /\ UNCHANGED lines /\ Typed
  BY DEF Conclude, At, IInv
<1>2. PICK a : a = w.a
  OBVIOUS
<1>3. a \in Attempts /\ AtWork(a) /\ a \in 1 .. Latest
  BY <1>1, <1>2, Knows
<1>4. CASE UNCHANGED chain
  BY <1>1, <1>4, LinesTyped, Leaves
<1>5. ASSUME Appended("end", w.a,
               [outcome |-> w.outcome, required |-> w.required,
                posture |-> Posture(w.requested, w.required, w.observed)])
      PROVE  IInv'
  <2>1. PICK p : p = Posture(w.requested, w.required, w.observed)
    OBVIOUS
  <2>2. p \in Postures
    BY <1>1, <2>1 DEF Typed, Supervisors, Posture, Postures, Observations
  <2>3. PICK d : d = [outcome |-> w.outcome, required |-> w.required, posture |-> p]
    OBVIOUS
  <2>4. d \in Ends
    BY <1>1, <2>2, <2>3 DEF Typed, Supervisors, Ends
  <2>5. Appended("end", a, d)
    BY <1>2, <1>5, <2>1, <2>3
  <2>6. Of("end", a) = {} /\ \A j \in Of("attempt", a) : chain[j].detail = d.required
    BY <1>3, <2>3 DEF AtWork
  <2>7. w' \in Supervisors /\ w'.pc = "idle"
    BY <1>1, IdleTyped DEF Idle
  <2> QED
    BY <1>1, <1>3, <2>4, <2>5, <2>6, <2>7, EndsIt
<1> QED
  BY <1>4, <1>5 DEF Conclude

LEMMA DoReconcile == ASSUME IInv, Reconcile PROVE IInv'
<1>1. w.pc = "idle" /\ UNCHANGED <<w, lines>> /\ Typed /\ Latest \in Numbers /\ Latest > 0
  BY DEF Reconcile, At, IInv, RecordInv, Numbered
<1>2. PICK a : a = Latest
  OBVIOUS
<1>3. a \in Attempts /\ a \in 1 .. Latest
  BY <1>1, <1>2, BoundsAssumption DEF Attempts, Numbers
<1>4. PICK d : d = [outcome |-> "interrupted", required |-> FALSE, posture |-> NotRecorded]
  OBVIOUS
<1>5. d \in Ends /\ d.outcome # "completed"
  BY <1>4 DEF Ends, Outcomes, Postures
<1>6. Appended("end", a, d) /\ Of("end", a) = {}
  BY <1>2, <1>4 DEF Reconcile, Ended
<1> QED
  BY <1>1, <1>3, <1>5, <1>6, EndsIt DEF Typed

LEMMA InvStep == IInv /\ [Next]_vars => IInv'
<1> SUFFICES ASSUME IInv, [Next]_vars PROVE IInv'
  OBVIOUS
<1>1. CASE UNCHANGED vars
  BY <1>1, Stays, LinesTyped DEF vars, IInv
<1>2. CASE RecordChanged \/ Kill
  BY <1>2, Leaves, LinesTyped DEF RecordChanged, Kill, IInv
<1>3. CASE Begin \/ Unlocated \/ Confine \/ RecordPolicy \/ OpenEffect \/ SpawnSidecar
  BY <1>3, DoBegin, DoUnlocated, DoConfine, DoRecordPolicy, DoOpenEffect, DoSpawnSidecar
<1>4. CASE SidecarSends \/ Ready \/ NotReady \/ ChildEvent \/ ChildEnds \/ CloseSidecar
  BY <1>4, DoSidecarSends, DoReady, DoNotReady, DoChildEvent, DoChildEnds, DoCloseSidecar
<1>5. CASE WriteOutcome \/ Admit \/ Conclude \/ Reconcile
  BY <1>5, DoWriteOutcome, DoAdmit, DoConclude, DoReconcile
<1> QED
  BY <1>1, <1>2, <1>3, <1>4, <1>5 DEF Next

LEMMA Invariance == Spec => []IInv
BY InvInit, InvStep, PTL DEF Spec

---------------------------------------------------------------------------
(* What follows from it.                                                   *)

\* Whatever fails, is killed or is left by an earlier attempt, what the record
\* holds of a witness can be read back and is its own attempt's (recovery.rs,
\* fold_effects; wire.rs, bind).
THEOREM EvidenceStaysOwn == Spec => []EvidenceIsOwn
<1>1. IInv => BracketsClean
  <2> SUFFICES ASSUME IInv, NEW a \in Attempts PROVE ~ Defective(a)
    BY DEF BracketsClean
  <2>1. OneOfAKind /\ ClosedAfterIntent /\ Typed
    BY DEF IInv, RecordInv
  <2>2. ~ Clash(a)
    <3>1. CASE Of("intent", a) = {}
      BY <3>1, FS_EmptySet DEF Clash
    <3>2. CASE Of("intent", a) # {}
      BY <2>1, <3>2, OneEntry DEF Clash
    <3> QED
      BY <3>1, <3>2
  <2>3. Orphans(a) = {}
    <3> SUFFICES ASSUME NEW i \in Of("close", a), \A j \in Of("intent", a) : j > i PROVE FALSE
      BY DEF Orphans
    <3>1. PICK j \in Of("intent", a) : j < i
      BY <2>1 DEF ClosedAfterIntent
    <3>2. i \in Nat /\ j \in Nat
      BY <2>1, OfIs
    <3> QED
      BY <3>1, <3>2
  <2>4. Doubles(a) = {}
    <3>1. CASE Of("close", a) = {}
      BY <3>1, FS_EmptySet DEF Doubles
    <3>2. CASE Of("close", a) # {}
      <4>1. Cardinality(Of("close", a)) = 1 /\ Of("close", a) \ Orphans(a) = Of("close", a)
        BY <2>1, <2>3, <3>2, OneEntry
      <4> QED
        BY <4>1 DEF Doubles
    <3> QED
      BY <3>1, <3>2
  <2> QED
    BY <2>2, <2>3, <2>4 DEF Defective
<1>2. IInv => AdmittedIsOwn
  <2> SUFFICES ASSUME IInv, NEW i \in DOMAIN chain, chain[i].kind = "admission",
                      chain[i].detail.reason = "satisfied", NEW a, a = chain[i].attempt
               PROVE  /\ chain[i].detail.digest = a /\ chain[i].detail.subject = a
                      /\ chain[i].detail.of.bytes = a
                      /\ \E j, k \in 1 .. i : /\ j < k /\ j \in Of("intent", a)
                                              /\ k \in Of("close", a) /\ chain[k].detail = a
    BY DEF AdmittedIsOwn
  <2>1. Typed /\ AdmittedOwn /\ i \in 1 .. Len(chain)
    BY DEF IInv, RecordInv, Typed
  <2>2. a \in Attempts
    <3>1. chain[i] \in Entries
      BY <2>1 DEF Typed
    <3> QED
      BY <3>1 DEF Entries
  <2>3. Own(i, a)
    BY <2>1, <2>2 DEF AdmittedOwn, Of
  <2>4. PICK j \in Of("intent", a), k \in Of("close", a) : j < k /\ k <= i /\ chain[k].detail = a
    BY <2>3 DEF Own
  <2>5. j \in 1 .. i /\ k \in 1 .. i
    BY <2>1, <2>4, OfIs
  <2> QED
    BY <2>3, <2>4, <2>5 DEF Own
<1> QED
  BY <1>1, <1>2, Invariance, PTL DEF EvidenceIsOwn

\* A child runs beside the sidecar it was given, bracketed and under a recorded
\* policy, or without one because none could be reserved (witness.rs, start).
THEOREM ChildRunsAsAsked == Spec => []ChildAsAsked
<1>1. IInv => ChildAsAsked
  <2> SUFFICES ASSUME IInv, w.pc = "child", NEW a, a = w.a
               PROVE  \/ w.sidecar = "none" /\ ~w.bound /\ Of("policy", a) = {}
                      \/ /\ w.sidecar = "running" /\ Of("intent", a) # {}
                         /\ RecordedPolicy(a) # NotRecorded
    BY DEF ChildAsAsked, At
  <2>1. AtWork(a) /\ Phase(a) /\ OneOfAKind
    BY Knows DEF IInv, RecordInv
  <2>2. CASE Bracketed
    <3>1. Of("intent", a) # {} /\ Of("policy", a) # {}
      BY <2>1, <2>2 DEF AtWork, Bracketed
    <3>2. RecordedPolicy(a) \in {"required", "optional"}
      BY <2>1, <3>1, PolicyRead DEF AtWork
    <3> QED
      BY <2>2, <3>1, <3>2 DEF Bracketed, NotRecorded
  <2>3. CASE Unbracketed(a)
    BY <2>3 DEF Unbracketed
  <2> QED
    BY <2>1, <2>2, <2>3 DEF Phase
<1> QED
  BY <1>1, Invariance, PTL

\* An attempt that was asked for a witness is accepted only on an admitted
\* artifact whose capture was whole (statecraft-acceptance's wire.rs,
\* eligibility).
THEOREM RequiredStaysEvidenced == Spec => []RequiredIsEvidenced
<1>1. IInv => RequiredIsEvidenced
  <2> SUFFICES ASSUME IInv, NEW a \in Attempts, Started(a), Asked(a), Acceptable(a)
               PROVE  \E i \in Of("admission", a) : /\ chain[i].detail.reason = "satisfied"
                                                    /\ chain[i].detail.of.whole
    BY DEF RequiredIsEvidenced
  <2>1. OneOfAKind /\ EndSaysAsked /\ AdmittedWhole
    BY DEF IInv, RecordInv
  <2>2. PICK j \in Of("attempt", a) : chain[j].detail = Asked(a)
    BY <2>1, TheOne DEF Started, Asked
  <2>3. PICK e \in Of("end", a) : chain[e].detail = End(a)
    BY <2>1, TheOne DEF Acceptable, Ended, End
  <2>4. End(a).required
    BY <2>1, <2>2, <2>3 DEF EndSaysAsked, Acceptable
  <2>5. Admitted(a)
    BY <2>4 DEF Acceptable, WireEligible, Required
  <2> QED
    BY <2>1, <2>2, <2>5 DEF Admitted, AdmittedWhole
<1> QED
  BY <1>1, Invariance, PTL
============================================================================
