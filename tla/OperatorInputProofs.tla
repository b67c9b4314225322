-------------------------- MODULE OperatorInputProofs --------------------------
(***************************************************************************)
(* What is proved of operator input, for any gates, texts, lifetimes and   *)
(* bounds: a submission is recorded once and judged against what its       *)
(* controller read, what the record says of a note at the end is what the  *)
(* gates did with it, and every input moves as InputStates allows.         *)
(*                                                                         *)
(* The record is read by folds; they are stated here over any sequence r,  *)
(* so that they can be read of the record before and after a step.         *)
(***************************************************************************)
EXTENDS OperatorInput, FiniteSetTheorems, WellFoundedInduction, TLAPS

------------------------------------------------------------------------------
(* Types.                                                                  *)

Whats == {"none", "note", "abort"}
Moved == {"pending", "delivered", "acknowledged", "expired"}
Words == Moved \cup {"none", "accepted", "stale", "completed", "cancelled"}
Reasons == {"none", "attempt-ended", "expiry-passed"}
EntryKinds == {"intent", "input", "decided", "outcome", "reconciled", "state"}
Steps ==
  {"free", "draining", "taking", "commanding", "taken", "run", "reconcile", "watching", "deciding",
   "ended", "concluding", "desk", "settling", "placed", "withdrawn"}

Subs == [what : Whats, body : Bodies \cup {"none"}, n : Nat, expires : Nat]
Asks == [sub : Subs, ver : Nat]
Entries == [kind : EntryKinds, n : Nat, id : Nat, sub : Subs, word : Words, why : Reasons,
            key : Nat, ver : Nat]
GateStates == [n : Attempts \cup {0}, clock : Nat, names : SUBSET Ids, holds : Ids \cup {0}]

LocalTyped ==
  /\ pc \in Steps /\ verb \in {"none", "input", "run", "reconcile"}
  /\ at \in Nat /\ batch \subseteq Requests /\ cur \in Asks /\ from \in Requests \cup {0}
  /\ sup \in Attempts \cup {0} /\ said \in {"none", "completed", "cancelled"}
  /\ fresh \in BOOLEAN /\ open \in BOOLEAN /\ todo \subseteq Ids /\ seen \subseteq Ids

ChildTyped ==
  /\ log \in [Attempts -> Seq(Ids \cup {0})]
  /\ gate \in [Gates -> GateStates]
  /\ agents \subseteq Attempts

TypeOK ==
  /\ record \in Seq(Entries)
  /\ ask \in [Requests -> Asks]
  /\ stage \in [Requests -> {"none", "queued", "gone"}]
  /\ placed \subseteq Ids
  /\ now \in Nat
  /\ LocalTyped
  /\ ChildTyped

------------------------------------------------------------------------------
(* The folds, of any record.                                               *)

AllIn(r, k) == {i \in DOMAIN r : r[i].kind = k}
LatestIn(r) == Cardinality(AllIn(r, "intent"))
IdsIn(r) == {r[i].id : i \in AllIn(r, "input")}
SubIn(r, id) == r[CHOOSE i \in AllIn(r, "input") : r[i].id = id].sub
AboutIn(r, id) == {i \in DOMAIN r : r[i].id = id /\ r[i].kind # "decided"}
LastIn(S) == CHOOSE i \in S : \A j \in S : j <= i
StateIn(r, id) == IF AboutIn(r, id) = {} THEN "none" ELSE r[LastIn(AboutIn(r, id))].word
OpenIn(r, n) ==
  {id \in IdsIn(r) : /\ SubIn(r, id).what = "note" /\ SubIn(r, id).n = n
                     /\ StateIn(r, id) \in {"pending", "delivered"}}

------------------------------------------------------------------------------
(* The inductive invariant.                                                *)

\* Inputs are numbered as they are recorded, each with a submission of its own.
Numbered(r) == \E k \in 0 .. MaxInputs : IdsIn(r) = 1 .. k
Once(r) ==
  \A i, j \in AllIn(r, "input") : r[i].id = r[j].id \/ r[i].sub = r[j].sub => i = j

\* An input has a state as soon as it is recorded.
Stands(r) == \A id \in Ids : StateIn(r, id) = "none" <=> id \notin IdsIn(r)

\* What is recorded of an attempt is of one that was launched.
Launched(r) ==
  /\ \A i \in AllIn(r, "input") : r[i].sub.n \in 1 .. LatestIn(r)
  /\ \A i \in AllIn(r, "outcome") \cup AllIn(r, "state") : r[i].n <= LatestIn(r)

SettledAtOutcome(r) == \A i \in AllIn(r, "outcome") : OpenIn(r, r[i].n) = {}

OwnIn(r, i) == {j \in AllIn(r, "input") : r[j].id = r[i].id}

Judged(r) ==
  \A i \in AllIn(r, "decided") :
    r[i].word = "stale" /\ (\A j \in OwnIn(r, i) : r[i].ver < j)
      => \E j \in r[i].ver + 1 .. i - 1 : j \notin OwnIn(r, i)

RecordInv(r) ==
  /\ Numbered(r) /\ Once(r) /\ Stands(r) /\ Launched(r) /\ SettledAtOutcome(r) /\ Judged(r)

\* A request is of an attempt that was launched.
Proper(q, latest) == q = NoRequest \/ q.sub.n \in 1 .. latest

Asking == (\A f \in Requests : Proper(ask[f], LatestIn(record))) /\ Proper(cur, LatestIn(record))

\* No governed call of an attempt runs any more.
Quiet(n) == n \notin agents /\ \A g \in Gates : gate[g].n # n

Supervising ==
  /\ pc \in {"watching", "desk", "deciding", "ended", "settling", "placed", "withdrawn", "concluding"}
       => sup # 0
  /\ pc \in {"free", "run"} => sup = 0
  /\ sup <= LatestIn(record)
  /\ sup # 0 => \A i \in AllIn(record, "outcome") : record[i].n # sup
  /\ pc = "ended" => said # "none"
  /\ said # "none" =>
       /\ pc \in {"ended", "settling", "withdrawn", "concluding"} /\ Quiet(sup)
       /\ pc \in {"settling", "withdrawn"} =>
            seen = Returned(sup) /\ OpenIn(record, sup) \subseteq todo
  /\ pc = "concluding" => said # "none" /\ OpenIn(record, sup) = {}

\* The notes the desk has yet to settle are its attempt's.
Settling ==
  /\ \A id \in todo : id \in IdsIn(record) /\ SubIn(record, id).n = sup
  /\ pc \in {"placed", "withdrawn"} => todo # {}
  /\ pc = "placed" => StateIn(record, Least(todo)) = "pending"
  /\ pc = "withdrawn" => StateIn(record, Least(todo)) = "delivered"
  /\ \A id \in seen : sup \in Attempts /\ \E k \in DOMAIN log[sup] : log[sup][k] = id

\* A note that was shown to a gate of attempt n is a note of it; if that attempt
\* is still supervised, its delivery is recorded, or is about to be.
Showed(id, n) ==
  /\ id \in IdsIn(record) /\ SubIn(record, id).n = n
  /\ n = sup /\ StateIn(record, id) = "pending" => pc = "placed" /\ id = Least(todo)

Showing ==
  /\ \A id \in placed : Showed(id, SubIn(record, id).n)
  /\ \A g \in Gates : \A id \in gate[g].names \cup ({gate[g].holds} \ {0}) : Showed(id, gate[g].n)
  /\ \A n \in Attempts : \A k \in DOMAIN log[n] : log[n][k] # 0 => Showed(log[n][k], n)

\* What the record says of the gates is what they logged.
Telling ==
  \A i \in AllIn(record, "state") :
    /\ record[i].n \in Attempts
    /\ record[i].word = "acknowledged" =>
         \E k \in DOMAIN log[record[i].n] : log[record[i].n][k] = record[i].id
    /\ record[i].why = "attempt-ended" =>
         record[i].id \notin Returned(record[i].n) /\ Quiet(record[i].n)

IInv == TypeOK /\ RecordInv(record) /\ Asking /\ Supervising /\ Settling /\ Showing /\ Telling

------------------------------------------------------------------------------
(* Sets of numbers, and the folds.                                         *)

\* A nonempty set of numbers has a least one.
LEMMA LeastOf ==
  ASSUME NEW S, S \subseteq Nat, S # {}
  PROVE  Least(S) \in S /\ \A x \in S : Least(S) <= x
<1>1. PICK x \in S : \A y \in S : ~ (<<y, x>> \in OpToRel(<, Nat))
  BY NatLessThanWellFounded, WFMin
<1>2. \A y \in S : y < x => <<y, x>> \in OpToRel(<, Nat)
  <2>1. \A y \in S : <<y, x>> \in Nat \X Nat
    OBVIOUS
  <2> QED
    BY <2>1 DEF OpToRel
<1>3. \A y \in S : ~ (y < x)
  BY <1>1, <1>2, Zenon
<1>4. \A y \in S : y \in Nat
  OBVIOUS
<1>5. \A y \in S : x <= y
  BY <1>3, <1>4
<1> QED
  BY <1>5 DEF Least

\* The last of a set of places is the one above all others.
LEMMA LastIs ==
  ASSUME NEW S, S \subseteq Nat, NEW m \in S, \A j \in S : j <= m PROVE LastIn(S) = m
<1>1. LastIn(S) \in S /\ \A j \in S : j <= LastIn(S)
  BY DEF LastIn
<1>2. LastIn(S) \in Nat /\ m \in Nat /\ m <= LastIn(S) /\ LastIn(S) <= m
  BY <1>1
<1> QED
  BY <1>2

\* What a step reads of the record, and what it leaves to be read.
LEMMA Reads ==
  /\ \A k : All(k) = AllIn(record, k)
  /\ LatestAttempt = LatestIn(record) /\ Recorded = IdsIn(record)
  /\ \A id : Sub(id) = SubIn(record, id)
  /\ \A id : StateOf(id) = StateIn(record, id)
  /\ \A n : Unsettled(n) = OpenIn(record, n)
<1>1. \A k : All(k) = AllIn(record, k)
  BY DEF All, AllIn
<1>2. LatestAttempt = LatestIn(record) /\ Recorded = IdsIn(record)
  BY <1>1 DEF LatestAttempt, LatestIn, Recorded, IdsIn
<1>3. \A id : Sub(id) = SubIn(record, id)
  BY <1>1 DEF Sub, SubIn
<1>4. \A id : StateOf(id) = StateIn(record, id)
  BY DEF StateOf, StateIn, AboutIn, LastIn
<1>5. \A n : Unsettled(n) = OpenIn(record, n)
  BY <1>2, <1>3, <1>4 DEF Unsettled, Notes, OpenIn
<1> QED
  BY <1>1, <1>2, <1>3, <1>4, <1>5

LEMMA RecordTyped ==
  ASSUME NEW r \in Seq(Entries)
  PROVE  /\ Len(r) \in Nat /\ DOMAIN r = 1 .. Len(r)
         /\ \A i \in DOMAIN r : i \in Nat /\ r[i] \in Entries
         /\ \A k : AllIn(r, k) \subseteq DOMAIN r /\ IsFiniteSet(AllIn(r, k))
         /\ LatestIn(r) \in Nat
         /\ IdsIn(r) \subseteq Nat
<1>1. /\ Len(r) \in Nat /\ DOMAIN r = 1 .. Len(r)
      /\ \A i \in DOMAIN r : i \in Nat /\ r[i] \in Entries
  OBVIOUS
<1>2. IsFiniteSet(1 .. Len(r))
  BY <1>1, FS_Interval
<1>3. \A k : AllIn(r, k) \subseteq DOMAIN r /\ IsFiniteSet(AllIn(r, k))
  BY <1>1, <1>2, FS_Subset DEF AllIn
<1>4. LatestIn(r) \in Nat
  BY <1>3, FS_CardinalityType DEF LatestIn
<1>5. \A i \in DOMAIN r : r[i].id \in Nat
  BY <1>1 DEF Entries
<1>6. IdsIn(r) \subseteq Nat
  BY <1>3, <1>5 DEF IdsIn
<1> QED
  BY <1>1, <1>3, <1>4, <1>6

\* An input's submission is the one its only entry holds.
LEMMA SubIs ==
  ASSUME NEW r, Once(r), NEW i \in AllIn(r, "input")
  PROVE  SubIn(r, r[i].id) = r[i].sub
<1> DEFINE j == CHOOSE x \in AllIn(r, "input") : r[x].id = r[i].id
<1>1. j \in AllIn(r, "input") /\ r[j].id = r[i].id
  OBVIOUS
<1>2. j = i
  BY <1>1 DEF Once
<1> QED
  BY <1>2 DEF SubIn

\* One more entry.
Adds(r, e, s) ==
  /\ DOMAIN s = 1 .. Len(r) + 1 /\ s \in Seq(Entries) /\ s[Len(r) + 1] = e
  /\ \A i \in DOMAIN r : s[i] = r[i]

LEMMA AddsIs ==
  ASSUME NEW r \in Seq(Entries), NEW e \in Entries, NEW s, s = Append(r, e) PROVE Adds(r, e, s)
  BY DEF Adds

LEMMA AllAdds ==
  ASSUME NEW r \in Seq(Entries), NEW e \in Entries, NEW s, Adds(r, e, s), NEW k
  PROVE  /\ e.kind = k => AllIn(s, k) = AllIn(r, k) \cup {Len(r) + 1}
         /\ e.kind # k => AllIn(s, k) = AllIn(r, k)
<1>1. DOMAIN s = DOMAIN r \cup {Len(r) + 1} /\ Len(r) + 1 \notin DOMAIN r
  BY RecordTyped DEF Adds
<1> QED
  BY <1>1 DEF Adds, AllIn

LEMMA IdsAdds ==
  ASSUME NEW r \in Seq(Entries), NEW e \in Entries, NEW s, Adds(r, e, s)
  PROVE  /\ e.kind = "input" => IdsIn(s) = IdsIn(r) \cup {e.id}
         /\ e.kind # "input" => IdsIn(s) = IdsIn(r)
<1>1. PICK A : A = AllIn(r, "input")
  OBVIOUS
<1>2. \A i \in A : s[i] = r[i]
  BY <1>1 DEF AllIn, Adds
<1>3. s[Len(r) + 1] = e
  BY DEF Adds
<1>4. IdsIn(r) = {r[i].id : i \in A}
  BY <1>1 DEF IdsIn
<1>5. CASE e.kind = "input"
  <2>0. AllIn(s, "input") = A \cup {Len(r) + 1}
    BY <1>1, <1>5, AllAdds
  <2>1. IdsIn(s) = {s[i].id : i \in A \cup {Len(r) + 1}}
    BY <2>0, Zenon DEF IdsIn
  <2> QED
    BY <1>2, <1>3, <1>4, <1>5, <2>1
<1>6. CASE e.kind # "input"
  <2>1. IdsIn(s) = {s[i].id : i \in A}
    BY <1>1, <1>6, AllAdds DEF IdsIn
  <2> QED
    BY <1>2, <1>4, <1>6, <2>1
<1> QED
  BY <1>5, <1>6

LEMMA LatestAdds ==
  ASSUME NEW r \in Seq(Entries), NEW e \in Entries, NEW s, Adds(r, e, s)
  PROVE  /\ e.kind = "intent" => LatestIn(s) = LatestIn(r) + 1
         /\ e.kind # "intent" => LatestIn(s) = LatestIn(r)
<1>1. IsFiniteSet(AllIn(r, "intent")) /\ Len(r) + 1 \notin AllIn(r, "intent")
  BY RecordTyped
<1>2. CASE e.kind = "intent"
  <2>1. AllIn(s, "intent") = AllIn(r, "intent") \cup {Len(r) + 1}
    BY <1>2, AllAdds
  <2>2. Cardinality(AllIn(r, "intent") \cup {Len(r) + 1}) = Cardinality(AllIn(r, "intent")) + 1
    BY ONLY <1>1, FS_AddElement
  <2> QED
    BY <1>2, <2>1, <2>2 DEF LatestIn
<1>3. CASE e.kind # "intent"
  BY <1>3, AllAdds DEF LatestIn
<1> QED
  BY <1>2, <1>3

LEMMA StateAdds ==
  ASSUME NEW r \in Seq(Entries), NEW e \in Entries, NEW s, Adds(r, e, s), NEW id
  PROVE  StateIn(s, id) = IF e.kind # "decided" /\ e.id = id THEN e.word ELSE StateIn(r, id)
<1>1. /\ DOMAIN s = DOMAIN r \cup {Len(r) + 1} /\ Len(r) + 1 \notin DOMAIN r
      /\ DOMAIN r \subseteq Nat /\ Len(r) \in Nat /\ DOMAIN r = 1 .. Len(r)
      /\ s[Len(r) + 1] = e /\ \A i \in DOMAIN r : s[i] = r[i]
  BY RecordTyped DEF Adds
<1>2. CASE e.kind # "decided" /\ e.id = id
  <2>1. AboutIn(s, id) = AboutIn(r, id) \cup {Len(r) + 1}
    BY <1>1, <1>2 DEF AboutIn
  <2>2. AboutIn(s, id) \subseteq Nat /\ \A j \in AboutIn(s, id) : j <= Len(r) + 1
    BY <1>1, <2>1 DEF AboutIn
  <2>3. LastIn(AboutIn(s, id)) = Len(r) + 1
    BY <2>1, <2>2, LastIs
  <2> QED
    BY <1>1, <1>2, <2>1, <2>3 DEF StateIn
<1>3. CASE ~ (e.kind # "decided" /\ e.id = id)
  <2>1. AboutIn(s, id) = AboutIn(r, id)
    BY <1>1, <1>3 DEF AboutIn
  <2>2. CASE AboutIn(r, id) = {}
    BY <1>3, <2>1, <2>2 DEF StateIn
  <2>3. CASE AboutIn(r, id) # {}
    <3>1. \E m \in AboutIn(r, id) : \A j \in AboutIn(r, id) : j <= m
      <4> DEFINE T == {Len(r) - i : i \in AboutIn(r, id)}
      <4>1. T \subseteq Nat /\ T # {}
        BY <1>1, <2>3 DEF AboutIn
      <4>2. Least(T) \in T /\ \A x \in T : Least(T) <= x
        <5> HIDE DEF T
        <5> QED
          BY <4>1, LeastOf
      <4>3. PICK m \in AboutIn(r, id) : Least(T) = Len(r) - m
        BY <4>2
      <4>4. \A j \in AboutIn(r, id) : Len(r) - m <= Len(r) - j
        BY <4>2, <4>3
      <4>5. \A j \in AboutIn(r, id) : j \in Nat
        BY <1>1 DEF AboutIn
      <4> QED
        BY <1>1, <4>4, <4>5
    <3>2. LastIn(AboutIn(r, id)) \in AboutIn(r, id)
      BY <3>1 DEF LastIn
    <3>3. s[LastIn(AboutIn(r, id))] = r[LastIn(AboutIn(r, id))]
      BY <1>1, <3>2 DEF AboutIn
    <3> QED
      BY <1>3, <2>1, <3>3 DEF StateIn
  <2> QED
    BY <2>2, <2>3
<1> QED
  BY <1>2, <1>3

\* The submissions recorded before are read as they were.
LEMMA SubAdds ==
  ASSUME NEW r \in Seq(Entries), NEW e \in Entries, NEW s, Adds(r, e, s), Once(r), Once(s)
  PROVE  /\ \A id \in IdsIn(r) : SubIn(s, id) = SubIn(r, id)
         /\ e.kind = "input" => SubIn(s, e.id) = e.sub
<1>1. ASSUME NEW id \in IdsIn(r) PROVE SubIn(s, id) = SubIn(r, id)
  <2>1. PICK i \in AllIn(r, "input") : id = r[i].id
    BY DEF IdsIn
  <2>2. i \in AllIn(s, "input") /\ s[i] = r[i]
    BY AllAdds DEF AllIn, Adds
  <2> QED
    BY <2>1, <2>2, SubIs
<1>2. ASSUME e.kind = "input" PROVE SubIn(s, e.id) = e.sub
  <2>1. Len(r) + 1 \in AllIn(s, "input") /\ s[Len(r) + 1] = e
    BY <1>2, AllAdds DEF Adds
  <2> QED
    BY <2>1, SubIs
<1> QED
  BY <1>1, <1>2

------------------------------------------------------------------------------
(* What may be appended.                                                   *)

LEMMA IdsAre ==
  ASSUME NEW r, Numbered(r)
  PROVE  /\ IdsIn(r) \subseteq Ids /\ 0 \notin IdsIn(r)
         /\ Cardinality(IdsIn(r)) \in Nat /\ IdsIn(r) = 1 .. Cardinality(IdsIn(r))
<1>1. PICK k \in 0 .. MaxInputs : IdsIn(r) = 1 .. k
  BY DEF Numbered
<1>2. k \in Nat /\ k <= MaxInputs /\ MaxInputs \in Nat
  BY OperatorInputAssumption
<1>3. Cardinality(1 .. k) = k
  BY <1>2, FS_Interval
<1> QED
  BY <1>1, <1>2, <1>3 DEF Ids

\* An entry's own number, when it is no input's and no note's.
Plain(e) == e.kind \in {"intent", "outcome", "reconciled"} => e.id = 0

\* What is open after one more entry was open before it, or is what it opens.
LEMMA OpenAdds ==
  ASSUME NEW r \in Seq(Entries), NEW e \in Entries, NEW s, Adds(r, e, s), Once(r), Once(s),
         Numbered(r), Plain(e), NEW n, NEW id \in OpenIn(s, n)
  PROVE  \/ id \in OpenIn(r, n)
         \/ e.kind = "input" /\ id = e.id /\ e.sub.n = n /\ e.sub.what = "note"
         \/ /\ e.kind = "state" /\ id = e.id /\ SubIn(r, id).n = n
            /\ e.word \in {"pending", "delivered"}
<1>1. /\ id \in IdsIn(s) /\ SubIn(s, id).what = "note" /\ SubIn(s, id).n = n
      /\ StateIn(s, id) \in {"pending", "delivered"}
  BY DEF OpenIn
<1>2. CASE e.kind = "input" /\ id = e.id
  <2>1. SubIn(s, e.id) = e.sub
    BY <1>2, SubAdds
  <2> QED
    BY <1>1, <1>2, <2>1
<1>3. CASE ~ (e.kind = "input" /\ id = e.id)
  <2>1. id \in IdsIn(r)
    BY <1>1, <1>3, IdsAdds
  <2>2. SubIn(s, id) = SubIn(r, id)
    BY <2>1, SubAdds
  <2>3. StateIn(s, id) = IF e.kind # "decided" /\ e.id = id THEN e.word ELSE StateIn(r, id)
    BY StateAdds
  <2>4. 0 \notin IdsIn(r)
    BY IdsAre
  <2>5. e.kind \in EntryKinds
    BY DEF Entries
  <2> QED
    BY <1>1, <1>3, <2>1, <2>2, <2>3, <2>4, <2>5 DEF OpenIn, Plain, EntryKinds
<1> QED
  BY <1>2, <1>3

\* Of commands decided before, one more entry tells nothing.
LEMMA JudgedAdds ==
  ASSUME NEW r \in Seq(Entries), NEW e \in Entries, NEW s, Adds(r, e, s), Judged(r),
         \/ e.kind # "decided"
         \/ LET i == Len(r) + 1 IN
            e.word = "stale" /\ (\A j \in OwnIn(s, i) : e.ver < j)
              => \E j \in e.ver + 1 .. i - 1 : j \notin OwnIn(s, i)
  PROVE  Judged(s)
<1>1. /\ DOMAIN r = 1 .. Len(r) /\ Len(r) \in Nat /\ s[Len(r) + 1] = e
      /\ \A i \in DOMAIN r : s[i] = r[i]
  BY RecordTyped DEF Adds
<1>2. ASSUME NEW i \in AllIn(s, "decided"), s[i].word = "stale",
             \A j \in OwnIn(s, i) : s[i].ver < j
      PROVE  \E j \in s[i].ver + 1 .. i - 1 : j \notin OwnIn(s, i)
  <2>1. CASE i = Len(r) + 1
    <3>1. e.kind = "decided" /\ s[i] = e
      BY <1>1, <2>1 DEF AllIn
    <3> QED
      BY <1>2, <2>1, <3>1
  <2>2. CASE i # Len(r) + 1
    <3>0. i \in AllIn(r, "decided")
      BY <2>2, AllAdds
    <3>1. i \in AllIn(r, "decided") /\ i \in DOMAIN r /\ s[i] = r[i]
      BY <1>1, <3>0 DEF AllIn
    <3>2. \A j \in DOMAIN r : j \in OwnIn(r, i) <=> j \in OwnIn(s, i)
      <4>1. \A j \in DOMAIN r : j \in DOMAIN s
        BY <1>1 DEF Adds
      <4> QED
        BY <1>1, <3>1, <4>1 DEF OwnIn, AllIn
    <3>3. OwnIn(r, i) \subseteq DOMAIN r
      BY DEF OwnIn, AllIn
    <3>4. PICK j \in r[i].ver + 1 .. i - 1 : j \notin OwnIn(r, i)
      BY <1>2, <3>1, <3>2, <3>3 DEF Judged
    <3>5. r[i].ver \in Nat /\ i \in Nat /\ i <= Len(r)
      <4>1. r[i] \in Entries
        BY <3>1, RecordTyped
      <4> QED
        BY <1>1, <3>1, <4>1 DEF Entries
    <3>6. j \in DOMAIN r
      BY <1>1, <3>4, <3>5
    <3> QED
      BY <3>1, <3>2, <3>4, <3>6
  <2> QED
    BY <2>1, <2>2
<1> QED
  BY <1>2 DEF Judged

\* No entry but an input's touches the numbering.
LEMMA OnceAdds ==
  ASSUME NEW r \in Seq(Entries), NEW e \in Entries, NEW s, Adds(r, e, s), Once(r),
         \/ e.kind # "input"
         \/ /\ e.id \notin IdsIn(r)
            /\ \A i \in AllIn(r, "input") : r[i].sub # e.sub
  PROVE  Once(s)
<1>1. /\ s[Len(r) + 1] = e /\ \A i \in AllIn(r, "input") : s[i] = r[i]
  BY DEF Adds, AllIn
<1>2. \A i \in AllIn(r, "input") : r[i].id \in IdsIn(r)
  BY DEF IdsIn
<1>3. CASE e.kind # "input"
  <2>1. AllIn(s, "input") = AllIn(r, "input")
    BY <1>3, AllAdds
  <2> QED
    BY <1>1, <2>1 DEF Once
<1>4. CASE e.kind = "input"
  <2>1. AllIn(s, "input") = AllIn(r, "input") \cup {Len(r) + 1}
    BY <1>4, AllAdds
  <2>2. \A i, j \in AllIn(r, "input") : s[i].id = s[j].id \/ s[i].sub = s[j].sub => i = j
    BY <1>1 DEF Once
  <2>3. \A i \in AllIn(r, "input") : s[i].id # e.id /\ s[i].sub # e.sub
    BY <1>1, <1>2, <1>4
  <2> QED
    BY <1>1, <2>1, <2>2, <2>3 DEF Once
<1> QED
  BY <1>3, <1>4

\* An entry that is no input's and no note's.
LEMMA AddsPlain ==
  ASSUME NEW r \in Seq(Entries), NEW e \in Entries, NEW s, Adds(r, e, s), RecordInv(r),
         e.kind \in {"intent", "outcome", "reconciled"}, e.id = 0,
         e.kind = "outcome" => e.n <= LatestIn(r) /\ OpenIn(r, e.n) = {}
  PROVE  RecordInv(s) /\ \A n : OpenIn(s, n) = OpenIn(r, n)
<1>1. Once(s)
  BY OnceAdds DEF RecordInv
<1>2. IdsIn(s) = IdsIn(r)
  BY IdsAdds
<1>3. Numbered(s)
  BY <1>2 DEF RecordInv, Numbered
<1>4. \A id \in Ids : StateIn(s, id) = StateIn(r, id)
  BY StateAdds DEF Ids
<1>5. Stands(s)
  BY <1>2, <1>4 DEF RecordInv, Stands
<1>6. LatestIn(r) \in Nat /\ LatestIn(s) \in Nat /\ LatestIn(r) <= LatestIn(s)
  BY RecordTyped, LatestAdds
<1>7. /\ AllIn(s, "input") = AllIn(r, "input") /\ AllIn(s, "state") = AllIn(r, "state")
      /\ AllIn(s, "outcome") \subseteq AllIn(r, "outcome") \cup {Len(r) + 1}
      /\ Len(r) + 1 \in AllIn(s, "outcome") => e.kind = "outcome"
      /\ s[Len(r) + 1] = e /\ \A k : \A i \in AllIn(r, k) : s[i] = r[i] /\ r[i] \in Entries
  BY AllAdds, RecordTyped DEF Adds, AllIn
<1>8. Launched(s)
  <2>1. \A i \in AllIn(r, "input") : r[i].sub.n \in 1 .. LatestIn(s)
    BY <1>6, <1>7 DEF RecordInv, Launched
  <2>2. \A i \in AllIn(r, "outcome") \cup AllIn(r, "state") : r[i].n <= LatestIn(s)
    <3>1. \A i \in AllIn(r, "outcome") \cup AllIn(r, "state") : r[i].n <= LatestIn(r) /\ r[i].n \in Nat
      BY <1>7 DEF RecordInv, Launched, Entries
    <3> QED
      BY <1>6, <3>1
  <2>3. e.kind = "outcome" => e.n <= LatestIn(s)
    BY <1>6 DEF Entries
  <2> QED
    BY <1>7, <2>1, <2>2, <2>3 DEF Launched
<1>9. \A n : OpenIn(s, n) = OpenIn(r, n)
  <2>1. \A id \in IdsIn(r) : SubIn(s, id) = SubIn(r, id) /\ StateIn(s, id) = StateIn(r, id)
    BY <1>1, <1>4, SubAdds, IdsAre DEF RecordInv
  <2> QED
    BY <1>2, <2>1 DEF OpenIn
<1>10. SettledAtOutcome(s)
  BY <1>7, <1>9 DEF RecordInv, SettledAtOutcome
<1>11. Judged(s)
  BY JudgedAdds DEF RecordInv
<1> QED
  BY <1>1, <1>3, <1>5, <1>8, <1>9, <1>10, <1>11 DEF RecordInv

\* An input of its own number and submission, a note only of an attempt that goes on.
LEMMA AddsInput ==
  ASSUME NEW r \in Seq(Entries), NEW e \in Entries, NEW s, Adds(r, e, s), RecordInv(r),
         e.kind = "input", e.id = Cardinality(IdsIn(r)) + 1, Cardinality(IdsIn(r)) < MaxInputs,
         e.word = "pending", \A i \in AllIn(r, "input") : r[i].sub # e.sub,
         e.sub.n \in 1 .. LatestIn(r),
         e.sub.what = "note" => \A i \in AllIn(r, "outcome") : r[i].n # e.sub.n
  PROVE  /\ RecordInv(s) /\ e.id \notin IdsIn(r) /\ e.id \in Ids
         /\ \A n : n # e.sub.n => OpenIn(s, n) \subseteq OpenIn(r, n)
<1>1. /\ Cardinality(IdsIn(r)) \in Nat /\ IdsIn(r) = 1 .. Cardinality(IdsIn(r))
      /\ IdsIn(r) \subseteq Ids /\ Numbered(r) /\ Once(r)
  BY IdsAre DEF RecordInv
<1>2. e.id \notin IdsIn(r) /\ e.id \in Ids /\ e.id <= MaxInputs
  BY <1>1, OperatorInputAssumption DEF Ids
<1>3. Once(s)
  BY <1>1, <1>2, OnceAdds
<1>4. IdsIn(s) = IdsIn(r) \cup {e.id}
  BY IdsAdds
<1>5. IdsIn(s) = 1 .. Cardinality(IdsIn(r)) + 1
  BY <1>1, <1>4
<1>6. Numbered(s)
  <2>1. Cardinality(IdsIn(r)) + 1 \in 0 .. MaxInputs
    BY <1>1, OperatorInputAssumption
  <2> QED
    BY <1>5, <2>1 DEF Numbered
<1>7. \A id \in Ids : StateIn(s, id) = IF e.id = id THEN "pending" ELSE StateIn(r, id)
  BY StateAdds
<1>8. Stands(s)
  BY <1>2, <1>4, <1>7 DEF RecordInv, Stands
<1>9. /\ AllIn(s, "input") = AllIn(r, "input") \cup {Len(r) + 1}
      /\ AllIn(s, "state") = AllIn(r, "state") /\ AllIn(s, "outcome") = AllIn(r, "outcome")
      /\ s[Len(r) + 1] = e /\ \A k : \A i \in AllIn(r, k) : s[i] = r[i]
  BY AllAdds DEF Adds, AllIn
<1>10. LatestIn(s) = LatestIn(r)
  BY LatestAdds
<1>11. Launched(s)
  BY <1>9, <1>10 DEF RecordInv, Launched
<1>12. \A n : \A id \in OpenIn(s, n) :
         id \in OpenIn(r, n) \/ (e.sub.n = n /\ e.sub.what = "note")
  BY <1>1, <1>3, OpenAdds DEF Plain
<1>13. SettledAtOutcome(s)
  BY <1>9, <1>12 DEF RecordInv, SettledAtOutcome
<1>14. Judged(s)
  BY JudgedAdds DEF RecordInv
<1> QED
  BY <1>2, <1>3, <1>6, <1>8, <1>11, <1>12, <1>13, <1>14 DEF RecordInv

\* A note's next state, while its attempt has no outcome.
LEMMA AddsState ==
  ASSUME NEW r \in Seq(Entries), NEW e \in Entries, NEW s, Adds(r, e, s), RecordInv(r),
         e.kind = "state", e.id \in IdsIn(r), e.n = SubIn(r, e.id).n, e.word \in Moved,
         \A i \in AllIn(r, "outcome") : r[i].n # e.n
  PROVE  /\ RecordInv(s)
         /\ \A n : \A id \in OpenIn(s, n) :
              \/ id \in OpenIn(r, n) /\ id # e.id
              \/ id = e.id /\ n = e.n /\ e.word \in {"pending", "delivered"}
<1>1. Once(s)
  BY OnceAdds DEF RecordInv
<1>2. IdsIn(s) = IdsIn(r) /\ IdsIn(r) \subseteq Ids
  BY IdsAdds, IdsAre DEF RecordInv
<1>3. Numbered(s)
  BY <1>2 DEF RecordInv, Numbered
<1>4. \A id \in Ids : StateIn(s, id) = IF e.id = id THEN e.word ELSE StateIn(r, id)
  BY StateAdds
<1>5. Stands(s)
  BY <1>2, <1>4 DEF RecordInv, Stands, Moved
<1>6. /\ AllIn(s, "state") = AllIn(r, "state") \cup {Len(r) + 1}
      /\ AllIn(s, "input") = AllIn(r, "input") /\ AllIn(s, "outcome") = AllIn(r, "outcome")
      /\ s[Len(r) + 1] = e /\ \A k : \A i \in AllIn(r, k) : s[i] = r[i]
  BY AllAdds DEF Adds, AllIn
<1>7. LatestIn(s) = LatestIn(r) /\ LatestIn(r) \in Nat
  BY LatestAdds, RecordTyped
<1>8. e.n <= LatestIn(r)
  <2>1. PICK i \in AllIn(r, "input") : e.id = r[i].id
    BY DEF IdsIn
  <2>2. e.n = r[i].sub.n
    BY <2>1, SubIs DEF RecordInv
  <2> QED
    BY <1>7, <2>2 DEF RecordInv, Launched
<1>9. Launched(s)
  BY <1>6, <1>7, <1>8 DEF RecordInv, Launched
<1>10. \A id \in IdsIn(r) : SubIn(s, id) = SubIn(r, id)
  BY <1>1, SubAdds DEF RecordInv
<1>11. \A n : \A id \in OpenIn(s, n) :
         \/ id \in OpenIn(r, n) /\ id # e.id
         \/ id = e.id /\ n = e.n /\ e.word \in {"pending", "delivered"}
  <2> SUFFICES ASSUME NEW n, NEW id \in OpenIn(s, n)
               PROVE  \/ id \in OpenIn(r, n) /\ id # e.id
                      \/ id = e.id /\ n = e.n /\ e.word \in {"pending", "delivered"}
    OBVIOUS
  <2>1. /\ id \in IdsIn(r) /\ SubIn(r, id).what = "note" /\ SubIn(r, id).n = n
        /\ StateIn(s, id) \in {"pending", "delivered"}
    BY <1>2, <1>10 DEF OpenIn
  <2> QED
    BY <1>2, <1>4, <2>1 DEF OpenIn
<1>12. SettledAtOutcome(s)
  BY <1>6, <1>11, ZenonT(60) DEF RecordInv, SettledAtOutcome
<1>13. Judged(s)
  BY JudgedAdds DEF RecordInv
<1> QED
  BY <1>1, <1>3, <1>5, <1>9, <1>11, <1>12, <1>13 DEF RecordInv

\* A command's answer: stale only when the record is not the one its input made.
LEMMA AddsDecided ==
  ASSUME NEW r \in Seq(Entries), NEW e \in Entries, NEW s, Adds(r, e, s), RecordInv(r),
         e.kind = "decided", e.id \in IdsIn(r), e.word = "stale" => e.ver + 1 # Len(r)
  PROVE  RecordInv(s) /\ \A n : OpenIn(s, n) = OpenIn(r, n)
<1>1. Once(s)
  BY OnceAdds DEF RecordInv
<1>2. IdsIn(s) = IdsIn(r)
  BY IdsAdds
<1>3. Numbered(s)
  BY <1>2 DEF RecordInv, Numbered
<1>4. \A id : StateIn(s, id) = StateIn(r, id)
  BY StateAdds
<1>5. Stands(s)
  BY <1>2, <1>4 DEF RecordInv, Stands
<1>6. /\ AllIn(s, "input") = AllIn(r, "input") /\ AllIn(s, "state") = AllIn(r, "state")
      /\ AllIn(s, "outcome") = AllIn(r, "outcome")
      /\ s[Len(r) + 1] = e /\ \A k : \A i \in AllIn(r, k) : s[i] = r[i]
  BY AllAdds DEF Adds, AllIn
<1>7. LatestIn(s) = LatestIn(r)
  BY LatestAdds
<1>8. Launched(s)
  BY <1>6, <1>7 DEF RecordInv, Launched
<1>9. \A id \in IdsIn(r) : SubIn(s, id) = SubIn(r, id)
  BY <1>1, SubAdds DEF RecordInv
<1>10. \A n : OpenIn(s, n) = OpenIn(r, n)
  BY <1>2, <1>4, <1>9 DEF OpenIn
<1>11. SettledAtOutcome(s)
  BY <1>6, <1>10 DEF RecordInv, SettledAtOutcome
<1>12. ASSUME e.word = "stale", \A j \in OwnIn(s, Len(r) + 1) : e.ver < j
       PROVE  \E j \in e.ver + 1 .. Len(r) + 1 - 1 : j \notin OwnIn(s, Len(r) + 1)
  <2>1. PICK x \in AllIn(r, "input") : e.id = r[x].id
    BY DEF IdsIn
  <2>2. OwnIn(s, Len(r) + 1) = {x}
    BY <1>6, <2>1 DEF OwnIn, RecordInv, Once
  <2>3. x \in 1 .. Len(r) /\ Len(r) \in Nat /\ e.ver \in Nat
    BY RecordTyped DEF AllIn, Entries
  <2>4. e.ver < x /\ e.ver + 1 # Len(r)
    BY <1>12, <2>2
  <2>5. Len(r) \in e.ver + 1 .. Len(r) + 1 - 1 /\ e.ver + 1 \in e.ver + 1 .. Len(r) + 1 - 1
    BY <2>3, <2>4
  <2> QED
    BY <2>2, <2>4, <2>5
<1>13. Judged(s)
  BY <1>12, JudgedAdds DEF RecordInv
<1> QED
  BY <1>1, <1>3, <1>5, <1>8, <1>10, <1>11, <1>13 DEF RecordInv

------------------------------------------------------------------------------
(* Types.                                                                  *)

LEMMA EntryTyped ==
  ASSUME NEW k \in EntryKinds, NEW n \in Nat
  PROVE  /\ Entry(k, n) = [kind |-> k, n |-> n, id |-> 0, sub |-> NoSubmission, word |-> "none",
                           why |-> "none", key |-> 0, ver |-> 0]
         /\ Entry(k, n) \in Entries /\ NoSubmission \in Subs /\ NoRequest \in Asks
  BY DEF Entry, Entries, NoSubmission, Submission, Subs, Whats, Words, Reasons, NoRequest, Asks

\* The entries that steps append.
InputOf(n, id, sub) == [Entry("input", n) EXCEPT !.id = id, !.sub = sub, !.word = "pending"]
DecidedOf(n, id, key, ver, word) ==
  [Entry("decided", n) EXCEPT !.id = id, !.key = key, !.ver = ver, !.word = word]
StateOfNote(n, id, word, why) == [Entry("state", n) EXCEPT !.id = id, !.word = word, !.why = why]
OutcomeOf(n, word) == [Entry("outcome", n) EXCEPT !.word = word]

LEMMA InputEntry ==
  ASSUME NEW n \in Nat, NEW id \in Nat, NEW sub \in Subs, NEW e, e = InputOf(n, id, sub)
  PROVE  e \in Entries /\ e.kind = "input" /\ e.id = id /\ e.sub = sub /\ e.word = "pending"
<1>1. e = [kind |-> "input", n |-> n, id |-> id, sub |-> sub, word |-> "pending",
           why |-> "none", key |-> 0, ver |-> 0]
  BY DEF Entry, InputOf
<1>2. NoSubmission \in Subs
  BY EntryTyped DEF EntryKinds
<1>3. /\ {"input", "decided", "state", "outcome"} \subseteq EntryKinds /\ Moved \subseteq Words
      /\ {"none", "pending", "accepted", "stale", "completed", "cancelled"} \subseteq Words
      /\ "none" \in Reasons
  BY DEF EntryKinds, Words, Moved, Reasons
<1>4. e \in Entries
  BY <1>1, <1>2, <1>3 DEF Entries
<1> QED
  BY ONLY <1>1, <1>4

LEMMA DecidedEntry ==
  ASSUME NEW n \in Nat, NEW id \in Nat, NEW key \in Nat, NEW ver \in Nat,
         NEW word, word = "accepted" \/ word = "stale", NEW e, e = DecidedOf(n, id, key, ver, word)
  PROVE  e \in Entries /\ e.kind = "decided" /\ e.id = id /\ e.ver = ver /\ e.word = word
<1>1. e = [kind |-> "decided", n |-> n, id |-> id, sub |-> NoSubmission, word |-> word,
           why |-> "none", key |-> key, ver |-> ver]
  BY DEF Entry, DecidedOf
<1>2. NoSubmission \in Subs
  BY EntryTyped DEF EntryKinds
<1>3. /\ {"input", "decided", "state", "outcome"} \subseteq EntryKinds /\ Moved \subseteq Words
      /\ {"none", "pending", "accepted", "stale", "completed", "cancelled"} \subseteq Words
      /\ "none" \in Reasons
  BY DEF EntryKinds, Words, Moved, Reasons
<1>4. e \in Entries
  BY <1>1, <1>2, <1>3 DEF Entries
<1> QED
  BY ONLY <1>1, <1>4

LEMMA StateEntry ==
  ASSUME NEW n \in Nat, NEW id \in Nat, NEW word \in Moved, NEW why \in Reasons,
         NEW e, e = StateOfNote(n, id, word, why)
  PROVE  e \in Entries /\ e.kind = "state" /\ e.n = n /\ e.id = id /\ e.word = word /\ e.why = why
<1>1. e = [kind |-> "state", n |-> n, id |-> id, sub |-> NoSubmission, word |-> word,
           why |-> why, key |-> 0, ver |-> 0]
  BY DEF Entry, StateOfNote
<1>2. NoSubmission \in Subs
  BY EntryTyped DEF EntryKinds
<1>3. /\ {"input", "decided", "state", "outcome"} \subseteq EntryKinds /\ Moved \subseteq Words
      /\ {"none", "pending", "accepted", "stale", "completed", "cancelled"} \subseteq Words
      /\ "none" \in Reasons
  BY DEF EntryKinds, Words, Moved, Reasons
<1>4. e \in Entries
  BY <1>1, <1>2, <1>3 DEF Entries
<1> QED
  BY ONLY <1>1, <1>4

LEMMA OutcomeEntry ==
  ASSUME NEW n \in Nat, NEW word \in {"completed", "cancelled"}, NEW e, e = OutcomeOf(n, word)
  PROVE  e \in Entries /\ e.kind = "outcome" /\ e.n = n /\ e.id = 0
<1>1. e = [kind |-> "outcome", n |-> n, id |-> 0, sub |-> NoSubmission, word |-> word,
           why |-> "none", key |-> 0, ver |-> 0]
  BY DEF Entry, OutcomeOf
<1>2. NoSubmission \in Subs
  BY EntryTyped DEF EntryKinds
<1>3. /\ {"input", "decided", "state", "outcome"} \subseteq EntryKinds /\ Moved \subseteq Words
      /\ {"none", "pending", "accepted", "stale", "completed", "cancelled"} \subseteq Words
      /\ "none" \in Reasons
  BY DEF EntryKinds, Words, Moved, Reasons
<1>4. e \in Entries
  BY <1>1, <1>2, <1>3 DEF Entries
<1> QED
  BY ONLY <1>1, <1>4

\* What is asked is of the latest attempt, at a version that a record was.
LEMMA AskedIs ==
  ASSUME TypeOK, LatestAttempt > 0, NEW clock \in Nat, NEW q \in Asked(clock)
  PROVE  q \in Asks /\ q.sub.n = LatestAttempt
<1>1. LatestAttempt \in Nat /\ Len(record) \in Nat
  BY Reads, RecordTyped DEF TypeOK
<1>2. Len(record) # 0
  <2>1. ASSUME Len(record) = 0 PROVE FALSE
    <3>1. AllIn(record, "intent") = {}
      <4>1. AllIn(record, "intent") \subseteq 1 .. 0
        BY <2>1, RecordTyped DEF TypeOK
      <4> QED
        BY <4>1
    <3>2. LatestIn(record) = 0
      BY <3>1, FS_EmptySet DEF LatestIn
    <3> QED
      BY <3>2, Reads
  <2> QED
    BY <2>1
<1>3. \A d \in Lifetimes : d \in Nat
  BY OperatorInputAssumption
<1>4. ASSUME NEW k \in {"note", "abort"}, NEW b \in Bodies, NEW d \in Lifetimes, NEW old \in {0, 1}
      PROVE  /\ [sub |-> Submission(k, b, LatestAttempt, clock + d), ver |-> 0] \in Asks
             /\ [sub |-> Submission(k, b, LatestAttempt, clock + d), ver |-> Len(record) - old] \in Asks
             /\ Submission(k, b, LatestAttempt, clock + d).n = LatestAttempt
  <2>1. clock + d \in Nat /\ Len(record) - old \in Nat
    BY <1>1, <1>2, <1>3
  <2>2. Submission(k, b, LatestAttempt, clock + d) \in Subs
    BY <1>1, <2>1 DEF Submission, Subs, Whats
  <2> QED
    BY <2>1, <2>2 DEF Asks, Submission
<1>5. PICK k \in {"note", "abort"}, b \in Bodies, d \in Lifetimes, old \in {0, 1} :
        \/ q = [sub |-> Submission(k, b, LatestAttempt, clock + d), ver |-> 0]
        \/ q = [sub |-> Submission(k, b, LatestAttempt, clock + d), ver |-> Len(record) - old]
  BY DEF Asked
<1>6. PICK s : s = Submission(k, b, LatestAttempt, clock + d)
  OBVIOUS
<1>7. PICK l : l = LatestAttempt
  OBVIOUS
<1>8. PICK v : v = Len(record) - old
  OBVIOUS
<1>9. /\ [sub |-> s, ver |-> 0] \in Asks /\ [sub |-> s, ver |-> v] \in Asks /\ s.n = l
  BY <1>4, <1>6, <1>7, <1>8
<1>10. q = [sub |-> s, ver |-> 0] \/ q = [sub |-> s, ver |-> v]
  BY <1>5, <1>6, <1>8
<1> QED
  BY <1>7, <1>9, <1>10

LEMMA ReleaseTyped == ASSUME Release PROVE LocalTyped'
<1>1. NoRequest \in Asks
  BY EntryTyped DEF EntryKinds
<1> QED
  BY <1>1 DEF Release, LocalTyped, Steps

LEMMA KillTyped ==
  ASSUME TypeOK, NEW n, Kill(n)
  PROVE  agents' \subseteq Attempts /\ gate' \in [Gates -> GateStates]
<1>1. Idle \in GateStates
  BY DEF Idle, GateStates
<1> QED
  BY <1>1 DEF Kill, TypeOK, ChildTyped

\* One more entry, of its type.
LEMMA AddTyped == ASSUME TypeOK, NEW e \in Entries, Add(e) PROVE record' \in Seq(Entries)
  BY DEF Add, TypeOK

LEMMA TurnIs ==
  ASSUME TypeOK, NEW id, Turn(id) PROVE id \in todo /\ id \in Ids /\ id \in Nat /\ pc = "settling"
<1>1. todo \subseteq Nat /\ todo # {} /\ todo \subseteq Ids
  BY DEF TypeOK, LocalTyped, Turn, Ids
<1> QED
  BY <1>1, LeastOf DEF Turn

\* An entry that moves a note.
LEMMA MoveIs ==
  ASSUME TypeOK, NEW id \in Ids, NEW word \in Moved, Move(id, word)
  PROVE  \E e \in Entries :
           /\ record' = Append(record, e) /\ record' \in Seq(Entries)
           /\ e.kind = "state" /\ e.n = sup /\ e.id = id /\ e.word = word /\ e.why = Why(word)
<1>1. PICK n \in Nat : n = sup
  BY DEF TypeOK, LocalTyped, Attempts
<1>2. PICK why \in Reasons : why = Why(word)
  BY DEF Why, Reasons
<1>3. PICK e : e = StateOfNote(n, id, word, why)
  OBVIOUS
<1>4. id \in Nat
  BY DEF Ids
<1>5. /\ e \in Entries /\ e.kind = "state" /\ e.n = n /\ e.id = id /\ e.word = word
      /\ e.why = why
  BY <1>3, <1>4, StateEntry
<1>6. Add(e)
  BY <1>1, <1>2, <1>3 DEF Move, StateOfNote
<1> QED
  BY <1>1, <1>2, <1>5, <1>6, AddTyped DEF Add

LEMMA DeskTyped ==
  ASSUME TypeOK, NEW id \in Ids, Desk(id) PROVE TypeOK'
<1>0. /\ record \in Seq(Entries) /\ LocalTyped /\ ChildTyped /\ placed \subseteq Ids
      /\ "settling" \in Steps /\ "placed" \in Steps /\ "withdrawn" \in Steps
  BY DEF TypeOK, Steps
<1>1. CASE ExpirePending(id)
  <2>1. record' \in Seq(Entries)
    BY <1>1, MoveIs DEF ExpirePending, Moved
  <2> QED
    BY <1>0, <1>1, <2>1 DEF ExpirePending, Turned, TypeOK, LocalTyped, ChildTyped, child
<1>2. CASE Place(id)
  BY <1>0, <1>2 DEF Place, TypeOK, LocalTyped, ChildTyped, child
<1>3. CASE PlaceFails(id)
  BY <1>0, <1>3 DEF PlaceFails, Turned, TypeOK, LocalTyped, ChildTyped, child
<1>4. CASE Deliver(id)
  <2>1. record' \in Seq(Entries)
    BY <1>4, MoveIs DEF Deliver, Moved
  <2> QED
    BY <1>0, <1>4, <2>1 DEF Deliver, Turned, TypeOK, LocalTyped, ChildTyped, child
<1>5. CASE Withdraw(id)
  BY <1>0, <1>5 DEF Withdraw, TypeOK, LocalTyped, ChildTyped, child, desk
<1>6. CASE Settle(id)
  <2>1. record' \in Seq(Entries)
    BY <1>6, MoveIs DEF Settle, Moved
  <2> QED
    BY <1>0, <1>6, <2>1 DEF Settle, Turned, TypeOK, LocalTyped, ChildTyped, child
<1>7. CASE LeaveOpen(id)
  BY <1>0, <1>7 DEF LeaveOpen, Turned, TypeOK, LocalTyped, ChildTyped, child
<1> QED
  BY <1>1, <1>2, <1>3, <1>4, <1>5, <1>6, <1>7 DEF Desk

LEMMA GateTyped ==
  ASSUME TypeOK, NEW g \in Gates, Gate(g) PROVE TypeOK'
<1>0. /\ gate[g] \in GateStates /\ Idle \in GateStates /\ LocalTyped /\ ChildTyped
      /\ now \in Nat /\ placed \subseteq Ids
  BY DEF TypeOK, ChildTyped, Idle, GateStates
<1>1. ASSUME NEW n \in Attempts, NEW clock \in Nat, NEW names, names \subseteq Ids
      PROVE  Looking(n, clock, names) \in GateStates
  BY <1>0, <1>1 DEF Looking, GateStates
<1>2. ASSUME gate[g].names # {} PROVE Least(gate[g].names) \in Ids /\ gate[g].n \in Attempts \cup {0}
  <2>1. gate[g].names \subseteq Nat /\ gate[g].names \subseteq Ids
    BY <1>0 DEF GateStates, Ids
  <2> QED
    BY <1>0, <1>2, <2>1, LeastOf DEF GateStates
<1>3. CASE \E n \in Attempts : GateCalls(g, n)
  <2>1. PICK n \in Attempts : GateCalls(g, n)
    BY <1>3
  <2>2. Looking(n, now, {id \in placed : Sub(id).n = n}) \in GateStates
    BY <1>0, <1>1
  <2>3. log' \in [Attempts -> Seq(Ids \cup {0})]
    BY <1>0, <2>1 DEF GateCalls, ChildTyped
  <2>4. gate' \in [Gates -> GateStates]
    BY <1>0, <2>1, <2>2 DEF GateCalls, ChildTyped
  <2> QED
    BY <2>1, <2>3, <2>4 DEF GateCalls, TypeOK, LocalTyped, ChildTyped, local, desk
<1>4. CASE GatePasses(g)
  <2>1. PICK c : c = Looking(gate[g].n, gate[g].clock, gate[g].names \ {Least(gate[g].names)})
    OBVIOUS
  <2>2. c \in GateStates
    BY <1>0, <2>1 DEF Looking, GateStates
  <2>3. gate' \in [Gates -> GateStates]
    BY <1>0, <1>4, <2>1, <2>2 DEF GatePasses, ChildTyped
  <2> QED
    BY <1>4, <2>3 DEF GatePasses, TypeOK, LocalTyped, ChildTyped, local, desk
<1>5. CASE GateHolds(g)
  <2>1. Least(gate[g].names) \in Ids
    BY <1>2, <1>5 DEF GateHolds
  <2>2. gate' \in [Gates -> GateStates]
    BY <1>0, <1>5, <2>1 DEF GateHolds, ChildTyped, GateStates
  <2> QED
    BY <1>5, <2>2 DEF GateHolds, TypeOK, LocalTyped, ChildTyped, local, desk
<1>6. CASE GateReturns(g)
  <2>1. gate[g].holds \in Ids
    BY <1>0, <1>6 DEF GateReturns, GateStates
  <2>2. log' \in [Attempts -> Seq(Ids \cup {0})]
    <3>0. gate[g].n \in Attempts \cup {0}
      BY <1>0 DEF GateStates
    <3>1. PICK n \in Attempts \cup {0}, h \in Ids \cup {0} :
            log' = [log EXCEPT ![n] = Append(@, h)]
      BY <1>6, <2>1, <3>0 DEF GateReturns
    <3>2. \A x \in Attempts : Append(log[x], h) \in Seq(Ids \cup {0})
      BY <1>0 DEF ChildTyped
    <3> QED
      BY <1>0, <3>1, <3>2 DEF ChildTyped
  <2>3. gate' \in [Gates -> GateStates]
    BY <1>0, <1>6 DEF GateReturns, ChildTyped
  <2> QED
    BY <1>6, <2>2, <2>3 DEF GateReturns, TypeOK, LocalTyped, ChildTyped, local, desk
<1> QED
  BY <1>3, <1>4, <1>5, <1>6 DEF Gate

\* The steps that submit and take requests.
LEMMA TakingTyped ==
  ASSUME TypeOK, Numbered(record),
         \/ \E v \in {"input", "run", "reconcile"} : TakeLock(v)
         \/ Ask \/ TakeRequest \/ OwnSubmission \/ RefuseInput \/ RecordInput \/ AlreadyRecorded
         \/ DecideCommand \/ Applied \/ RemoveFails \/ Drained
  PROVE  TypeOK'
<1>0. /\ record \in Seq(Entries) /\ LocalTyped /\ ChildTyped
      /\ at \in Nat /\ now \in Nat /\ NoRequest \in Asks /\ cur \in Asks
      /\ {"draining", "taking", "commanding", "taken", "run", "reconcile", "desk"} \subseteq Steps
  BY EntryTyped DEF TypeOK, LocalTyped, Steps, EntryKinds
<1>1. ASSUME NEW S, S \subseteq Requests, S # {} PROVE Least(S) \in S
  <2>1. S \subseteq Nat
    BY <1>1 DEF Requests
  <2> QED
    BY <1>1, <2>1, LeastOf
<1>2. LatestAttempt \in Nat
  BY <1>0, Reads, RecordTyped
<1>3. CASE \E v \in {"input", "run", "reconcile"} : TakeLock(v)
  <2>1. Queued \subseteq Requests
    BY DEF Queued
  <2> QED
    BY <1>0, <1>3, <2>1 DEF TakeLock, TypeOK, LocalTyped, ChildTyped, child, desk
<1>4. CASE Ask
  <2>1. PICK q \in Asked(now) : ask' = [ask EXCEPT ![Least(Unused)] = q]
    BY <1>4 DEF Ask
  <2>2. q \in Asks
    BY <1>0, <1>2, <1>4, <2>1, AskedIs DEF Ask
  <2>3. Unused \subseteq Requests
    BY DEF Unused
  <2> QED
    BY <1>4, <2>1, <2>2 DEF Ask, TypeOK, LocalTyped, ChildTyped, child, local, desk
<1>5. CASE TakeRequest
  <2>1. Least(batch) \in Requests
    BY <1>0, <1>1, <1>5 DEF TakeRequest, LocalTyped
  <2> QED
    BY <1>0, <1>5, <2>1 DEF TakeRequest, TypeOK, LocalTyped, ChildTyped, child, desk
<1>6. CASE OwnSubmission
  <2>1. CASE LatestAttempt = 0
    BY <1>0, <1>6, <2>1, ReleaseTyped DEF OwnSubmission, TypeOK, ChildTyped, child
  <2>2. CASE LatestAttempt # 0
    <3>1. cur' \in Asks
      BY <1>0, <1>2, <1>6, <2>2, AskedIs DEF OwnSubmission
    <3> QED
      BY <1>0, <1>6, <2>2, <3>1 DEF OwnSubmission, TypeOK, LocalTyped, ChildTyped, child, desk
  <2> QED
    BY <2>1, <2>2
<1>7. CASE RefuseInput
  BY <1>0, <1>7 DEF RefuseInput, Goto, TypeOK, LocalTyped, ChildTyped, child, desk
<1>8. CASE RecordInput
  <2>1. PICK e : e = InputOf(cur.sub.n, NextId, cur.sub)
    OBVIOUS
  <2>2. NextId \in Nat
    BY Reads, IdsAre DEF NextId
  <2>3. cur.sub \in Subs /\ cur.sub.n \in Nat
    BY <1>0 DEF Asks, Subs
  <2>4. Add(e)
    BY <1>8, <2>1 DEF RecordInput, InputOf
  <2>5. record' \in Seq(Entries)
    BY <2>1, <2>2, <2>3, <2>4, InputEntry, AddTyped
  <2> QED
    BY <1>0, <1>8, <2>5 DEF RecordInput, AfterRecord, TypeOK, LocalTyped, ChildTyped, child, desk
<1>9. CASE AlreadyRecorded
  BY <1>0, <1>9 DEF AlreadyRecorded, AfterRecord, Goto, TypeOK, LocalTyped, ChildTyped, child, desk
<1>10. CASE DecideCommand
  <2>1. record' \in Seq(Entries)
    <3>1. CASE UNCHANGED record
      BY <1>0, <3>1
    <3>2. CASE ~ UNCHANGED record
      <4>1. PICK id \in RecordedAs(cur.sub) :
              Add(DecidedOf(LatestAttempt, id, from, cur.ver,
                            IF DecidedAt(cur) = Len(record) THEN "accepted" ELSE "stale"))
        BY <1>10, <3>2 DEF DecideCommand, DecidedOf
      <4>2. id \in Nat /\ from \in Nat /\ cur.ver \in Nat
        BY <1>0, Reads, RecordTyped DEF RecordedAs, LocalTyped, Requests, Asks
      <4>3. PICK word \in {"accepted", "stale"} :
              word = IF DecidedAt(cur) = Len(record) THEN "accepted" ELSE "stale"
        OBVIOUS
      <4>4. PICK e : e = DecidedOf(LatestAttempt, id, from, cur.ver, word)
        OBVIOUS
      <4>5. e \in Entries
        <5>1. PICK n \in Nat : n = LatestAttempt
          BY <1>2
        <5>2. PICK key \in Nat, ver \in Nat : key = from /\ ver = cur.ver
          BY <4>2
        <5>3. e = DecidedOf(n, id, key, ver, word)
          BY <4>4, <5>1, <5>2
        <5> QED
          BY <4>2, <5>3, DecidedEntry
      <4> QED
        BY <4>1, <4>3, <4>4, <4>5, AddTyped
    <3> QED
      BY <3>1, <3>2
  <2> QED
    BY <1>0, <1>10, <2>1 DEF DecideCommand, Goto, TypeOK, LocalTyped, ChildTyped, child, desk
<1>11. CASE Applied
  <2>1. CASE from = 0
    BY <1>0, <1>11, <2>1, ReleaseTyped DEF Applied, TypeOK, ChildTyped, child
  <2>2. CASE from # 0
    BY <1>0, <1>11, <2>2 DEF Applied, TypeOK, LocalTyped, ChildTyped, child, desk
  <2> QED
    BY <2>1, <2>2
<1>12. CASE RemoveFails
  <2>1. CASE sup = 0
    BY <1>0, <1>12, <2>1, ReleaseTyped DEF RemoveFails, TypeOK, ChildTyped, child
  <2>2. CASE sup # 0
    BY <1>0, <1>12, <2>2 DEF RemoveFails, TypeOK, LocalTyped, ChildTyped, child
  <2> QED
    BY <2>1, <2>2
<1>13. CASE Drained
  BY <1>0, <1>13 DEF Drained, TypeOK, LocalTyped, ChildTyped, child
<1> QED
  BY <1>3, <1>4, <1>5, <1>6, <1>7, <1>8, <1>9, <1>10, <1>11, <1>12, <1>13

\* What is read back of a log is what some line of it names.
LEMMA ReturnedIs ==
  ASSUME TypeOK, NEW n \in Attempts
  PROVE  Returned(n) \subseteq Ids
         /\ \A id \in Returned(n) : \E k \in DOMAIN log[n] : log[n][k] = id
<1>1. log[n] \in Seq(Ids \cup {0})
  BY DEF TypeOK, ChildTyped
<1>2. \A id \in Returned(n) : \E k \in DOMAIN log[n] : log[n][k] = id /\ id # 0
  BY DEF Returned
<1>3. \A k \in DOMAIN log[n] : log[n][k] \in Ids \cup {0}
  BY <1>1
<1> QED
  BY <1>2, <1>3

\* The steps that launch, watch and end an attempt.
LEMMA WatchingTyped ==
  ASSUME TypeOK, Numbered(record), Supervising,
         \/ Launch \/ Poll \/ Decide \/ AgentEnds \/ LeaveLive \/ Conclude \/ Reconcile \/ Crash
         \/ BeginPass \/ NothingOpen \/ PassEnds \/ Tick
  PROVE  TypeOK'
<1>0. /\ record \in Seq(Entries) /\ LocalTyped /\ ChildTyped
      /\ at \in Nat /\ now \in Nat
      /\ {"watching", "draining", "ended", "deciding", "concluding", "settling"} \subseteq Steps
  BY DEF TypeOK, LocalTyped, Steps
<1>1. LatestAttempt \in Nat
  BY <1>0, Reads, RecordTyped
<1>2. CASE Launch
  <2>1. CASE LatestAttempt < MaxAttempts /\ \A n \in 1 .. LatestAttempt : ~ Live(n)
    <3>1. LatestAttempt + 1 \in Attempts /\ LatestAttempt + 1 \in Nat
      BY <1>1, <2>1, OperatorInputAssumption DEF Attempts
    <3>2. Entry("intent", LatestAttempt + 1) \in Entries
      BY <3>1, EntryTyped DEF EntryKinds
    <3>3. record' \in Seq(Entries)
      BY <1>2, <2>1, <3>2, AddTyped DEF Launch
    <3> QED
      BY <1>0, <1>2, <2>1, <3>1, <3>3 DEF Launch, TypeOK, LocalTyped, ChildTyped
  <2>2. CASE ~ (LatestAttempt < MaxAttempts /\ \A n \in 1 .. LatestAttempt : ~ Live(n))
    BY <1>0, <1>2, <2>2, ReleaseTyped DEF Launch, TypeOK, ChildTyped
  <2> QED
    BY <2>1, <2>2
<1>3. CASE Poll
  <2>1. Queued \subseteq Requests
    BY DEF Queued
  <2> QED
    BY <1>0, <1>3, <2>1 DEF Poll, TypeOK, LocalTyped, ChildTyped, child, desk
<1>4. CASE Decide
  <2>1. /\ gate' \in [Gates -> GateStates] /\ agents' \subseteq Attempts
        /\ pc' \in Steps /\ said' \in {"none", "completed", "cancelled"}
    BY <1>0, <1>4, KillTyped DEF Decide, LocalTyped, ChildTyped
  <2> QED
    BY <1>0, <1>4, <2>1 DEF Decide, TypeOK, LocalTyped, ChildTyped, desk
<1>5. CASE AgentEnds
  BY <1>0, <1>5, KillTyped DEF AgentEnds, TypeOK, LocalTyped, ChildTyped, desk
<1>6. CASE LeaveLive
  BY <1>0, <1>6, ReleaseTyped DEF LeaveLive, TypeOK, ChildTyped, child
<1>7. CASE Conclude
  <2>1. PICK n \in Nat, word \in {"completed", "cancelled"} : n = sup /\ word = said
    BY <1>0, <1>7 DEF Conclude, Supervising, LocalTyped, Attempts
  <2>2. PICK e : e = OutcomeOf(n, word)
    OBVIOUS
  <2>3. e \in Entries /\ Add(e)
    BY <1>7, <2>1, <2>2, OutcomeEntry DEF Conclude, OutcomeOf
  <2>4. record' \in Seq(Entries)
    BY <2>3, AddTyped
  <2> QED
    BY <1>0, <1>7, <2>4, ReleaseTyped DEF Conclude, TypeOK, ChildTyped, child
<1>8. CASE Reconcile
  <2>1. Entry("reconciled", LatestAttempt) \in Entries
    BY <1>1, EntryTyped DEF EntryKinds
  <2>2. record' \in Seq(Entries)
    BY <1>0, <1>8, <2>1, AddTyped DEF Reconcile
  <2> QED
    BY <1>0, <1>8, <2>2, ReleaseTyped DEF Reconcile, TypeOK, ChildTyped, child
<1>9. CASE Crash
  <2>1. gate' \in [Gates -> GateStates] /\ agents' \subseteq Attempts
    BY <1>0, <1>9, KillTyped DEF Crash, ChildTyped
  <2> QED
    BY <1>0, <1>9, <2>1, ReleaseTyped DEF Crash, TypeOK, ChildTyped
<1>10. CASE BeginPass
  <2>1. at' \in Nat
    BY <1>0, <1>10 DEF BeginPass
  <2>2. sup \in Attempts
    BY <1>0, <1>10 DEF BeginPass, Supervising, LocalTyped
  <2>3. todo' \subseteq Ids
    BY <1>10, IdsAre, Reads DEF BeginPass, OpenIn
  <2>4. seen' \subseteq Ids
    BY <1>10, <2>2, ReturnedIs DEF BeginPass
  <2> QED
    BY <1>0, <1>10, <2>1, <2>3, <2>4 DEF BeginPass, TypeOK, LocalTyped, ChildTyped, child
<1>11. CASE NothingOpen
  BY <1>0, <1>11 DEF NothingOpen, Goto, TypeOK, LocalTyped, ChildTyped, child, desk
<1>12. CASE PassEnds
  BY <1>0, <1>12 DEF PassEnds, TypeOK, LocalTyped, ChildTyped, child, desk
<1>13. CASE Tick
  BY <1>0, <1>13 DEF Tick, TypeOK, LocalTyped, ChildTyped, child, local, desk
<1> QED
  BY <1>2, <1>3, <1>4, <1>5, <1>6, <1>7, <1>8, <1>9, <1>10, <1>11, <1>12, <1>13

LEMMA TypeStep ==
  ASSUME TypeOK, Numbered(record), Supervising, [Next]_vars PROVE TypeOK'
<1>1. CASE Next
  BY <1>1, TakingTyped, WatchingTyped, DeskTyped, GateTyped DEF Next, Supervise
<1>2. CASE UNCHANGED vars
  BY <1>2 DEF vars, TypeOK, LocalTyped, ChildTyped, child, local, desk
<1> QED
  BY <1>1, <1>2

------------------------------------------------------------------------------
(* What a step keeps.                                                      *)

\* A later record of the same inputs and attempts, with more beside.
Keeps(r, s) ==
  /\ LatestIn(r) <= LatestIn(s)
  /\ \A id \in IdsIn(r) : id \in IdsIn(s) /\ SubIn(s, id) = SubIn(r, id)

\* One in which no note has moved.
Still(r, s) ==
  /\ Keeps(r, s)
  /\ \A id \in IdsIn(r) : StateIn(s, id) = StateIn(r, id)
  /\ AllIn(s, "state") = AllIn(r, "state") /\ \A i \in AllIn(r, "state") : s[i] = r[i]

LEMMA StillSame == ASSUME NEW r \in Seq(Entries) PROVE Still(r, r)
<1>1. LatestIn(r) \in Nat
  BY RecordTyped
<1> QED
  BY <1>1 DEF Still, Keeps

LEMMA KeepsAdds ==
  ASSUME NEW r \in Seq(Entries), NEW e \in Entries, NEW s, Adds(r, e, s), Once(r), Once(s)
  PROVE  Keeps(r, s)
<1>1. LatestIn(r) \in Nat /\ LatestIn(r) <= LatestIn(s)
  BY LatestAdds, RecordTyped
<1>2. \A id \in IdsIn(r) : id \in IdsIn(s)
  BY IdsAdds
<1>3. \A id \in IdsIn(r) : SubIn(s, id) = SubIn(r, id)
  BY SubAdds
<1> QED
  BY <1>1, <1>2, <1>3 DEF Keeps

LEMMA StillAdds ==
  ASSUME NEW r \in Seq(Entries), NEW e \in Entries, NEW s, Adds(r, e, s), Once(r), Once(s),
         e.kind # "state", e.kind = "decided" \/ e.id \notin IdsIn(r)
  PROVE  Still(r, s)
<1>1. Keeps(r, s)
  BY KeepsAdds
<1>2. \A id \in IdsIn(r) : StateIn(s, id) = StateIn(r, id)
  BY StateAdds
<1>3. AllIn(s, "state") = AllIn(r, "state")
  BY AllAdds
<1>4. \A i \in AllIn(r, "state") : s[i] = r[i]
  BY DEF Adds, AllIn
<1> QED
  BY <1>1, <1>2, <1>3, <1>4 DEF Still

\* An input is of an attempt that was launched.
LEMMA OfLaunched ==
  ASSUME NEW r \in Seq(Entries), RecordInv(r), NEW id \in IdsIn(r)
  PROVE  SubIn(r, id).n \in Nat /\ SubIn(r, id).n # 0 /\ SubIn(r, id).n <= LatestIn(r)
<1>1. PICK i \in AllIn(r, "input") : id = r[i].id
  BY DEF IdsIn
<1>2. SubIn(r, id) = r[i].sub
  BY <1>1, SubIs DEF RecordInv
<1>3. r[i].sub.n \in 1 .. LatestIn(r) /\ LatestIn(r) \in Nat
  BY <1>1, RecordTyped DEF RecordInv, Launched
<1> QED
  BY <1>2, <1>3

\* The supervised attempt is given up or is a new one, or a note whose file is
\* in place has its delivery recorded, if there is such a note.
HoldsOn ==
  \/ sup' = 0
  \/ sup' = LatestIn(record) + 1
  \/ sup' = sup /\ pc # "placed"
  \/ sup' = sup /\ StateIn(record', Least(todo)) # "pending"

LEMMA ShowedStays ==
  ASSUME TypeOK, RecordInv(record), Keeps(record, record'),
         NEW id, NEW n, Showed(id, n), HoldsOn,
         StateIn(record', id) = StateIn(record, id) \/ StateIn(record', id) # "pending"
  PROVE  Showed(id, n)'
<1>1. id \in IdsIn(record) /\ SubIn(record, id).n = n
  BY DEF Showed
<1>2. n \in Nat /\ n # 0 /\ n <= LatestIn(record) /\ LatestIn(record) \in Nat
  BY <1>1, OfLaunched, RecordTyped DEF TypeOK
<1>3. id \in IdsIn(record') /\ SubIn(record', id).n = n
  BY <1>1 DEF Keeps
<1>4. n # LatestIn(record) + 1
  BY <1>2
<1> QED
  BY <1>2, <1>3, <1>4 DEF Showed, HoldsOn

LEMMA ShowingStays ==
  ASSUME TypeOK, RecordInv(record), Showing, Keeps(record, record'), HoldsOn,
         \A id \in IdsIn(record) :
           StateIn(record', id) = StateIn(record, id) \/ StateIn(record', id) # "pending",
         placed' \subseteq placed, log' = log,
         \A g \in Gates : gate'[g] = gate[g] \/ gate'[g] = Idle
  PROVE  Showing'
<1>0. \A id, n : Showed(id, n) => id \in IdsIn(record) /\ SubIn(record, id).n = n
  BY DEF Showed
<1>1. \A id, n : Showed(id, n) => Showed(id, n)'
  BY <1>0, ShowedStays
<1>2. \A id \in IdsIn(record) : SubIn(record', id) = SubIn(record, id)
  BY DEF Keeps
<1>3. ASSUME NEW id \in placed' PROVE Showed(id, SubIn(record, id).n)'
  <2>1. PICK n : n = SubIn(record, id).n /\ Showed(id, n)
    BY <1>3 DEF Showing
  <2>2. Showed(id, n)' /\ SubIn(record', id).n = n
    BY <1>0, <1>1, <1>2, <2>1
  <2> QED
    BY <2>2 DEF Showed
<1>4. ASSUME NEW g \in Gates, NEW id \in gate'[g].names \cup ({gate'[g].holds} \ {0})
      PROVE  Showed(id, gate[g].n)'
  <2>1. gate'[g] = gate[g]
    BY <1>4 DEF Idle
  <2>2. PICK n : n = gate[g].n /\ Showed(id, n)
    BY <1>4, <2>1 DEF Showing
  <2>3. Showed(id, n)' /\ gate'[g].n = n
    BY <1>1, <2>1, <2>2
  <2> QED
    BY <2>3 DEF Showed
<1>5. ASSUME NEW n \in Attempts, NEW k \in DOMAIN log'[n], log'[n][k] # 0
      PROVE  Showed(log[n][k], n)'
  <2>1. PICK id : id = log[n][k] /\ Showed(id, n)
    BY <1>5 DEF Showing
  <2>2. Showed(id, n)' /\ log'[n][k] = id
    BY <1>1, <2>1
  <2> QED
    BY <2>2 DEF Showed
<1> QED
  BY <1>3, <1>4, <1>5 DEF Showing

LEMMA TellingStays ==
  ASSUME TypeOK, RecordInv(record), Telling, log' = log,
         AllIn(record', "state") = AllIn(record, "state"),
         \A i \in AllIn(record, "state") : record'[i] = record[i],
         \A n \in Attempts : n <= LatestIn(record) /\ Quiet(n) => Quiet(n)'
  PROVE  Telling'
<1>1. \A n : Returned(n)' = Returned(n)
  BY DEF Returned
<1>2. \A i \in AllIn(record, "state") : record[i].n <= LatestIn(record)
  BY DEF RecordInv, Launched
<1>3. \A i \in AllIn(record, "state") :
        record[i].n \in Attempts /\ (Quiet(record[i].n) => Quiet(record[i].n)')
  <2> SUFFICES ASSUME NEW i \in AllIn(record, "state")
               PROVE  record[i].n \in Attempts /\ (Quiet(record[i].n) => Quiet(record[i].n)')
    OBVIOUS
  <2>1. record[i].n \in Attempts
    BY DEF Telling
  <2>2. record'[i] = record[i]
    OBVIOUS
  <2>3. PICK n \in Attempts : n = record[i].n
    BY <2>1
  <2>4. Quiet(n) => Quiet(n)'
    BY <1>2, <2>3
  <2> QED
    BY <2>2, <2>3, <2>4 DEF Quiet
<1> QED
  BY <1>1, <1>3 DEF Telling

Rest == Supervising /\ Settling /\ Showing /\ Telling

LEMMA KillIs ==
  ASSUME TypeOK, NEW n \in Attempts \cup {0}, Kill(n) \/ UNCHANGED <<gate, agents>>
  PROVE  /\ \A g \in Gates : gate'[g] = gate[g] \/ gate'[g] = Idle
         /\ \A m \in Attempts : Quiet(m) => Quiet(m)'
         /\ Kill(n) /\ n # 0 => Quiet(n)'
<1>1. CASE Kill(n)
  <2>1. \A g \in Gates : gate'[g] = IF gate[g].n = n THEN Idle ELSE gate[g]
    BY <1>1 DEF Kill
  <2>2. Idle.n = 0 /\ \A m \in Attempts : m # 0
    BY DEF Idle, Attempts
  <2>3. \A m \in Attempts : Quiet(m) => Quiet(m)'
    BY <1>1, <2>1, <2>2 DEF Quiet, Kill
  <2>4. n # 0 => Quiet(n)'
    BY <1>1, <2>1, <2>2 DEF Quiet, Kill
  <2> QED
    BY <2>1, <2>3, <2>4
<1>2. CASE ~ Kill(n)
  BY <1>2 DEF Quiet
<1> QED
  BY <1>1, <1>2

\* A step of the holder alone, before its attempt's process has ended.
LEMMA LocalMoves ==
  ASSUME TypeOK, RecordInv(record), Rest, record' \in Seq(Entries),
         said = "none", said' = "none", sup' = sup, placed' = placed,
         log' = log, gate' = gate, agents' = agents, todo' \subseteq todo, seen' \subseteq seen,
         pc # "placed", pc' \notin {"ended", "concluding", "placed", "withdrawn"},
         pc' \in {"watching", "desk", "deciding", "settling"} => sup # 0,
         pc' # "free", pc' = "run" => sup = 0,
         Still(record, record'), AllIn(record', "outcome") = AllIn(record, "outcome"),
         \A i \in AllIn(record, "outcome") : record'[i] = record[i]
  PROVE  Rest'
<1>1. Keeps(record, record')
  BY DEF Still
<1>2. sup \in Nat /\ LatestIn(record) \in Nat /\ LatestIn(record') \in Nat
  BY RecordTyped DEF TypeOK, LocalTyped, Attempts
<1>3. sup <= LatestIn(record')
  BY <1>1, <1>2 DEF Rest, Supervising, Keeps
<1>4. Supervising'
  BY <1>3 DEF Rest, Supervising
<1>5. Settling'
  <2>1. \A id \in todo' : id \in IdsIn(record') /\ SubIn(record', id).n = sup'
    BY <1>1 DEF Rest, Settling, Keeps
  <2>2. \A id \in seen' : sup' \in Attempts /\ \E k \in DOMAIN log'[sup'] : log'[sup'][k] = id
    BY DEF Rest, Settling
  <2> QED
    BY <2>1, <2>2 DEF Settling
<1>6. Showing'
  <2>1. HoldsOn
    BY DEF HoldsOn
  <2> QED
    BY <1>1, <2>1, ShowingStays DEF Rest, Still
<1>7. Telling'
  <2>1. \A n \in Attempts : Quiet(n) => Quiet(n)'
    BY DEF Quiet
  <2> QED
    BY <2>1, TellingStays DEF Rest, Still
<1> QED
  BY <1>4, <1>5, <1>6, <1>7 DEF Rest

\* The holder lets go: its attempt, if it had one, is nobody's.
LEMMA DoRelease ==
  ASSUME TypeOK, RecordInv(record), Rest, record' \in Seq(Entries),
         Release, placed' = placed, log' = log, Kill(sup) \/ UNCHANGED <<gate, agents>>,
         Still(record, record')
  PROVE  Rest'
<1>1. Keeps(record, record')
  BY DEF Still
<1>2. LatestIn(record') \in Nat /\ sup \in Attempts \cup {0}
  BY RecordTyped DEF TypeOK, LocalTyped
<1>3. Supervising'
  BY <1>2 DEF Release, Supervising
<1>4. Settling'
  BY DEF Release, Settling
<1>5. Showing'
  <2>1. HoldsOn
    BY DEF HoldsOn, Release
  <2> QED
    BY <1>1, <1>2, <2>1, KillIs, ShowingStays DEF Rest, Still
<1>6. Telling'
  BY <1>2, KillIs, TellingStays DEF Rest, Still
<1> QED
  BY <1>3, <1>4, <1>5, <1>6 DEF Rest

\* Nothing that is spoken of here has changed.
LEMMA NothingMoves ==
  ASSUME Rest, UNCHANGED <<record, local, placed, child>>
  PROVE  Rest'
<1>1. Supervising' /\ Settling'
  BY DEF Rest, local, desk, child, Supervising, Settling, Quiet, Returned
<1>2. Showing'
  BY DEF Rest, local, desk, child, Showing, Showed
<1>3. Telling'
  BY DEF Rest, local, desk, child, Telling, Quiet, Returned
<1> QED
  BY <1>1, <1>2, <1>3 DEF Rest

------------------------------------------------------------------------------
(* The steps.                                                              *)

\* An input is recorded under the next number, pending.
LEMMA InputAppended ==
  ASSUME TypeOK, RecordInv(record), RecordInput
  PROVE  \E e \in Entries :
           /\ record' = Append(record, e)
           /\ e.kind = "input" /\ e.sub = cur.sub /\ e.word = "pending"
           /\ e.id = Cardinality(IdsIn(record)) + 1 /\ Cardinality(IdsIn(record)) < MaxInputs
<1>1. PICK e : e = InputOf(cur.sub.n, NextId, cur.sub)
  OBVIOUS
<1>2. cur.sub \in Subs /\ cur.sub.n \in Nat
  BY DEF TypeOK, LocalTyped, Asks, Subs
<1>3. /\ NextId \in Nat /\ NextId = Cardinality(IdsIn(record)) + 1
      /\ Cardinality(IdsIn(record)) < MaxInputs
  BY Reads, IdsAre DEF NextId, RecordInv, RecordInput
<1>4. e \in Entries /\ e.kind = "input" /\ e.id = NextId /\ e.sub = cur.sub /\ e.word = "pending"
  BY <1>1, <1>2, <1>3, InputEntry
<1>5. record' = Append(record, e)
  BY <1>1 DEF RecordInput, Add, InputOf
<1> QED
  BY <1>3, <1>4, <1>5

LEMMA RecordInputRest ==
  ASSUME TypeOK, RecordInv(record), Asking, Rest, RecordInput, record' \in Seq(Entries)
  PROVE  RecordInv(record') /\ Rest'
<1>1. cur \in Asks /\ record \in Seq(Entries)
  BY DEF TypeOK, LocalTyped
<1>2. PICK e \in Entries :
           /\ record' = Append(record, e)
           /\ e.kind = "input" /\ e.sub = cur.sub /\ e.word = "pending"
           /\ e.id = Cardinality(IdsIn(record)) + 1 /\ Cardinality(IdsIn(record)) < MaxInputs
  BY InputAppended
<1>3. Adds(record, e, record')
  BY <1>1, <1>2, AddsIs
<1>4. \A i \in AllIn(record, "input") : record[i].sub # cur.sub
  <2>1. ASSUME NEW i \in AllIn(record, "input"), record[i].sub = cur.sub PROVE FALSE
    <3>1. record[i].id \in IdsIn(record) /\ SubIn(record, record[i].id) = cur.sub
      BY <2>1, SubIs DEF IdsIn, RecordInv
    <3> QED
      BY <3>1, Reads DEF RecordInput, Taken, RecordedAs
  <2> QED
    BY <2>1
<1>5. cur.sub.n \in 1 .. LatestIn(record)
  <2>1. cur # NoRequest
    <3>1. at \in Nat /\ cur.sub.expires > at
      BY DEF TypeOK, LocalTyped, RecordInput, Acceptable
    <3> QED
      BY <3>1 DEF NoRequest, NoSubmission, Submission
  <2> QED
    BY <2>1 DEF Asking, Proper
<1>6. cur.sub.what = "note" => \A i \in AllIn(record, "outcome") : record[i].n # cur.sub.n
  <2>1. All("outcome") = AllIn(record, "outcome")
    BY Reads
  <2> QED
    BY <2>1 DEF RecordInput, Acceptable, Live
<1>7. RecordInv(record') /\ e.id \notin IdsIn(record)
  BY <1>1, <1>2, <1>3, <1>4, <1>5, <1>6, AddsInput
<1>8. Still(record, record')
  BY <1>1, <1>2, <1>3, <1>7, StillAdds DEF RecordInv
<1>9. AllIn(record', "outcome") = AllIn(record, "outcome")
       /\ \A i \in AllIn(record, "outcome") : record'[i] = record[i]
  BY <1>1, <1>2, <1>3, AllAdds DEF Adds, AllIn
<1>10. /\ said = "none" /\ said' = "none" /\ sup' = sup /\ placed' = placed
       /\ log' = log /\ gate' = gate /\ agents' = agents /\ todo' = todo /\ seen' = seen
       /\ pc # "placed" /\ pc' \in {"commanding", "taken"}
  BY DEF Rest, Supervising, RecordInput, AfterRecord, desk, child
<1>11. Rest'
  BY <1>8, <1>9, <1>10, LocalMoves
<1> QED
  BY <1>7, <1>11

LEMMA DecideCommandRest ==
  ASSUME TypeOK, RecordInv(record), Rest, DecideCommand, record' \in Seq(Entries)
  PROVE  RecordInv(record') /\ Rest'
<1>0. record \in Seq(Entries)
  BY DEF TypeOK
<1>1. /\ said = "none" /\ said' = "none" /\ sup' = sup /\ placed' = placed
      /\ log' = log /\ gate' = gate /\ agents' = agents /\ todo' = todo /\ seen' = seen
      /\ pc # "placed" /\ pc' = "taken"
  BY DEF Rest, Supervising, DecideCommand, Goto, desk, child
<1>2. CASE record' = record
  <2>1. Still(record, record')
    BY <1>0, <1>2, StillSame
  <2>2. Rest'
    BY <1>1, <1>2, <2>1, LocalMoves
  <2> QED
    BY <1>2, <2>2
<1>3. CASE record' # record
  <2>1. PICK id \in RecordedAs(cur.sub) :
          Add(DecidedOf(LatestAttempt, id, from, cur.ver,
                        IF DecidedAt(cur) = Len(record) THEN "accepted" ELSE "stale"))
    BY <1>3 DEF DecideCommand, DecidedOf
  <2>2. PICK n \in Nat, key \in Nat, ver \in Nat : n = LatestAttempt /\ key = from /\ ver = cur.ver
    <3>1. LatestAttempt \in Nat
      BY <1>0, Reads, RecordTyped
    <3>2. from \in Nat /\ cur.ver \in Nat
      BY DEF TypeOK, LocalTyped, Requests, Asks
    <3> QED
      BY <3>1, <3>2
  <2>3. PICK word \in {"accepted", "stale"} :
          word = IF ver + 1 = Len(record) THEN "accepted" ELSE "stale"
    OBVIOUS
  <2>4. id \in IdsIn(record) /\ id \in Nat
    BY <1>0, Reads, RecordTyped DEF RecordedAs
  <2>5. PICK e : e = DecidedOf(n, id, key, ver, word)
    OBVIOUS
  <2>6. e \in Entries /\ e.kind = "decided" /\ e.id = id /\ e.ver = ver /\ e.word = word
    BY <2>4, <2>5, DecidedEntry
  <2>7. record' = Append(record, e)
    BY <2>1, <2>2, <2>3, <2>5 DEF Add, DecidedAt
  <2>8. Adds(record, e, record')
    BY <1>0, <2>6, <2>7, AddsIs
  <2>9. e.word = "stale" => e.ver + 1 # Len(record)
    BY <2>3, <2>6
  <2>10. RecordInv(record')
    BY <1>0, <2>4, <2>6, <2>8, <2>9, AddsDecided
  <2>11. Still(record, record')
    BY <1>0, <2>6, <2>8, <2>10, StillAdds DEF RecordInv
  <2>12. AllIn(record', "outcome") = AllIn(record, "outcome")
         /\ \A i \in AllIn(record, "outcome") : record'[i] = record[i]
    BY <1>0, <2>6, <2>8, AllAdds DEF Adds, AllIn
  <2>13. Rest'
    BY <1>1, <2>11, <2>12, LocalMoves
  <2> QED
    BY <2>10, <2>13
<1> QED
  BY <1>2, <1>3

\* Steps that append nothing, of the lock, the queue and the watch.
LEMMA QueueRest ==
  ASSUME TypeOK, RecordInv(record), Rest,
         \/ \E v \in {"input", "run", "reconcile"} : TakeLock(v)
         \/ Ask \/ TakeRequest \/ OwnSubmission \/ RefuseInput \/ AlreadyRecorded
         \/ Applied \/ RemoveFails \/ Drained \/ Poll \/ NothingOpen \/ LeaveLive \/ Crash \/ Tick
  PROVE  RecordInv(record') /\ Rest'
<1>0. record \in Seq(Entries)
  BY DEF TypeOK
<1>1. record' = record
  BY DEF TakeLock, Ask, TakeRequest, OwnSubmission, RefuseInput, AlreadyRecorded, Applied,
         RemoveFails, Drained, Poll, NothingOpen, LeaveLive, Crash, Tick
<1>2. /\ record' \in Seq(Entries) /\ RecordInv(record') /\ Still(record, record')
      /\ AllIn(record', "outcome") = AllIn(record, "outcome")
      /\ \A i \in AllIn(record, "outcome") : record'[i] = record[i]
  BY <1>0, <1>1, StillSame
<1>3. said # "none" => pc \in {"ended", "settling", "withdrawn", "concluding"}
  BY DEF Rest, Supervising
<1>4. pc \in {"watching", "desk", "deciding", "settling"} => sup # 0
  BY DEF Rest, Supervising
<1>5. CASE Ask \/ Tick
  <2>1. UNCHANGED <<record, local, placed, child>>
    BY <1>5 DEF Ask, Tick
  <2> QED
    BY <1>2, <2>1, NothingMoves
<1>6. CASE LeaveLive \/ Crash
  <2>1. Release /\ placed' = placed /\ log' = log /\ (Kill(sup) \/ UNCHANGED <<gate, agents>>)
    BY <1>6 DEF LeaveLive, Crash, child
  <2> QED
    BY <1>2, <2>1, DoRelease
<1>7. CASE (OwnSubmission \/ Applied \/ RemoveFails) /\ Release
  <2>1. placed' = placed /\ log' = log /\ UNCHANGED <<gate, agents>>
    BY <1>7 DEF OwnSubmission, Applied, RemoveFails, child
  <2> QED
    BY <1>2, <1>7, <2>1, DoRelease
<1>8. CASE \/ \E v \in {"input", "run", "reconcile"} : TakeLock(v)
           \/ TakeRequest \/ RefuseInput \/ AlreadyRecorded \/ Drained \/ Poll \/ NothingOpen
           \/ (OwnSubmission \/ Applied \/ RemoveFails) /\ ~ Release
  <2>1. /\ said = "none" /\ said' = "none" /\ sup' = sup /\ placed' = placed
        /\ log' = log /\ gate' = gate /\ agents' = agents /\ todo' = todo /\ seen' = seen
        /\ pc # "placed" /\ pc' \notin {"ended", "concluding", "placed", "withdrawn"}
        /\ pc' \in {"watching", "desk", "deciding", "settling"} => sup # 0
        /\ pc' # "free" /\ (pc' = "run" => sup = 0)
    <3>1. CASE \E v \in {"input", "run", "reconcile"} : TakeLock(v)
      BY <1>3, <3>1 DEF TakeLock, desk, child, Rest, Supervising
    <3>2. CASE TakeRequest
      BY <1>3, <3>2 DEF TakeRequest, desk, child
    <3>3. CASE RefuseInput
      BY <1>3, <3>3 DEF RefuseInput, Goto, desk, child
    <3>4. CASE AlreadyRecorded
      BY <1>3, <3>4 DEF AlreadyRecorded, AfterRecord, Goto, desk, child
    <3>5. CASE Drained
      BY <1>3, <3>5 DEF Drained, child
    <3>6. CASE Poll
      BY <1>3, <3>6 DEF Poll, desk, child
    <3>7. CASE NothingOpen
      BY <1>3, <1>4, <3>7 DEF NothingOpen, Goto, desk, child
    <3>8. CASE OwnSubmission /\ ~ Release
      BY <1>3, <3>8 DEF OwnSubmission, desk, child
    <3>9. CASE Applied /\ ~ Release
      BY <1>3, <3>9 DEF Applied, desk, child
    <3>10. CASE RemoveFails /\ ~ Release
      BY <1>3, <3>10 DEF RemoveFails, child
    <3> QED
      BY <1>8, <3>1, <3>2, <3>3, <3>4, <3>5, <3>6, <3>7, <3>8, <3>9, <3>10
  <2> QED
    BY <1>2, <2>1, LocalMoves
<1> QED
  BY <1>5, <1>6, <1>7, <1>8

\* What was shown and told is untouched by a step that appends and logs nothing.
LEMMA ShowTell ==
  ASSUME TypeOK, RecordInv(record), Rest, record' = record, log' = log, placed' \subseteq placed,
         sup' = sup, pc # "placed", Kill(sup) \/ UNCHANGED <<gate, agents>>
  PROVE  RecordInv(record') /\ Showing' /\ Telling'
<1>1. record \in Seq(Entries) /\ sup \in Attempts \cup {0}
  BY DEF TypeOK, LocalTyped
<1>2. Still(record, record')
  BY <1>1, StillSame
<1>3. HoldsOn
  BY DEF HoldsOn
<1>4. Showing'
  BY <1>1, <1>2, <1>3, KillIs, ShowingStays DEF Rest, Still
<1>5. Telling'
  BY <1>1, KillIs, TellingStays DEF Rest
<1> QED
  BY <1>4, <1>5

LEMMA LaunchRest ==
  ASSUME TypeOK, RecordInv(record), Rest, Launch, record' \in Seq(Entries)
  PROVE  RecordInv(record') /\ Rest'
<1>0. record \in Seq(Entries) /\ LatestAttempt = LatestIn(record) /\ LatestIn(record) \in Nat
  BY Reads, RecordTyped DEF TypeOK
<1>1. CASE Release /\ UNCHANGED <<record, agents>>
  <2>1. Still(record, record') /\ placed' = placed /\ log' = log /\ UNCHANGED <<gate, agents>>
    BY <1>0, <1>1, StillSame DEF Launch
  <2> QED
    BY <1>1, <2>1, DoRelease
<1>2. CASE ~ (Release /\ UNCHANGED <<record, agents>>)
  <2> DEFINE n == LatestIn(record) + 1
  <2>0. n \in Nat /\ n # 0 /\ n \in Attempts /\ LatestAttempt + 1 = n
    BY <1>0, <1>2, OperatorInputAssumption DEF Launch, Attempts
  <2>1. /\ Add(Entry("intent", n)) /\ sup' = n /\ agents' = agents \cup {n} /\ pc' = "watching"
        /\ UNCHANGED <<said, todo, seen, placed, log, gate>> /\ pc = "run"
    BY <1>2, <2>0 DEF Launch
  <2> HIDE DEF n
  <2>2. PICK e : e = Entry("intent", n)
    OBVIOUS
  <2>3. e \in Entries /\ e.kind = "intent" /\ e.id = 0
    BY <2>0, <2>2, EntryTyped DEF EntryKinds
  <2>4. Adds(record, e, record')
    BY <1>0, <2>1, <2>2, <2>3, AddsIs DEF Add
  <2>5. RecordInv(record')
    BY <1>0, <2>3, <2>4, AddsPlain
  <2>6. Still(record, record')
    <3>1. 0 \notin IdsIn(record)
      BY IdsAre DEF RecordInv
    <3> QED
      BY <1>0, <2>3, <2>4, <2>5, <3>1, StillAdds DEF RecordInv
  <2>7. LatestIn(record') = n
    BY <1>0, <2>3, <2>4, LatestAdds DEF n
  <2>8. \A i \in AllIn(record', "outcome") : record'[i].n # n
    <3>1. /\ AllIn(record', "outcome") = AllIn(record, "outcome")
          /\ \A i \in AllIn(record, "outcome") : record'[i] = record[i] /\ record[i] \in Entries
      BY <1>0, <2>3, <2>4, AllAdds, RecordTyped DEF Adds, AllIn
    <3>2. \A i \in AllIn(record, "outcome") : record[i].n <= LatestIn(record) /\ record[i].n \in Nat
      BY <3>1 DEF RecordInv, Launched, Entries
    <3> QED
      BY <1>0, <3>1, <3>2 DEF n
  <2>9. said = "none" /\ sup = 0
    BY <2>1 DEF Rest, Supervising
  <2>10. Supervising'
    BY <2>0, <2>1, <2>7, <2>8, <2>9 DEF Supervising
  <2>11. Settling'
    <3>1. todo = {}
      <4>1. \A id \in todo : id \in IdsIn(record) /\ SubIn(record, id).n = 0
        BY <2>9 DEF Rest, Settling
      <4> QED
        BY <1>0, <4>1, OfLaunched
    <3>2. seen = {}
      BY <2>9 DEF Rest, Settling, Attempts
    <3> QED
      BY <2>1, <3>1, <3>2 DEF Settling
  <2>12. Showing'
    <3>1. HoldsOn
      BY <2>1 DEF HoldsOn, n
    <3> QED
      BY <2>1, <2>6, <3>1, ShowingStays DEF Rest, Still
  <2>13. Telling'
    <3>1. \A m \in Attempts : m <= LatestIn(record) /\ Quiet(m) => Quiet(m)'
      <4>1. \A m \in Attempts : m <= LatestIn(record) => m # n
        BY <1>0 DEF n, Attempts
      <4> QED
        BY <2>1, <4>1 DEF Quiet
    <3> QED
      BY <2>1, <2>6, <3>1, TellingStays DEF Rest, Still
  <2> QED
    BY <2>5, <2>10, <2>11, <2>12, <2>13 DEF Rest
<1> QED
  BY <1>1, <1>2

LEMMA EndsRest ==
  ASSUME TypeOK, RecordInv(record), Rest, Decide \/ AgentEnds PROVE RecordInv(record') /\ Rest'
<1>0. /\ record' = record /\ record' \in Seq(Entries) /\ sup' = sup /\ log' = log
      /\ placed' = placed /\ todo' = todo /\ seen' = seen /\ pc \in {"deciding", "watching"}
  BY DEF Decide, AgentEnds, desk, TypeOK
<1>1. sup # 0 /\ said = "none" /\ sup \in Attempts \cup {0}
  BY <1>0 DEF Rest, Supervising, TypeOK, LocalTyped
<1>2. CASE pc' = "watching"
  <2>1. said' = said /\ gate' = gate /\ agents' = agents
    BY <1>2 DEF Decide, AgentEnds
  <2>2. Still(record, record')
    BY <1>0, StillSame
  <2>3. Rest'
    BY <1>0, <1>1, <1>2, <2>1, <2>2, LocalMoves
  <2> QED
    BY <1>0, <2>3
<1>3. CASE pc' # "watching"
  <2>1. pc' = "ended" /\ said' # "none" /\ Kill(sup)
    BY <1>3 DEF Decide, AgentEnds
  <2>2. RecordInv(record') /\ Showing' /\ Telling'
    BY <1>0, <2>1, ShowTell
  <2>3. Quiet(sup)'
    BY <1>0, <1>1, <2>1, KillIs DEF Quiet
  <2>4. Supervising'
    <3>1. (said # "none")' => Quiet(sup)'
      BY <2>3
    <3>2. sup' # 0 /\ sup' <= LatestIn(record')
          /\ \A i \in AllIn(record', "outcome") : record'[i].n # sup'
      BY <1>0, <1>1 DEF Rest, Supervising
    <3> QED
      BY <2>1, <3>1, <3>2 DEF Supervising
  <2>5. Settling'
    BY <1>0, <2>1 DEF Rest, Settling
  <2> QED
    BY <2>2, <2>4, <2>5 DEF Rest
<1> QED
  BY <1>2, <1>3

LEMMA ConcludeRest ==
  ASSUME TypeOK, RecordInv(record), Rest, Conclude \/ Reconcile, record' \in Seq(Entries)
  PROVE  RecordInv(record') /\ Rest'
<1>0. record \in Seq(Entries) /\ LatestAttempt = LatestIn(record) /\ LatestIn(record) \in Nat
  BY Reads, RecordTyped DEF TypeOK
<1>1. Release /\ placed' = placed /\ log' = log /\ UNCHANGED <<gate, agents>>
  BY DEF Conclude, Reconcile, child
<1>2. CASE record' = record
  <2>1. Still(record, record')
    BY <1>0, <1>2, StillSame
  <2> QED
    BY <1>1, <1>2, <2>1, DoRelease
<1>3. CASE record' # record
  <2>1. \E e \in Entries :
          /\ record' = Append(record, e) /\ e.kind \in {"outcome", "reconciled"} /\ e.id = 0
          /\ e.kind = "outcome" => e.n <= LatestIn(record) /\ OpenIn(record, e.n) = {}
    <3>1. CASE Conclude
      <4>1. PICK n \in Nat, word \in {"completed", "cancelled"} : n = sup /\ word = said
        BY <3>1 DEF Conclude, Rest, Supervising, TypeOK, LocalTyped, Attempts
      <4>2. PICK e : e = OutcomeOf(n, word)
        OBVIOUS
      <4>3. e \in Entries /\ e.kind = "outcome" /\ e.n = n /\ e.id = 0
        BY <4>2, OutcomeEntry
      <4>4. record' = Append(record, e)
        BY <3>1, <4>1, <4>2 DEF Conclude, OutcomeOf, Add
      <4>5. n <= LatestIn(record) /\ OpenIn(record, n) = {}
        BY <3>1, <4>1 DEF Conclude, Rest, Supervising
      <4> QED
        BY <4>3, <4>4, <4>5
    <3>2. CASE Reconcile
      <4>1. PICK e : e = Entry("reconciled", LatestIn(record))
        OBVIOUS
      <4>2. e \in Entries /\ e.kind = "reconciled" /\ e.id = 0
        BY <1>0, <4>1, EntryTyped DEF EntryKinds
      <4>3. record' = Append(record, e)
        BY <1>0, <1>3, <3>2, <4>1 DEF Reconcile, Add
      <4> QED
        BY <4>2, <4>3
    <3> QED
      BY <3>1, <3>2
  <2>2. PICK e \in Entries :
          /\ record' = Append(record, e) /\ e.kind \in {"outcome", "reconciled"} /\ e.id = 0
          /\ e.kind = "outcome" => e.n <= LatestIn(record) /\ OpenIn(record, e.n) = {}
    BY <2>1
  <2>3. Adds(record, e, record')
    BY <1>0, <2>2, AddsIs
  <2>4. RecordInv(record')
    BY <1>0, <2>2, <2>3, AddsPlain
  <2>5. Still(record, record')
    <3>1. 0 \notin IdsIn(record)
      BY IdsAre DEF RecordInv
    <3> QED
      BY <1>0, <2>2, <2>3, <2>4, <3>1, StillAdds DEF RecordInv
  <2> QED
    BY <1>1, <2>4, <2>5, DoRelease
<1> QED
  BY <1>2, <1>3

LEMMA BeginPassRest ==
  ASSUME TypeOK, RecordInv(record), Rest, BeginPass PROVE RecordInv(record') /\ Rest'
<1>0. /\ record' = record /\ sup' = sup /\ log' = log /\ placed' = placed /\ said' = said
      /\ gate' = gate /\ agents' = agents /\ pc \in {"desk", "ended"} /\ pc' = "settling"
      /\ todo' = OpenIn(record, sup) /\ seen' = Returned(sup)
  BY Reads DEF BeginPass, child
<1>1. sup # 0 /\ sup \in Attempts
  BY <1>0 DEF Rest, Supervising, TypeOK, LocalTyped
<1>2. RecordInv(record') /\ Showing' /\ Telling'
  BY <1>0, ShowTell
<1>3. Supervising'
  BY <1>0, <1>1 DEF Rest, Supervising, Quiet, Returned
<1>4. Settling'
  <2>1. \A id \in todo' : id \in IdsIn(record) /\ SubIn(record, id).n = sup
    BY <1>0 DEF OpenIn
  <2>2. \A id \in seen' : \E k \in DOMAIN log[sup] : log[sup][k] = id
    BY <1>0, <1>1, ReturnedIs
  <2> QED
    BY <1>0, <1>1, <2>1, <2>2 DEF Settling
<1> QED
  BY <1>2, <1>3, <1>4 DEF Rest

LEMMA PassEndsRest ==
  ASSUME TypeOK, RecordInv(record), Rest, PassEnds PROVE RecordInv(record') /\ Rest'
<1>0. /\ record' = record /\ record \in Seq(Entries) /\ sup' = sup /\ log' = log
      /\ placed' = placed /\ said' = said /\ todo' = todo /\ todo = {} /\ seen' = {}
      /\ gate' = gate /\ agents' = agents /\ pc = "settling"
      /\ pc' = IF said = "none" THEN "deciding" ELSE "concluding"
  BY DEF PassEnds, child, TypeOK
<1>1. sup # 0
  BY <1>0 DEF Rest, Supervising
<1>2. CASE said = "none"
  <2>1. Still(record, record')
    BY <1>0, StillSame
  <2>2. Rest'
    BY <1>0, <1>1, <1>2, <2>1, LocalMoves
  <2> QED
    BY <1>0, <2>2
<1>3. CASE said # "none"
  <2>1. RecordInv(record') /\ Showing' /\ Telling'
    BY <1>0, ShowTell
  <2>2. OpenIn(record, sup) = {} /\ Quiet(sup)
    BY <1>0, <1>3 DEF Rest, Supervising
  <2>3. Supervising'
    BY <1>0, <1>1, <1>3, <2>2 DEF Rest, Supervising, Quiet
  <2>4. Settling'
    BY <1>0, <1>3 DEF Settling
  <2> QED
    BY <2>1, <2>3, <2>4 DEF Rest
<1> QED
  BY <1>2, <1>3

\* A note of the pass moves on.
LEMMA MoveRest ==
  ASSUME TypeOK, RecordInv(record), Rest, NEW id \in todo,
         NEW word, word = "delivered" \/ word = "acknowledged" \/ word = "expired",
         Move(id, word), Turned(id),
         sup' = sup, said' = said, seen' = seen, placed' = placed, child' = child,
         pc \in {"settling", "placed", "withdrawn"}, pc = "placed" => id = Least(todo),
         word = "delivered" => said = "none",
         word = "acknowledged" => id \in seen,
         word = "expired" /\ said # "none" => id \notin Returned(sup)
  PROVE  RecordInv(record') /\ Rest'
<1>0. /\ record \in Seq(Entries) /\ id \in Ids /\ word \in Moved /\ sup # 0 /\ sup \in Attempts
      /\ id \in IdsIn(record) /\ SubIn(record, id).n = sup
      /\ \A i \in AllIn(record, "outcome") : record[i].n # sup
      /\ log' = log /\ gate' = gate /\ agents' = agents /\ todo' = todo \ {id} /\ pc' = "settling"
  BY DEF TypeOK, LocalTyped, Moved, Rest, Supervising, Settling, child, Turned
<1>1. PICK e \in Entries :
        /\ record' = Append(record, e) /\ record' \in Seq(Entries)
        /\ e.kind = "state" /\ e.n = sup /\ e.id = id /\ e.word = word /\ e.why = Why(word)
  BY <1>0, MoveIs
<1>2. Adds(record, e, record')
  BY <1>0, <1>1, AddsIs
<1>3. /\ RecordInv(record')
      /\ \A n : \A x \in OpenIn(record', n) :
           \/ x \in OpenIn(record, n) /\ x # e.id
           \/ x = e.id /\ n = e.n /\ e.word \in {"pending", "delivered"}
  BY <1>0, <1>1, <1>2, AddsState
<1>4. Keeps(record, record')
  BY <1>0, <1>2, <1>3, KeepsAdds DEF RecordInv
<1>5. \A x \in IdsIn(record) : StateIn(record', x) = IF x = id THEN word ELSE StateIn(record, x)
  BY <1>0, <1>1, <1>2, StateAdds
<1>6. /\ AllIn(record', "outcome") = AllIn(record, "outcome")
      /\ AllIn(record', "state") = AllIn(record, "state") \cup {Len(record) + 1}
      /\ record'[Len(record) + 1] = e
      /\ \A k : \A i \in AllIn(record, k) : record'[i] = record[i]
  BY <1>0, <1>1, <1>2, AllAdds DEF Adds, AllIn
<1>7. LatestIn(record') = LatestIn(record)
  BY <1>0, <1>1, <1>2, LatestAdds
<1>8. \A n : Returned(n)' = Returned(n) /\ (Quiet(n)' <=> Quiet(n))
  BY <1>0 DEF Returned, Quiet
<1>9. said # "none" => /\ Quiet(sup)
                       /\ pc \in {"settling", "withdrawn"}
                       /\ seen = Returned(sup) /\ OpenIn(record, sup) \subseteq todo
  BY DEF Rest, Supervising
<1>10. said # "none" => OpenIn(record', sup) \subseteq todo'
  BY <1>0, <1>1, <1>3, <1>9
<1>11. Supervising'
  <2>1. sup' <= LatestIn(record') /\ sup' # 0
        /\ \A i \in AllIn(record', "outcome") : record'[i].n # sup'
    BY <1>0, <1>6, <1>7 DEF Rest, Supervising
  <2>2. (said # "none")' => Quiet(sup)' /\ seen' = Returned(sup)' /\ OpenIn(record', sup') \subseteq todo'
    BY <1>0, <1>8, <1>9, <1>10 DEF Quiet, Returned
  <2> QED
    BY <1>0, <2>1, <2>2 DEF Supervising
<1>12. Settling'
  <2>1. \A x \in todo' : x \in IdsIn(record') /\ SubIn(record', x).n = sup'
    BY <1>0, <1>4 DEF Rest, Settling, Keeps
  <2>2. \A x \in seen' : sup' \in Attempts /\ \E k \in DOMAIN log'[sup'] : log'[sup'][k] = x
    BY <1>0 DEF Rest, Settling
  <2> QED
    BY <1>0, <2>1, <2>2 DEF Settling
<1>13. Showing'
  <2>1. \A x \in IdsIn(record) :
          StateIn(record', x) = StateIn(record, x) \/ StateIn(record', x) # "pending"
    BY <1>5
  <2>2. HoldsOn
    BY <1>0, <1>5 DEF HoldsOn
  <2> QED
    BY <1>0, <1>4, <2>1, <2>2, ShowingStays DEF Rest
<1>14. Telling'
  <2>1. e.word = "acknowledged" => \E k \in DOMAIN log[sup] : log[sup][k] = id
    BY <1>1 DEF Rest, Settling
  <2>2. e.why = "attempt-ended" => id \notin Returned(sup) /\ Quiet(sup)
    BY <1>1, <1>9 DEF Why
  <2>3. ASSUME NEW i \in AllIn(record', "state")
        PROVE  /\ record'[i].n \in Attempts
               /\ record'[i].word = "acknowledged" =>
                    \E k \in DOMAIN log'[record'[i].n] : log'[record'[i].n][k] = record'[i].id
               /\ record'[i].why = "attempt-ended" =>
                    record'[i].id \notin Returned(record'[i].n) /\ Quiet(record'[i].n)
    <3>1. CASE i = Len(record) + 1
      BY <1>0, <1>1, <1>6, <2>1, <2>2, <3>1
    <3>2. CASE i # Len(record) + 1
      <4>1. i \in AllIn(record, "state") /\ record'[i] = record[i]
        BY <1>6, <3>2
      <4> QED
        BY <1>0, <4>1 DEF Rest, Telling
    <3> QED
      BY <3>1, <3>2
  <2>4. \A n : Returned(n)' = Returned(n)
    BY <1>8
  <2> QED
    BY <1>0, <2>3 DEF Telling, Returned, Quiet
<1> QED
  BY <1>3, <1>11, <1>12, <1>13, <1>14 DEF Rest

LEMMA DeskRest ==
  ASSUME TypeOK, RecordInv(record), Rest, NEW id \in Ids, Desk(id)
  PROVE  RecordInv(record') /\ Rest'
<1>0. /\ record \in Seq(Entries) /\ todo \subseteq Nat /\ StateOf(id) = StateIn(record, id)
      /\ pc \in {"settling", "placed", "withdrawn"} /\ sup # 0
  BY Reads DEF TypeOK, LocalTyped, Ids, Desk, ExpirePending, Place, PlaceFails, Deliver, Withdraw,
               Settle, LeaveOpen, Turn, Rest, Supervising
<1>1. id \in todo /\ id = Least(todo)
  <2>1. todo # {} /\ id = Least(todo)
    BY DEF Desk, ExpirePending, Place, PlaceFails, Deliver, Withdraw, Settle, LeaveOpen, Turn,
           Rest, Settling
  <2> QED
    BY <1>0, <2>1, LeastOf
<1>2. SubIn(record, id).n = sup /\ id \in IdsIn(record)
  BY <1>1 DEF Rest, Settling
<1>3. CASE ExpirePending(id)
  <2>1. pc = "settling" /\ StateIn(record, id) = "pending"
    BY <1>0, <1>3 DEF ExpirePending, Turn
  <2>2. id \notin Returned(sup)
    <3>1. ASSUME id \in Returned(sup) PROVE FALSE
      <4>1. sup \in Attempts
        BY <1>0 DEF TypeOK, LocalTyped
      <4>2. PICK k \in DOMAIN log[sup] : log[sup][k] = id
        BY <3>1, <4>1, ReturnedIs
      <4>3. id # 0
        BY DEF Ids
      <4>4. Showed(id, sup)
        BY <4>1, <4>2, <4>3 DEF Rest, Showing
      <4> QED
        BY <2>1, <4>4 DEF Showed
    <3> QED
      BY <3>1
  <2>3. /\ Move(id, "expired") /\ Turned(id) /\ sup' = sup /\ said' = said /\ seen' = seen
        /\ placed' = placed /\ child' = child
    BY <1>3 DEF ExpirePending
  <2> QED
    BY <1>0, <1>1, <2>1, <2>2, <2>3, MoveRest
<1>4. CASE Deliver(id)
  <2>1. /\ pc = "placed" /\ Move(id, "delivered") /\ Turned(id) /\ sup' = sup /\ said' = said
        /\ seen' = seen /\ placed' = placed /\ child' = child
    BY <1>4 DEF Deliver
  <2>2. said = "none"
    BY <2>1 DEF Rest, Supervising
  <2> QED
    BY <1>0, <1>1, <2>1, <2>2, MoveRest
<1>5. CASE Settle(id)
  <2>1. /\ pc = "withdrawn" /\ Move(id, IF id \in seen THEN "acknowledged" ELSE "expired")
        /\ Turned(id) /\ sup' = sup /\ said' = said /\ seen' = seen
        /\ placed' = placed /\ child' = child
    BY <1>5 DEF Settle
  <2>2. said # "none" => seen = Returned(sup)
    BY <2>1 DEF Rest, Supervising
  <2>3. CASE id \in seen
    <3>1. Move(id, "acknowledged")
      BY <2>1, <2>3
    <3> QED
      BY <1>0, <1>1, <2>1, <2>3, <3>1, MoveRest
  <2>4. CASE id \notin seen
    <3>1. Move(id, "expired")
      BY <2>1, <2>4
    <3> QED
      BY <1>0, <1>1, <2>1, <2>2, <2>4, <3>1, MoveRest
  <2> QED
    BY <2>3, <2>4
<1>6. CASE PlaceFails(id) \/ LeaveOpen(id)
  <2>1. /\ said = "none" /\ said' = said /\ sup' = sup /\ placed' = placed /\ record' = record
        /\ log' = log /\ gate' = gate /\ agents' = agents /\ todo' \subseteq todo /\ seen' = seen
        /\ pc = "settling" /\ pc' = "settling"
    BY <1>6 DEF PlaceFails, LeaveOpen, Turn, Turned, Due, child
  <2>2. Still(record, record')
    BY <1>0, <2>1, StillSame
  <2>3. Rest'
    BY <1>0, <2>1, <2>2, LocalMoves
  <2> QED
    BY <2>1, <2>3
<1>7. CASE Withdraw(id)
  <2>1. /\ record' = record /\ log' = log /\ placed' \subseteq placed /\ sup' = sup
        /\ gate' = gate /\ agents' = agents /\ said' = said /\ todo' = todo /\ seen' = seen
        /\ pc = "settling" /\ pc' = "withdrawn"
    BY <1>7 DEF Withdraw, Turn, child, desk
  <2>2. RecordInv(record') /\ Showing' /\ Telling'
    BY <2>1, ShowTell
  <2>3. Supervising'
    BY <1>0, <2>1 DEF Rest, Supervising, Quiet, Returned
  <2>4. StateIn(record, Least(todo)) = "delivered"
    BY <1>0, <1>1, <1>7 DEF Withdraw
  <2>5. Settling'
    BY <1>1, <2>1, <2>4 DEF Rest, Settling
  <2> QED
    BY <2>2, <2>3, <2>5 DEF Rest
<1>8. CASE Place(id)
  <2>1. /\ record' = record /\ log' = log /\ placed' = placed \cup {id} /\ sup' = sup
        /\ gate' = gate /\ agents' = agents /\ said' = said /\ said = "none" /\ todo' = todo
        /\ seen' = seen /\ pc = "settling" /\ pc' = "placed"
    BY <1>8 DEF Place, Turn, Due, child
  <2>2. Supervising'
    BY <1>0, <2>1 DEF Rest, Supervising
  <2>3. StateIn(record, Least(todo)) = "pending"
    BY <1>0, <1>1, <1>8 DEF Place
  <2>4. Settling'
    BY <1>1, <2>1, <2>3 DEF Rest, Settling
  <2>5. \A x, n : Showed(x, n) => Showed(x, n)'
    BY <2>1 DEF Showed
  <2>6. Showed(id, sup)'
    BY <1>1, <1>2, <2>1 DEF Showed
  <2>7. Showing'
    <3>1. ASSUME NEW x \in placed' PROVE Showed(x, SubIn(record, x).n)'
      <4>1. CASE x = id
        BY <1>2, <2>1, <2>6, <4>1 DEF Showed
      <4>2. CASE x # id
        <5>1. Showed(x, SubIn(record, x).n)
          BY <2>1, <3>1, <4>2 DEF Rest, Showing
        <5> QED
          BY <2>1, <2>5, <5>1 DEF Showed
      <4> QED
        BY <4>1, <4>2
    <3>2. ASSUME NEW g \in Gates, NEW x \in gate'[g].names \cup ({gate'[g].holds} \ {0})
          PROVE  Showed(x, gate[g].n)'
      <4>1. Showed(x, gate[g].n)
        BY <2>1, <3>2 DEF Rest, Showing
      <4> QED
        BY <2>1, <4>1 DEF Showed
    <3>3. ASSUME NEW n \in Attempts, NEW k \in DOMAIN log'[n], log'[n][k] # 0
          PROVE  Showed(log[n][k], n)'
      <4>1. Showed(log[n][k], n)
        BY <2>1, <3>3 DEF Rest, Showing
      <4> QED
        BY <2>1, <4>1 DEF Showed
    <3> QED
      BY <3>1, <3>2, <3>3 DEF Showing
  <2>8. Telling'
    <3>1. \A n \in Attempts : Quiet(n) => Quiet(n)'
      BY <2>1 DEF Quiet
    <3> QED
      BY <2>1, <3>1, TellingStays DEF Rest
  <2> QED
    BY <2>1, <2>2, <2>4, <2>7, <2>8 DEF Rest
<1> QED
  BY <1>3, <1>4, <1>5, <1>6, <1>7, <1>8 DEF Desk

\* A gate has something else in hand, and one more line is in a log or none is.
LEMMA GateMoves ==
  ASSUME TypeOK, RecordInv(record), Rest, UNCHANGED <<record, local, placed, agents>>,
         NEW g \in Gates, NEW c, gate' = [gate EXCEPT ![g] = c],
         c.n = 0 \/ c.n = gate[g].n \/ c.n \in agents,
         \A x \in c.names \cup ({c.holds} \ {0}) : Showed(x, c.n),
         \/ log' = log
         \/ \E m \in Attempts, h \in Ids \cup {0} :
              log' = [log EXCEPT ![m] = Append(log[m], h)] /\ ~ Quiet(m) /\ (h # 0 => Showed(h, m))
  PROVE  RecordInv(record') /\ Rest'
<1>0. /\ record' = record /\ sup' = sup /\ pc' = pc /\ todo' = todo /\ seen' = seen
      /\ said' = said /\ placed' = placed /\ agents' = agents /\ record \in Seq(Entries)
      /\ \A n \in Attempts : log[n] \in Seq(Ids \cup {0}) /\ n # 0
      /\ \A f \in Gates : gate'[f] = IF f = g THEN c ELSE gate[f]
  BY DEF local, desk, TypeOK, ChildTyped, Attempts
<1>1. \A n \in Attempts : Quiet(n) => Quiet(n)'
  BY <1>0 DEF Quiet
<1>2. \A n \in Attempts : Quiet(n) => log'[n] = log[n]
  BY <1>0 DEF TypeOK, ChildTyped
<1>3. \A n \in Attempts : \A k \in DOMAIN log[n] : k \in DOMAIN log'[n] /\ log'[n][k] = log[n][k]
  <2>1. CASE log' = log
    BY <2>1
  <2>2. CASE log' # log
    <3>1. PICK m \in Attempts, h \in Ids \cup {0} : log' = [log EXCEPT ![m] = Append(log[m], h)]
      BY <2>2
    <3>2. \A n \in Attempts : log'[n] = IF n = m THEN Append(log[m], h) ELSE log[n]
      BY <3>1 DEF TypeOK, ChildTyped
    <3> QED
      BY <1>0, <3>1, <3>2
  <2> QED
    BY <2>1, <2>2
<1>4. \A n \in Attempts : \A k \in DOMAIN log'[n] : log'[n][k] # 0 => Showed(log'[n][k], n)
  <2>0. \A n \in Attempts : \A k \in DOMAIN log[n] : log[n][k] # 0 => Showed(log[n][k], n)
    BY DEF Rest, Showing
  <2>1. CASE log' = log
    BY <2>0, <2>1
  <2>2. CASE log' # log
    <3>1. PICK m \in Attempts, h \in Ids \cup {0} :
            log' = [log EXCEPT ![m] = Append(log[m], h)] /\ (h # 0 => Showed(h, m))
      BY <2>2
    <3>2. \A n \in Attempts : log'[n] = IF n = m THEN Append(log[m], h) ELSE log[n]
      BY <3>1 DEF TypeOK, ChildTyped
    <3>3. /\ DOMAIN log'[m] = DOMAIN log[m] \cup {Len(log[m]) + 1}
          /\ log'[m][Len(log[m]) + 1] = h
          /\ \A k \in DOMAIN log[m] : log'[m][k] = log[m][k]
      <4>1. PICK l \in Seq(Ids \cup {0}) : l = log[m]
        BY <1>0
      <4>2. PICK u : u = log'[m] /\ u = Append(l, h)
        BY <3>2, <4>1
      <4>3. /\ DOMAIN u = DOMAIN l \cup {Len(l) + 1} /\ u[Len(l) + 1] = h
            /\ \A k \in DOMAIN l : u[k] = l[k]
        BY <4>2
      <4> QED
        BY <4>1, <4>2, <4>3
    <3>4. \A k \in DOMAIN log'[m] : log'[m][k] # 0 => Showed(log'[m][k], m)
      BY <2>0, <3>1, <3>3
    <3>5. \A n \in Attempts : n # m => log'[n] = log[n]
      BY <3>2
    <3> QED
      BY <2>0, <3>4, <3>5
  <2> QED
    BY <2>1, <2>2
<1>5. \A n \in Attempts : Quiet(n) => Returned(n)' = Returned(n)
  BY <1>2 DEF Returned
<1>6. \A x, n : Showed(x, n) => Showed(x, n)'
  BY <1>0 DEF Showed
<1>7. Supervising'
  <2>1. said # "none" => Quiet(sup) /\ sup \in Attempts
    BY DEF Rest, Supervising, TypeOK, LocalTyped
  <2>2. PICK n \in Attempts \cup {0} : n = sup
    BY DEF TypeOK, LocalTyped
  <2>3. said # "none" => Quiet(n)' /\ Returned(n)' = Returned(n)
    BY <1>1, <1>5, <2>1, <2>2
  <2>4. said # "none" => Quiet(sup)' /\ Returned(sup)' = Returned(sup)
    <3>1. sup' = n /\ sup = n
      BY <1>0, <2>2
    <3>2. said # "none" => Quiet(sup)'
      BY <2>3, <3>1 DEF Quiet
    <3>3. said # "none" => Returned(sup)' = Returned(sup)
      BY <2>3, <3>1 DEF Returned
    <3> QED
      BY <3>2, <3>3
  <2> QED
    BY <1>0, <2>4 DEF Rest, Supervising
<1>8. Settling'
  BY <1>0, <1>3 DEF Rest, Settling
<1>9. Showing'
  <2>1. ASSUME NEW x \in placed' PROVE Showed(x, SubIn(record, x).n)'
    <3>1. Showed(x, SubIn(record, x).n)
      BY <1>0, <2>1 DEF Rest, Showing
    <3> QED
      BY <1>0, <3>1 DEF Showed
  <2>2. ASSUME NEW f \in Gates, NEW x \in gate'[f].names \cup ({gate'[f].holds} \ {0})
        PROVE  Showed(x, gate[f].n)'
    <3>1. PICK n : n = gate'[f].n
      OBVIOUS
    <3>2. Showed(x, n)
      <4>1. CASE f = g
        BY <1>0, <2>2, <3>1, <4>1
      <4>2. CASE f # g
        BY <1>0, <2>2, <3>1, <4>2 DEF Rest, Showing
      <4> QED
        BY <4>1, <4>2
    <3>3. Showed(x, n)'
      BY <1>6, <3>2
    <3> QED
      BY <3>1, <3>3 DEF Showed
  <2>3. ASSUME NEW n \in Attempts, NEW k \in DOMAIN log'[n], log'[n][k] # 0
        PROVE  Showed(log[n][k], n)'
    <3>1. PICK x : x = log'[n][k]
      OBVIOUS
    <3>2. Showed(x, n)
      BY <1>4, <2>3, <3>1
    <3>3. Showed(x, n)'
      BY <1>6, <3>2
    <3> QED
      BY <3>1, <3>3 DEF Showed
  <2> QED
    BY <2>1, <2>2, <2>3 DEF Showing
<1>10. Telling'
  <2>1. ASSUME NEW i \in AllIn(record, "state")
        PROVE  /\ record[i].n \in Attempts
               /\ record[i].word = "acknowledged" =>
                    \E k \in DOMAIN log'[record[i].n] : log'[record[i].n][k] = record[i].id
               /\ record[i].why = "attempt-ended" =>
                    record[i].id \notin Returned(record[i].n)' /\ Quiet(record[i].n)'
    <3>1. PICK n \in Attempts : n = record[i].n
      BY DEF Rest, Telling
    <3>2. record[i].word = "acknowledged" => \E k \in DOMAIN log[n] : log[n][k] = record[i].id
      BY <3>1 DEF Rest, Telling
    <3>3. record[i].why = "attempt-ended" => record[i].id \notin Returned(n) /\ Quiet(n)
      BY <3>1 DEF Rest, Telling
    <3>4. record[i].why = "attempt-ended" => record[i].id \notin Returned(n)' /\ Quiet(n)'
      BY <1>1, <1>5, <3>3
    <3>5. record'[i] = record[i]
      BY <1>0
    <3> QED
      BY <1>3, <3>1, <3>2, <3>4, <3>5 DEF Returned, Quiet
  <2>2. \A i \in AllIn(record', "state") : i \in AllIn(record, "state") /\ record'[i] = record[i]
    BY <1>0
  <2> QED
    BY <2>1, <2>2 DEF Telling, Returned, Quiet
<1> QED
  BY <1>0, <1>7, <1>8, <1>9, <1>10 DEF Rest

LEMMA GateRest ==
  ASSUME TypeOK, RecordInv(record), Rest, NEW g \in Gates, Gate(g)
  PROVE  RecordInv(record') /\ Rest'
<1>0. /\ gate[g] \in GateStates /\ gate[g].names \subseteq Nat /\ gate[g].n \in Attempts \cup {0}
      /\ gate[g].names \subseteq Ids /\ gate[g].holds \in Ids \cup {0}
      /\ record \in Seq(Entries)
  BY DEF TypeOK, ChildTyped, GateStates, Ids
<1>1. \A x \in gate[g].names \cup ({gate[g].holds} \ {0}) : Showed(x, gate[g].n)
  BY DEF Rest, Showing
<1>2. gate[g].names # {} => Least(gate[g].names) \in gate[g].names
  BY <1>0, LeastOf
<1>3. CASE \E n \in Attempts : GateCalls(g, n)
  <2>1. PICK n \in Attempts : GateCalls(g, n)
    BY <1>3
  <2>2. PICK c : c = Looking(n, now, {id \in placed : Sub(id).n = n})
    OBVIOUS
  <2>3. /\ gate' = [gate EXCEPT ![g] = c] /\ log' = [log EXCEPT ![n] = Append(log[n], 0)]
        /\ UNCHANGED <<record, local, placed, agents>> /\ n \in agents
    BY <2>1, <2>2 DEF GateCalls
  <2>4. \A x \in {id \in placed : Sub(id).n = n} : Showed(x, n)
    BY Reads DEF Rest, Showing
  <2>5. /\ c.n = 0 \/ c.n = n
        /\ \A x \in c.names \cup ({c.holds} \ {0}) : Showed(x, c.n)
    <3>1. CASE {id \in placed : Sub(id).n = n} = {}
      BY <2>2, <3>1 DEF Looking, Idle
    <3>2. CASE {id \in placed : Sub(id).n = n} # {}
      <4>1. c.n = n /\ c.names = {id \in placed : Sub(id).n = n} /\ c.holds = 0
        BY <2>2, <3>2 DEF Looking
      <4> QED
        BY <2>4, <4>1
    <3> QED
      BY <3>1, <3>2
  <2>6. ~ Quiet(n)
    BY <2>3 DEF Quiet
  <2>7. \E m \in Attempts, h \in Ids \cup {0} :
          log' = [log EXCEPT ![m] = Append(log[m], h)] /\ ~ Quiet(m) /\ (h # 0 => Showed(h, m))
    BY <2>3, <2>6
  <2> QED
    BY <2>3, <2>5, <2>7, GateMoves
<1>4. CASE GatePasses(g)
  <2>1. PICK c : c = Looking(gate[g].n, gate[g].clock, gate[g].names \ {Least(gate[g].names)})
    OBVIOUS
  <2>2. /\ gate' = [gate EXCEPT ![g] = c] /\ log' = log
        /\ UNCHANGED <<record, local, placed, agents>>
    BY <1>4, <2>1 DEF GatePasses
  <2>3. /\ c.n = 0 \/ c.n = gate[g].n
        /\ \A x \in c.names \cup ({c.holds} \ {0}) : Showed(x, c.n)
    BY <1>1, <2>1 DEF Looking, Idle
  <2> QED
    BY <2>2, <2>3, GateMoves
<1>5. CASE GateHolds(g)
  <2>1. PICK c : c = [gate[g] EXCEPT !.holds = Least(gate[g].names), !.names = {}]
    OBVIOUS
  <2>2. /\ gate' = [gate EXCEPT ![g] = c] /\ log' = log
        /\ UNCHANGED <<record, local, placed, agents>> /\ gate[g].names # {}
    BY <1>5, <2>1 DEF GateHolds
  <2>3. /\ c.n = gate[g].n /\ c.names = {} /\ c.holds = Least(gate[g].names)
    BY <1>0, <2>1 DEF GateStates
  <2>4. \A x \in c.names \cup ({c.holds} \ {0}) : Showed(x, c.n)
    BY <1>1, <1>2, <2>2, <2>3
  <2> QED
    BY <2>2, <2>3, <2>4, GateMoves
<1>6. CASE GateReturns(g)
  <2>1. PICK n \in Attempts \cup {0}, h \in Ids \cup {0} : n = gate[g].n /\ h = gate[g].holds
    BY <1>0
  <2>2. /\ h # 0 /\ log' = [log EXCEPT ![n] = Append(log[n], h)]
        /\ gate' = [gate EXCEPT ![g] = Idle] /\ UNCHANGED <<record, local, placed, agents>>
    BY <1>6, <2>1 DEF GateReturns
  <2>3. Showed(h, n)
    BY <1>1, <2>1, <2>2
  <2>4. n \in Attempts
    BY <1>0, <2>1, <2>3, OfLaunched DEF Showed
  <2>5. ~ Quiet(n)
    BY <2>1 DEF Quiet
  <2>6. \E m \in Attempts, x \in Ids \cup {0} :
          log' = [log EXCEPT ![m] = Append(log[m], x)] /\ ~ Quiet(m) /\ (x # 0 => Showed(x, m))
    BY <2>2, <2>3, <2>4, <2>5
  <2>7. Idle.n = 0 /\ Idle.names = {} /\ Idle.holds = 0
    BY DEF Idle
  <2> QED
    BY <2>2, <2>6, <2>7, GateMoves
<1> QED
  BY <1>3, <1>4, <1>5, <1>6 DEF Gate

\* The record only grows, by one entry at a time.
LEMMA RecordGrows ==
  ASSUME TypeOK, record' \in Seq(Entries), [Next]_vars
  PROVE  /\ record' = record \/ \E e \in Entries : Adds(record, e, record')
         /\ LatestIn(record) <= LatestIn(record') /\ LatestIn(record') \in Nat
<1>1. record' = record \/ \E e : record' = Append(record, e)
  <2>1. CASE UNCHANGED vars
    BY <2>1 DEF vars
  <2>2. CASE Supervise
    <3>1. CASE TakeRequest \/ RefuseInput \/ AlreadyRecorded \/ Applied \/ RemoveFails \/ Drained
               \/ Poll \/ Decide \/ BeginPass \/ NothingOpen \/ PassEnds
      BY <3>1 DEF TakeRequest, RefuseInput, AlreadyRecorded, Applied, RemoveFails, Drained,
                  Poll, Decide, BeginPass, NothingOpen, PassEnds
    <3>2. CASE RecordInput
      BY <3>2 DEF RecordInput, Add
    <3>3. CASE DecideCommand
      BY <3>3 DEF DecideCommand, Add
    <3>4. CASE Conclude
      BY <3>4 DEF Conclude, Add
    <3>5. CASE \E id \in Ids : Desk(id)
      BY <3>5 DEF Desk, ExpirePending, Place, PlaceFails, Deliver, Withdraw, Settle, LeaveOpen,
                  Move, Add
    <3> QED
      BY <2>2, <3>1, <3>2, <3>3, <3>4, <3>5 DEF Supervise
  <2>3. CASE Launch \/ Reconcile
    BY <2>3 DEF Launch, Reconcile, Add
  <2>4. CASE OwnSubmission \/ Ask \/ AgentEnds \/ LeaveLive \/ Crash \/ Tick
             \/ (\E v \in {"input", "run", "reconcile"} : TakeLock(v)) \/ \E g \in Gates : Gate(g)
    BY <2>4 DEF OwnSubmission, Ask, AgentEnds, LeaveLive, Crash, Tick, TakeLock,
                Gate, GateCalls, GatePasses, GateHolds, GateReturns
  <2> QED
    BY <2>1, <2>2, <2>3, <2>4 DEF Next
<1>2. record \in Seq(Entries)
  BY DEF TypeOK
<1>3. ASSUME NEW e, record' = Append(record, e) PROVE e \in Entries /\ Adds(record, e, record')
  <2>1. record'[Len(record) + 1] = e /\ Len(record) + 1 \in DOMAIN record'
    BY <1>2, <1>3
  <2>2. e \in Entries
    BY <2>1, RecordTyped
  <2> QED
    BY <1>2, <1>3, <2>2, AddsIs
<1>4. LatestIn(record) \in Nat /\ LatestIn(record') \in Nat
  BY <1>2, RecordTyped
<1>5. CASE record' = record
  BY <1>4, <1>5
<1>6. CASE record' # record
  <2>1. PICK e \in Entries : Adds(record, e, record')
    BY <1>1, <1>3, <1>6
  <2> QED
    BY <1>2, <1>4, <2>1, LatestAdds
<1> QED
  BY <1>5, <1>6

\* A request stays of an attempt that was launched.
LEMMA AskingStep ==
  ASSUME TypeOK, Asking, record' \in Seq(Entries), [Next]_vars PROVE Asking'
<1>1. /\ LatestIn(record) <= LatestIn(record') /\ LatestIn(record) \in Nat
      /\ LatestIn(record') \in Nat
  BY RecordGrows, RecordTyped DEF TypeOK
<1>2. \A q : Proper(q, LatestIn(record)) => Proper(q, LatestIn(record'))
  BY <1>1 DEF Proper
<1>3. ASSUME LatestAttempt > 0, NEW clock \in Nat, NEW q \in Asked(clock)
      PROVE  Proper(q, LatestIn(record'))
  BY <1>1, <1>3, AskedIs, Reads DEF Proper
<1>4. at \in Nat /\ now \in Nat /\ batch \subseteq Requests /\ Requests \subseteq Nat
      /\ ask \in [Requests -> Asks]
  BY DEF TypeOK, LocalTyped, Requests
<1>5. LatestAttempt # 0 => LatestAttempt > 0
  BY <1>1, Reads
<1>6. \/ ask' = ask
      \/ \E f, q : Proper(q, LatestIn(record')) /\ ask' = [ask EXCEPT ![f] = q]
  <2>1. CASE Ask
    <3>1. PICK q \in Asked(now) : ask' = [ask EXCEPT ![Least(Unused)] = q]
      BY <2>1 DEF Ask
    <3>2. LatestAttempt > 0
      BY <2>1 DEF Ask
    <3>3. Proper(q, LatestIn(record'))
      BY <1>3, <1>4, <3>2
    <3> QED
      BY <3>1, <3>3
  <2>2. CASE UNCHANGED vars
    BY <2>2 DEF vars
  <2>3. CASE Next /\ ~ Ask
    <3>1. ASSUME Supervise PROVE ask' = ask
      <4>1. CASE \E id \in Ids : Desk(id)
        BY <4>1 DEF Desk, ExpirePending, Place, PlaceFails, Deliver, Withdraw, Settle, LeaveOpen
      <4> QED
        BY <3>1, <4>1 DEF Supervise, TakeRequest, RefuseInput, RecordInput, AlreadyRecorded,
             DecideCommand, Applied, RemoveFails, Drained, Poll, Decide, Conclude, BeginPass,
             NothingOpen, PassEnds
    <3> QED
      BY <2>3, <3>1 DEF Next, OwnSubmission, AgentEnds, LeaveLive, Crash, Tick, TakeLock, Launch,
           Reconcile, Gate, GateCalls, GatePasses, GateHolds, GateReturns
  <2> QED
    BY <2>1, <2>2, <2>3
<1>7. \A f \in Requests : Proper(ask'[f], LatestIn(record'))
  <2>1. \A f \in Requests : Proper(ask[f], LatestIn(record'))
    BY <1>2 DEF Asking
  <2> QED
    BY <1>4, <1>6, <2>1
<1>8. \/ cur' = cur \/ cur' = NoRequest \/ (\E f \in Requests : cur' = ask[f])
      \/ Proper(cur', LatestIn(record'))
  <2>1. CASE UNCHANGED vars
    BY <2>1 DEF vars, local
  <2>2. CASE OwnSubmission
    <3>1. CASE LatestAttempt = 0
      BY <2>2, <3>1 DEF OwnSubmission, Release
    <3>2. CASE LatestAttempt # 0
      BY <1>3, <1>4, <1>5, <2>2, <3>2 DEF OwnSubmission
    <3> QED
      BY <3>1, <3>2
  <2>3. CASE TakeRequest
    <3>1. Least(batch) \in Requests
      BY <1>4, <2>3, LeastOf DEF TakeRequest
    <3> QED
      BY <2>3, <3>1 DEF TakeRequest
  <2>4. CASE Next /\ ~ OwnSubmission /\ ~ TakeRequest
    <3>1. ASSUME Supervise PROVE cur' = cur \/ cur' = NoRequest
      <4>1. CASE \E id \in Ids : Desk(id)
        BY <4>1 DEF Desk, ExpirePending, Place, PlaceFails, Deliver, Withdraw, Settle, LeaveOpen
      <4> QED
        BY <2>4, <3>1, <4>1 DEF Supervise, RefuseInput, RecordInput, AlreadyRecorded,
             DecideCommand, Applied, RemoveFails, Drained, Poll, Decide, Conclude, BeginPass,
             NothingOpen, PassEnds, Goto, Release
    <3> QED
      BY <2>4, <3>1 DEF Next, Ask, AgentEnds, LeaveLive, Crash, Tick, TakeLock, Launch,
           Reconcile, Gate, GateCalls, GatePasses, GateHolds, GateReturns, Release, local
  <2> QED
    BY <2>1, <2>2, <2>3, <2>4
<1>9. Proper(cur', LatestIn(record'))
  <2>1. Proper(cur, LatestIn(record')) /\ Proper(NoRequest, LatestIn(record'))
        /\ \A f \in Requests : Proper(ask[f], LatestIn(record'))
    BY <1>2 DEF Asking, Proper
  <2> QED
    BY <1>8, <2>1
<1> QED
  BY <1>7, <1>9 DEF Asking

LEMMA RestStep ==
  ASSUME TypeOK, RecordInv(record), Asking, Rest, record' \in Seq(Entries), [Next]_vars
  PROVE  RecordInv(record') /\ Rest'
<1>1. CASE UNCHANGED vars
  <2>1. UNCHANGED <<record, local, placed, child>>
    BY <1>1 DEF vars
  <2> QED
    BY <2>1, NothingMoves
<1>2. CASE Next
  BY <1>2, RecordInputRest, DecideCommandRest, QueueRest, LaunchRest, EndsRest, ConcludeRest,
     BeginPassRest, PassEndsRest, DeskRest, GateRest DEF Next, Supervise
<1> QED
  BY <1>1, <1>2

LEMMA InvInit == ASSUME Init PROVE IInv
<1>0. /\ record = << >> /\ pc = "free" /\ sup = 0 /\ said = "none" /\ todo = {} /\ seen = {}
      /\ placed = {} /\ cur = NoRequest /\ NoRequest \in Asks
      /\ \A g \in Gates : gate[g] = Idle
      /\ \A n \in Attempts : log[n] = << >>
      /\ \A f \in Requests : ask[f] = NoRequest
  BY EntryTyped DEF Init, EntryKinds
<1>1. TypeOK
  <2>1. /\ record \in Seq(Entries) /\ placed \subseteq Ids /\ now \in Nat
        /\ ask \in [Requests -> Asks] /\ stage \in [Requests -> {"none", "queued", "gone"}]
    BY <1>0 DEF Init
  <2>2. LocalTyped
    BY <1>0 DEF Init, LocalTyped, Steps
  <2>3. Idle \in GateStates
    BY DEF Idle, GateStates
  <2>4. ChildTyped
    BY <2>3 DEF Init, ChildTyped
  <2> QED
    BY <2>1, <2>2, <2>4 DEF TypeOK
<1>2. \A k : AllIn(record, k) = {}
  BY <1>0 DEF AllIn
<1>3. IdsIn(record) = {} /\ LatestIn(record) = 0
  BY <1>2, FS_EmptySet DEF IdsIn, LatestIn
<1>4. \A id : StateIn(record, id) = "none"
  BY <1>0 DEF StateIn, AboutIn
<1>5. RecordInv(record)
  <2>1. Numbered(record)
    <3>1. 0 \in 0 .. MaxInputs /\ 1 .. 0 = {}
      BY OperatorInputAssumption
    <3> QED
      BY <1>3, <3>1 DEF Numbered
  <2>2. Once(record) /\ Launched(record) /\ SettledAtOutcome(record) /\ Judged(record)
    BY <1>2 DEF Once, Launched, SettledAtOutcome, Judged
  <2>3. Stands(record)
    BY <1>3, <1>4 DEF Stands
  <2> QED
    BY <2>1, <2>2, <2>3 DEF RecordInv
<1>6. Asking
  BY <1>0 DEF Asking, Proper
<1>7. Supervising
  BY <1>0, <1>3 DEF Supervising
<1>8. Settling
  BY <1>0 DEF Settling
<1>9. Showing
  BY <1>0 DEF Showing, Idle
<1>10. Telling
  BY <1>2 DEF Telling
<1> QED
  BY <1>1, <1>5, <1>6, <1>7, <1>8, <1>9, <1>10 DEF IInv

LEMMA InvStep == ASSUME IInv, [Next]_vars PROVE IInv'
<1>1. TypeOK'
  BY TypeStep DEF IInv, RecordInv
<1>2. record' \in Seq(Entries)
  BY <1>1 DEF TypeOK
<1>3. Asking'
  BY <1>2, AskingStep DEF IInv
<1>4. RecordInv(record') /\ Rest'
  BY <1>2, RestStep DEF IInv, Rest
<1> QED
  BY <1>1, <1>3, <1>4 DEF IInv, Rest

\* What holds between any two steps of the verb, the supervisor and its gates.
THEOREM Invariance == Spec => []IInv
<1>1. Init => IInv
  BY InvInit
<1>2. IInv /\ [Next]_vars => IInv'
  BY InvStep
<1> QED
  BY <1>1, <1>2, PTL DEF Spec

------------------------------------------------------------------------------
(* What it says of the properties.                                         *)

\* Every variable keeps its type, whoever holds the lock and whatever is killed.
THEOREM TypeCorrect == Spec => []TypeOK
  BY Invariance, PTL DEF IInv

\* A submission is recorded once however often its file is taken, and a command
\* is refused as stale only for a record that its own input did not make.
THEOREM SubmissionsStayDecided == Spec => []SubmissionsDecided
<1>1. IInv => SubmissionsDecided
  <2> SUFFICES ASSUME IInv PROVE SubmissionsDecided
    OBVIOUS
  <2>1. Once(record) /\ Judged(record)
    BY DEF IInv, RecordInv
  <2>2. RecordedOnce
    <3>1. ASSUME NEW id \in IdsIn(record), NEW other \in IdsIn(record),
                 SubIn(record, id) = SubIn(record, other)
          PROVE  id = other
      <4>1. PICK i \in AllIn(record, "input") : id = record[i].id
        BY DEF IdsIn
      <4>2. PICK j \in AllIn(record, "input") : other = record[j].id
        BY DEF IdsIn
      <4>3. SubIn(record, id) = record[i].sub /\ SubIn(record, other) = record[j].sub
        BY <2>1, <4>1, <4>2, SubIs
      <4> QED
        BY <2>1, <3>1, <4>1, <4>2, <4>3 DEF Once
    <3> QED
      BY <3>1, Reads DEF RecordedOnce
  <2>3. StaleForAnother
    <3>1. All("decided") = AllIn(record, "decided") /\ All("input") = AllIn(record, "input")
      BY Reads
    <3> QED
      BY <2>1, <3>1 DEF StaleForAnother, Judged, OwnIn
  <2> QED
    BY <2>2, <2>3 DEF SubmissionsDecided
<1> QED
  BY <1>1, Invariance, PTL

\* What the record says of a note at the end is what the gates did with it: none
\* is left open when its supervisor records the outcome, none is acknowledged
\* that no gate logged, and none that a gate logged where the supervisor reads
\* is told to have expired unread with its attempt.
THEOREM NotesStayTold == Spec => []NotesTold
<1>1. IInv => NotesTold
  <2> SUFFICES ASSUME IInv PROVE NotesTold
    OBVIOUS
  <2>1. /\ All("outcome") = AllIn(record, "outcome") /\ All("state") = AllIn(record, "state")
        /\ \A n : Unsettled(n) = OpenIn(record, n)
    BY Reads
  <2>2. NotesSettled
    BY <2>1 DEF IInv, RecordInv, SettledAtOutcome, NotesSettled
  <2>3. AcknowledgedWasReturned /\ EndedUnread
    BY <2>1 DEF IInv, Telling, AcknowledgedWasReturned, EndedUnread
  <2> QED
    BY <2>2, <2>3 DEF NotesTold
<1> QED
  BY <1>1, Invariance, PTL

\* What a step appends, and from which state it moves an input.
LEMMA Appended ==
  ASSUME IInv, [Next]_vars, record' # record
  PROVE  \E e \in Entries :
           /\ Adds(record, e, record')
           /\ \/ e.kind = "decided" \/ e.id = 0
              \/ /\ e.kind = "input" /\ e.word = "pending"
                 /\ e.id = Cardinality(IdsIn(record)) + 1 /\ e.id \in Ids
              \/ /\ e.kind = "state" /\ e.id \in IdsIn(record)
                 /\ <<StateIn(record, e.id), e.word>> \in
                      {<<"pending", "delivered">>, <<"pending", "expired">>,
                       <<"delivered", "acknowledged">>, <<"delivered", "expired">>}
<1>0. TypeOK /\ RecordInv(record) /\ Rest /\ record \in Seq(Entries) /\ record' \in Seq(Entries)
  BY InvStep DEF IInv, TypeOK, Rest
<1>1. PICK e \in Entries : Adds(record, e, record')
  BY <1>0, RecordGrows
<1>2. \A x \in Entries : record' = Append(record, x) => x = e
  BY <1>0, <1>1 DEF Adds
<1>3. CASE RecordInput
  <2>1. /\ e.kind = "input" /\ e.word = "pending" /\ e.id = Cardinality(IdsIn(record)) + 1
        /\ Cardinality(IdsIn(record)) < MaxInputs
    BY <1>0, <1>2, <1>3, InputAppended
  <2>2. e.id \in Ids
    BY <1>0, <2>1, IdsAre, OperatorInputAssumption DEF RecordInv, Ids
  <2> QED
    BY <1>1, <2>1, <2>2
<1>4. ASSUME NEW x, record' = Append(record, x) PROVE e = x
  BY <1>0, <1>1, <1>4 DEF Adds
<1>5. CASE DecideCommand
  <2>1. PICK id, word :
          record' = Append(record, [Entry("decided", LatestAttempt) EXCEPT
                                      !.id = id, !.key = from, !.ver = cur.ver, !.word = word])
    BY <1>5 DEF DecideCommand, Add
  <2>2. e = [Entry("decided", LatestAttempt) EXCEPT
               !.id = id, !.key = from, !.ver = cur.ver, !.word = word]
    BY <1>4, <2>1
  <2>3. e.kind = "decided"
    BY <2>2 DEF Entry
  <2> QED
    BY <1>1, <2>3
<1>6. CASE Conclude \/ Launch \/ Reconcile
  <2>1. \/ e = [Entry("outcome", sup) EXCEPT !.word = said]
        \/ e = Entry("intent", LatestAttempt + 1) \/ e = Entry("reconciled", LatestAttempt)
    BY <1>4, <1>6 DEF Conclude, Launch, Reconcile, Add
  <2>2. e.id = 0
    BY <2>1 DEF Entry
  <2> QED
    BY <1>1, <2>2
<1>7. CASE \E id \in Ids : Desk(id)
  <2>1. PICK id \in Ids : Desk(id)
    BY <1>7
  <2>2. \E word \in Moved : /\ Move(id, word)
                            /\ id = Least(todo) /\ todo # {}
                            /\ <<StateIn(record, id), word>> \in
                                 {<<"pending", "delivered">>, <<"pending", "expired">>,
                                  <<"delivered", "acknowledged">>, <<"delivered", "expired">>}
    <3>1. CASE ExpirePending(id)
      <4>1. Move(id, "expired") /\ StateIn(record, id) = "pending" /\ id = Least(todo) /\ todo # {}
        BY <3>1, Reads DEF ExpirePending, Turn
      <4> QED
        BY <4>1 DEF Moved
    <3>2. CASE Deliver(id)
      <4>1. /\ Move(id, "delivered") /\ StateIn(record, id) = "pending" /\ id = Least(todo)
            /\ todo # {}
        BY <1>0, <3>2 DEF Deliver, Rest, Settling
      <4> QED
        BY <4>1 DEF Moved
    <3>3. CASE Settle(id)
      <4>1. /\ Move(id, "acknowledged") \/ Move(id, "expired")
            /\ StateIn(record, id) = "delivered" /\ id = Least(todo) /\ todo # {}
        BY <1>0, <3>3 DEF Settle, Rest, Settling
      <4> QED
        BY <4>1 DEF Moved
    <3> QED
      BY <2>1, <3>1, <3>2, <3>3 DEF Desk, Place, PlaceFails, Withdraw, LeaveOpen
  <2>3. PICK word \in Moved :
          /\ Move(id, word)
          /\ id = Least(todo) /\ todo # {}
          /\ <<StateIn(record, id), word>> \in
               {<<"pending", "delivered">>, <<"pending", "expired">>,
                <<"delivered", "acknowledged">>, <<"delivered", "expired">>}
    BY <2>2
  <2>4. id \in IdsIn(record)
    <3>1. todo \subseteq Nat
      BY <1>0 DEF TypeOK, LocalTyped, Ids
    <3>2. id \in todo
      BY <2>3, <3>1, LeastOf
    <3> QED
      BY <1>0, <3>2 DEF Rest, Settling
  <2>5. PICK x \in Entries : record' = Append(record, x) /\ x.kind = "state" /\ x.id = id
                             /\ x.word = word
    BY <1>0, <2>3, MoveIs
  <2>6. e = x
    BY <1>4, <2>5
  <2>7. <<StateIn(record, e.id), e.word>> = <<StateIn(record, id), word>>
    BY <2>5, <2>6
  <2> QED
    BY <1>1, <2>3, <2>4, <2>5, <2>6, <2>7
<1> QED
  <2>1. CASE Supervise
    BY <1>3, <1>5, <1>6, <1>7, <2>1 DEF Supervise, TakeRequest, RefuseInput, AlreadyRecorded,
       Applied, RemoveFails, Drained, Poll, Decide, BeginPass, NothingOpen, PassEnds
  <2>2. CASE ~ Supervise
    BY <1>6, <2>2 DEF Next, vars, OwnSubmission, Ask, AgentEnds, LeaveLive, Crash, Tick, TakeLock,
       Gate, GateCalls, GatePasses, GateHolds, GateReturns
  <2> QED
    BY <2>1, <2>2

\* Every step moves one input as InputStates allows, or none.
LEMMA StatesStep ==
  ASSUME IInv, [Next]_vars
  PROVE  Abstract!Next \/ UNCHANGED [id \in Ids |-> StateOf(id)]
<1>0. record \in Seq(Entries) /\ RecordInv(record)
  BY DEF IInv, TypeOK
<1>1. PICK s : s = [id \in Ids |-> StateIn(record, id)]
  OBVIOUS
<1>2. PICK t : t = [id \in Ids |-> StateIn(record', id)]
  OBVIOUS
<1>3. s = [id \in Ids |-> StateOf(id)]
  BY <1>1, Reads
<1>4. t = [id \in Ids |-> StateOf(id)]'
  BY <1>2 DEF StateOf, StateIn, AboutIn, LastIn
<1>5. CASE t = s
  BY <1>3, <1>4, <1>5
<1>6. CASE t # s
  <2>1. record' # record
    BY <1>1, <1>2, <1>6
  <2>2. PICK e \in Entries :
           /\ Adds(record, e, record')
           /\ \/ e.kind = "decided" \/ e.id = 0
              \/ /\ e.kind = "input" /\ e.word = "pending"
                 /\ e.id = Cardinality(IdsIn(record)) + 1 /\ e.id \in Ids
              \/ /\ e.kind = "state" /\ e.id \in IdsIn(record)
                 /\ <<StateIn(record, e.id), e.word>> \in
                      {<<"pending", "delivered">>, <<"pending", "expired">>,
                       <<"delivered", "acknowledged">>, <<"delivered", "expired">>}
    BY <2>1, Appended
  <2>3. \A id : StateIn(record', id) =
                  IF e.kind # "decided" /\ e.id = id THEN e.word ELSE StateIn(record, id)
    BY <1>0, <2>2, StateAdds
  <2>4. e.kind # "decided" /\ e.id # 0
    <3>1. ASSUME e.kind = "decided" \/ e.id = 0 PROVE FALSE
      <4>1. \A id \in Ids : StateIn(record', id) = StateIn(record, id)
        BY <2>3, <3>1 DEF Ids
      <4> QED
        BY <1>1, <1>2, <1>6, <4>1
    <3> QED
      BY <3>1
  <2>5. /\ IdsIn(record) \subseteq Ids
        /\ Cardinality(IdsIn(record)) \in Nat /\ IdsIn(record) = 1 .. Cardinality(IdsIn(record))
    BY <1>0, IdsAre DEF RecordInv
  <2>6. PICK i \in Ids : i = e.id
    BY <2>2, <2>4, <2>5
  <2> DEFINE w == e.word
  <2>7. t = [s EXCEPT ![i] = w]
    BY <1>1, <1>2, <2>3, <2>4, <2>6
  <2>8. i \notin IdsIn(record) => s[i] = "none"
    BY <1>0, <1>1 DEF RecordInv, Stands
  <2>9. \/ s[i] = "none" /\ w = "pending"
        \/ <<s[i], w>> \in {<<"pending", "delivered">>, <<"pending", "expired">>,
                            <<"delivered", "acknowledged">>, <<"delivered", "expired">>}
    <3>1. s[i] = StateIn(record, e.id)
      BY <1>1, <2>6
    <3>2. CASE e.kind = "input"
      <4>1. e.word = "pending" /\ e.id = Cardinality(IdsIn(record)) + 1
        BY <2>2, <2>4, <3>2
      <4>2. i \notin IdsIn(record)
        BY <2>5, <2>6, <4>1
      <4> QED
        BY <2>6, <2>8, <4>1, <4>2
    <3>3. CASE e.kind # "input"
      BY <2>2, <2>4, <2>6, <3>1, <3>3
    <3> QED
      BY <3>2, <3>3
  <2>10. \A j \in 1 .. i - 1 : s[j] # "none"
    <3>1. i <= Cardinality(IdsIn(record)) + 1
      BY <2>2, <2>4, <2>5, <2>6 DEF Ids
    <3>2. \A j \in 1 .. i - 1 : j \in IdsIn(record)
      BY <2>5, <3>1 DEF Ids
    <3>3. \A j \in IdsIn(record) : s[j] # "none"
      BY <1>0, <1>1, <2>5 DEF RecordInv, Stands
    <3> QED
      BY <3>2, <3>3
  <2>11. t[i] = w
    BY <1>1, <2>7
  <2>12. w \in {"pending", "delivered", "acknowledged", "expired"}
    BY <2>9
  <2>13. <<s[i], t[i]>> \in Abstract!Moves
    BY <2>9, <2>11 DEF Abstract!Moves
  <2>14. Abstract!Move(i)
    BY <1>3, <1>4, <2>7, <2>10, <2>12, <2>13 DEF Abstract!Move
  <2> QED
    BY <1>3, <1>4, <1>6, <2>14 DEF Abstract!Next, Abstract!Inputs, Ids
<1> QED
  BY <1>5, <1>6

\* The input verb, the supervisor and the gate, with their kills and retries,
\* implement the states of spec 053.
THEOREM RecordImplementsStates == Spec => ImplementsInputStates
<1>1. Init => Abstract!Init
  <2> SUFFICES ASSUME Init PROVE Abstract!Init
    OBVIOUS
  <2>1. \A id : StateOf(id) = "none"
    BY DEF Init, StateOf
  <2> QED
    BY <2>1 DEF Abstract!Init, Abstract!Inputs, Ids
<1>2. IInv /\ [Next]_vars => Abstract!Next \/ UNCHANGED [id \in Ids |-> StateOf(id)]
  BY StatesStep
<1> QED
  BY <1>1, <1>2, Invariance, PTL DEF Spec, ImplementsInputStates, Abstract!Spec

=============================================================================
