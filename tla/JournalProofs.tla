----------------------------- MODULE JournalProofs -----------------------------
(***************************************************************************)
(* Theorems about the files of a repository that only grow: the run        *)
(* record, for any set of processes and any bound; then the override       *)
(* journal with its state authority; then the observation chain, whose     *)
(* admissions cross into the run record.                                   *)
(***************************************************************************)
EXTENDS RunRecord, OverrideJournal, ProposalLedger, TLAPS, WellFoundedInduction, NaturalsInduction,
        FiniteSetTheorems, SequenceTheorems

------------------------------------------------------------------------------
(* The run record.                                                         *)

\* The part of the type invariant about what the processes hold.
LocalTypeOK ==
  /\ holder \in Proc \cup {NoProc}
  /\ step \in [Proc -> Steps]
  /\ head \in [Proc -> Nat]
  /\ memory \in [Proc -> Seq(Record)]
  /\ tornSeen \in [Proc -> BOOLEAN]
  /\ pending \in [Proc -> Record]

\* The sets the variables of the record range over.
LEMMA RecordTypes ==
  /\ Garbage \in Record
  /\ Anchor \in Nat
  /\ {"idle", "locked", "open", "cut", "write", "sync"} = Steps
  /\ \A a, b \in Nat : [id |-> a, prev |-> b] \in Record
  /\ \A r \in Record : r.id \in Nat /\ r.prev \in Nat
BY DEF Garbage, Record, Anchor, Steps

\* Giving up the lock and the chain keeps the types.
LEMMA ForgetType ==
  ASSUME TypeOK, NEW p \in Proc, Forget(p)
  PROVE  LocalTypeOK'
BY RecordTypes DEF TypeOK, Forget, LocalTypeOK

\* A failed append keeps the types of what the process holds.
LEMMA AppendFailedType ==
  ASSUME TypeOK, NEW p \in Proc, AppendFailed(p)
  PROVE  LocalTypeOK'
<1>1. CASE Forget(p)
  BY <1>1, ForgetType
<1>2. CASE step' = [step EXCEPT ![p] = "open"]
           /\ tornSeen' = [tornSeen EXCEPT ![p] = FALSE]
           /\ UNCHANGED <<holder, head, memory, pending>>
  BY <1>2, RecordTypes DEF TypeOK, LocalTypeOK
<1> QED
  BY <1>1, <1>2 DEF AppendFailed

\* Every variable keeps its type in every step of the specification.
LEMMA TypeStep == TypeOK /\ [Next]_vars => TypeOK'
<1> SUFFICES ASSUME TypeOK, [Next]_vars PROVE TypeOK'
  OBVIOUS
<1> USE RecordTypes DEF TypeOK, LocalTypeOK, file, local
<1>1. CASE PowerLoss
  <2>1. PICK n \in synced .. Len(lines) :
          /\ lines' = SubSeq(lines, 1, n)
          /\ torn' \in IF dirty THEN BOOLEAN ELSE {torn}
          /\ synced' = n
    BY <1>1 DEF PowerLoss
  <2>2. n \in Nat /\ n <= Len(lines)
    BY <2>1
  <2>3. lines' \in Seq(Record) /\ Len(lines') = n
    BY <2>1, <2>2
  <2>4. torn' \in BOOLEAN
    BY <2>1
  <2>5. LocalTypeOK' /\ dirty' = FALSE /\ linked' = linked /\ acked' = acked
    BY <1>1 DEF PowerLoss
  <2>6. synced' \in 0 .. Len(lines')
    BY <2>1, <2>2, <2>3
  <2> QED
    BY <2>3, <2>4, <2>5, <2>6
<1>2. ASSUME NEW p \in Proc, TryAcquire(p) PROVE TypeOK'
  BY <1>2 DEF TryAcquire
<1>3. ASSUME NEW p \in Proc, OpenChain(p) PROVE TypeOK'
  <2>1. HeadOf(lines) \in Nat
    BY DEF HeadOf
  <2>2. LocalTypeOK'
    <3>1. CASE Forget(p)
      BY <3>1, ForgetType
    <3>2. CASE step' = [step EXCEPT ![p] = "open"]
               /\ head' = [head EXCEPT ![p] = HeadOf(lines)]
               /\ memory' = [memory EXCEPT ![p] = lines]
               /\ tornSeen' = [tornSeen EXCEPT ![p] = torn]
               /\ UNCHANGED <<holder, pending>>
      BY <2>1, <3>2
    <3> QED
      BY <1>3, <3>1, <3>2 DEF OpenChain
  <2> QED
    BY <1>3, <2>2 DEF OpenChain
<1>4. ASSUME NEW p \in Proc, BeginAppend(p) PROVE TypeOK'
  <2>1. [id |-> linked + 1, prev |-> head[p]] \in Record
    OBVIOUS
  <2> QED
    BY <1>4, <2>1 DEF BeginAppend
<1>5. ASSUME NEW p \in Proc, CutTail(p) PROVE TypeOK'
  <2>1. LocalTypeOK'
    <3>1. CASE AppendFailed(p)
      BY <3>1, AppendFailedType
    <3>2. CASE step' = [step EXCEPT ![p] = "write"]
               /\ tornSeen' = [tornSeen EXCEPT ![p] = FALSE]
               /\ UNCHANGED <<holder, head, memory, pending>>
      BY <3>2
    <3> QED
      BY <1>5, <3>1, <3>2 DEF CutTail
  <2>2. torn' \in BOOLEAN /\ dirty' \in BOOLEAN /\ synced' \in {synced, Len(lines)}
    BY <1>5 DEF CutTail
  <2>3. synced' \in 0 .. Len(lines)
    BY <2>2
  <2> QED
    BY <1>5, <2>1, <2>2, <2>3 DEF CutTail
<1>6. ASSUME NEW p \in Proc, WriteLine(p) PROVE TypeOK'
  <2>1. LocalTypeOK'
    <3>1. CASE AppendFailed(p)
      BY <3>1, AppendFailedType
    <3>2. CASE step' = [step EXCEPT ![p] = "sync"]
               /\ UNCHANGED <<holder, head, memory, tornSeen, pending>>
      BY <3>2
    <3> QED
      BY <1>6, <3>1, <3>2 DEF WriteLine
  <2>2. (IF torn THEN Garbage ELSE pending[p]) \in Record
    OBVIOUS
  <2>3. lines' \in Seq(Record) /\ Len(lines) <= Len(lines')
    <3>1. CASE lines' = lines
      BY <3>1
    <3>2. CASE lines' = Append(lines, IF torn THEN Garbage ELSE pending[p])
      <4> DEFINE r == IF torn THEN Garbage ELSE pending[p]
      <4>1. r \in Record
        BY <2>2
      <4> HIDE DEF r
      <4>2. Append(lines, r) \in Seq(Record) /\ Len(Append(lines, r)) = Len(lines) + 1
        BY <4>1
      <4> QED
        BY <3>2, <4>2 DEF r
    <3> QED
      BY <1>6, <3>1, <3>2 DEF WriteLine
  <2>4. torn' \in BOOLEAN /\ dirty' \in BOOLEAN
    BY <1>6 DEF WriteLine
  <2>5. synced' = synced /\ linked' = linked /\ acked' = acked
    BY <1>6 DEF WriteLine
  <2>6. synced' \in 0 .. Len(lines')
    <3>1. lines \in Seq(Record) /\ Len(lines) \in Nat /\ Len(lines') \in Nat
      BY <2>3
    <3>2. synced \in 0 .. Len(lines)
      OBVIOUS
    <3> QED
      BY ONLY <2>3, <2>5, <3>1, <3>2
  <2>7. linked' \in Nat /\ acked' \subseteq Nat
    BY <2>5
  <2> QED
    BY ONLY <2>1, <2>3, <2>4, <2>6, <2>7 DEF TypeOK, LocalTypeOK
<1>7. ASSUME NEW p \in Proc, SyncRecord(p) PROVE TypeOK'
  <2>1. Append(memory[p], pending[p]) \in Seq(Record)
    OBVIOUS
  <2>2. LocalTypeOK'
    <3>1. CASE AppendFailed(p)
      BY <3>1, AppendFailedType
    <3>2. CASE /\ memory' = [memory EXCEPT ![p] = Append(memory[p], pending[p])]
               /\ step' = [step EXCEPT ![p] = "open"]
               /\ UNCHANGED <<holder, head, tornSeen, pending>>
      BY <2>1, <3>2
    <3>3. \/ AppendFailed(p)
          \/ /\ memory' = [memory EXCEPT ![p] = Append(memory[p], pending[p])]
             /\ step' = [step EXCEPT ![p] = "open"]
             /\ UNCHANGED <<holder, head, tornSeen, pending>>
      BY <1>7, Zenon DEF SyncRecord
    <3> QED
      BY <3>1, <3>2, <3>3
  <2>3. dirty' \in BOOLEAN /\ synced' \in {synced, Len(lines)} /\ acked' \subseteq Nat
    BY <1>7 DEF SyncRecord
  <2>4. synced' \in 0 .. Len(lines)
    BY <2>3
  <2> QED
    BY <1>7, <2>2, <2>3, <2>4 DEF SyncRecord
<1>8. ASSUME NEW p \in Proc, CloseChain(p) PROVE TypeOK'
  BY <1>8, ForgetType DEF CloseChain
<1>9. ASSUME NEW p \in Proc, Kill(p) PROVE TypeOK'
  BY <1>9, ForgetType DEF Kill
<1>10. CASE UNCHANGED vars
  BY <1>10 DEF vars
<1> QED
  BY <1>1, <1>2, <1>3, <1>4, <1>5, <1>6, <1>7, <1>8, <1>9, <1>10 DEF Next

\* The type invariant holds in every behaviour.
THEOREM TypeCorrect == Spec => []TypeOK
<1>1. ASSUME Init PROVE TypeOK
  <2>1. << >> \in Seq(Record) /\ Len(<< >>) = 0
    OBVIOUS
  <2>2. lines \in Seq(Record) /\ synced \in 0 .. Len(lines)
    BY <1>1, <2>1 DEF Init
  <2>3. memory \in [Proc -> Seq(Record)]
    BY <1>1, <2>1 DEF Init
  <2> QED
    BY <1>1, <2>2, <2>3, RecordTypes DEF Init, TypeOK
<1> QED
  BY <1>1, TypeStep, PTL DEF Spec
------------------------------------------------------------------------------

\* What linking one more record, and keeping a prefix, does to a linked chain.
LEMMA LinkedAppend ==
  ASSUME NEW s \in Seq(Record), Linked(s), NEW r \in Record,
         r # Garbage, r.prev = HeadOf(s)
  PROVE  Linked(Append(s, r)) /\ HeadOf(Append(s, r)) = r.id
<1> DEFINE t == Append(s, r)
<1>1. /\ t \in Seq(Record) /\ Len(t) = Len(s) + 1 /\ t # << >>
      /\ \A i \in 1 .. Len(s) : t[i] = s[i]
      /\ t[Len(s) + 1] = r
  OBVIOUS
<1>2. ASSUME NEW i \in DOMAIN t PROVE t[i] # Garbage /\ t[i].prev = IdBefore(t, i)
  <2>1. CASE i \in 1 .. Len(s)
    <3>1. s[i] # Garbage /\ s[i].prev = IdBefore(s, i)
      BY <2>1 DEF Linked
    <3>2. t[i] = s[i] /\ (i # 1 => t[i - 1] = s[i - 1])
      BY <1>1, <2>1
    <3> QED
      BY <3>1, <3>2 DEF IdBefore
  <2>2. CASE i = Len(s) + 1
    <3>1. CASE s = << >>
      BY <1>1, <2>2, <3>1 DEF IdBefore, HeadOf
    <3>2. CASE s # << >>
      <4>1. Len(s) \in 1 .. Len(s)
        BY <3>2
      <4> QED
        BY <1>1, <2>2, <3>2, <4>1 DEF IdBefore, HeadOf
    <3> QED
      BY <3>1, <3>2
  <2> QED
    BY <1>1, <2>1, <2>2
<1>3. HeadOf(t) = r.id
  BY <1>1 DEF HeadOf
<1> QED
  BY <1>2, <1>3 DEF Linked

\* A prefix of linked lines is linked.
LEMMA LinkedPrefix ==
  ASSUME NEW s \in Seq(Record), Linked(s), NEW n \in 0 .. Len(s)
  PROVE  Linked(SubSeq(s, 1, n))
<1> DEFINE t == SubSeq(s, 1, n)
<1>1. Len(t) = n /\ DOMAIN t = 1 .. n /\ \A i \in 1 .. n : t[i] = s[i]
  OBVIOUS
<1> HIDE DEF t
<1>2. ASSUME NEW i \in 1 .. n PROVE t[i] # Garbage /\ t[i].prev = IdBefore(t, i)
  <2>1. i \in DOMAIN s /\ (i # 1 => i - 1 \in 1 .. n)
    OBVIOUS
  <2>2. s[i] # Garbage /\ s[i].prev = IdBefore(s, i)
    BY <2>1 DEF Linked
  <2> QED
    BY <1>1, <2>1, <2>2 DEF IdBefore
<1> QED
  BY <1>1, <1>2 DEF Linked, t

\* A process that gives up the lock leaves nobody past "idle".
LEMMA ForgetAgrees ==
  ASSUME TypeOK, WriterAgrees, NEW p \in Proc, step[p] # "idle", Forget(p)
  PROVE  WriterAgrees'
<1>1. ASSUME NEW q \in Proc PROVE step'[q] = "idle"
  BY RunRecordAssumption DEF TypeOK, WriterAgrees, Forget
<1> QED
  BY <1>1 DEF WriterAgrees

\* Where every caller stops at its first failed append, a failed append is a
\* process that gives up its chain.
LEMMA FailedMeansForgotten ==
  ASSUME CarryOn = FALSE, NEW p \in Proc, AppendFailed(p)
  PROVE  Forget(p)
BY DEF AppendFailed

\* The inductive step.
LEMMA ChainStep ==
  ASSUME CarryOn = FALSE, TypeOK, ChainInv, [Next]_vars
  PROVE  ChainInv'
<1> USE DEF ChainInv
<1>t. TypeOK'
  BY TypeStep
\* An action of p that keeps p as the holder disturbs no other process.
<1>o. ASSUME NEW p \in Proc, holder = p, holder' = p,
             \A q \in Proc : q # p => step'[q] = step[q]
      PROVE  \A q \in Proc : q # p => step'[q] = "idle"
  BY <1>o DEF WriterAgrees
<1>1. CASE PowerLoss
  <2>1. PICK n \in synced .. Len(lines) : lines' = SubSeq(lines, 1, n)
    BY <1>1 DEF PowerLoss
  <2>2. n \in 0 .. Len(lines) /\ lines \in Seq(Record)
    BY <2>1 DEF TypeOK
  <2>3. Linked(lines)'
    BY <2>1, <2>2, LinkedPrefix
  <2>4. \A q \in Proc : step'[q] = "idle"
    BY <1>1 DEF PowerLoss
  <2> QED
    BY <2>3, <2>4 DEF WriterAgrees
<1>2. ASSUME NEW p \in Proc, TryAcquire(p) PROVE ChainInv'
  <2>1. \A q \in Proc : q # p => step'[q] = "idle"
    BY <1>2, RunRecordAssumption DEF TryAcquire, WriterAgrees, TypeOK
  <2>2. step'[p] = "locked" /\ holder' = p /\ lines' = lines
    BY <1>2 DEF TryAcquire, TypeOK, file
  <2> QED
    BY <2>1, <2>2 DEF WriterAgrees, Linked, IdBefore
<1>3. ASSUME NEW p \in Proc, OpenChain(p) PROVE ChainInv'
  <2>0. lines' = lines /\ torn' = torn /\ Linked(lines)
    BY <1>3 DEF OpenChain, file
  <2>1. /\ step' = [step EXCEPT ![p] = "open"]
        /\ head' = [head EXCEPT ![p] = HeadOf(lines)]
        /\ memory' = [memory EXCEPT ![p] = lines]
        /\ tornSeen' = [tornSeen EXCEPT ![p] = torn]
        /\ holder' = holder
        /\ holder = p
    BY <1>3 DEF OpenChain, WriterAgrees
  <2>2. \A q \in Proc : q # p => step'[q] = "idle"
    <3>1. \A q \in Proc : q # p => step'[q] = step[q]
      BY <2>1 DEF TypeOK
    <3> QED
      BY <1>o, <2>1, <3>1
  <2>3. /\ step'[p] = "open" /\ head'[p] = HeadOf(lines)
        /\ memory'[p] = lines /\ tornSeen'[p] = torn
    BY <2>1 DEF TypeOK
  <2> QED
    BY <2>0, <2>1, <2>2, <2>3 DEF WriterAgrees, Linked, IdBefore, HeadOf
<1>4. ASSUME NEW p \in Proc, BeginAppend(p) PROVE ChainInv'
  <2>0. lines' = lines /\ torn' = torn /\ Linked(lines)
    BY <1>4 DEF BeginAppend, file
  <2>1. /\ holder = p /\ holder' = p
        /\ memory[p] = lines /\ head[p] = HeadOf(lines) /\ tornSeen[p] = torn
    BY <1>4 DEF BeginAppend, WriterAgrees
  <2>2. \A q \in Proc : q # p => step'[q] = "idle"
    <3>1. \A q \in Proc : q # p => step'[q] = step[q]
      BY <1>4 DEF BeginAppend, TypeOK
    <3> QED
      BY <1>o, <2>1, <3>1
  <2>3. /\ step'[p] = (IF torn THEN "cut" ELSE "write")
        /\ memory'[p] = lines /\ tornSeen'[p] = torn
        /\ pending'[p] = [id |-> linked + 1, prev |-> HeadOf(lines)]
        /\ head'[p] = linked + 1
    BY <1>4, <2>1 DEF BeginAppend, TypeOK
  <2>4. /\ pending'[p] # Garbage /\ pending'[p].prev = HeadOf(lines)
        /\ pending'[p].id = head'[p]
    BY <2>3 DEF Garbage, TypeOK
  <2>5. torn \in BOOLEAN
    BY DEF TypeOK
  <2> HIDE DEF ChainInv
  <2>6. WriterAgrees'
    <3> SUFFICES ASSUME NEW q \in Proc
                 PROVE  /\ step'[q] # "idle" => holder' = q
                        /\ step'[q] = "open" =>
                             /\ memory'[q] = lines'
                             /\ head'[q] = HeadOf(lines)'
                             /\ tornSeen'[q] = torn'
                        /\ step'[q] \in {"cut", "write"} =>
                             /\ memory'[q] = lines'
                             /\ pending'[q] # Garbage
                             /\ pending'[q].prev = HeadOf(lines)'
                             /\ pending'[q].id = head'[q]
                        /\ step'[q] = "sync" =>
                             /\ lines' = Append(memory'[q], pending'[q])
                             /\ pending'[q].id = head'[q]
                        /\ step'[q] \in {"write", "sync"} => ~ torn' /\ ~ tornSeen'[q]
      BY DEF WriterAgrees
    <3>1. CASE q # p
      BY <2>2, <3>1
    <3>2. CASE q = p
      BY <2>0, <2>1, <2>3, <2>4, <2>5, <3>2 DEF HeadOf
    <3> QED
      BY <3>1, <3>2
  <2> QED
    BY <2>0, <2>6 DEF ChainInv, Linked, IdBefore
<1>5. ASSUME NEW p \in Proc, CutTail(p) PROVE ChainInv'
  <2>0. lines' = lines /\ Linked(lines)
    BY <1>5 DEF CutTail
  <2>1. CASE Forget(p)
    <3>1. step[p] # "idle"
      BY <1>5 DEF CutTail
    <3>2. WriterAgrees'
      BY <2>1, <3>1, ForgetAgrees
    <3> QED
      BY <2>0, <3>2 DEF Linked, IdBefore
  <2>2. CASE /\ torn' = FALSE
             /\ step' = [step EXCEPT ![p] = "write"]
             /\ tornSeen' = [tornSeen EXCEPT ![p] = FALSE]
             /\ UNCHANGED <<holder, head, memory, pending>>
    <3>1. /\ step[p] = "cut" /\ holder = p /\ memory[p] = lines
          /\ pending[p] # Garbage /\ pending[p].prev = HeadOf(lines)
          /\ pending[p].id = head[p]
      BY <1>5 DEF CutTail, WriterAgrees
    <3>2. \A q \in Proc : q # p => step'[q] = "idle"
      <4>1. \A q \in Proc : q # p => step'[q] = step[q]
        BY <2>2 DEF TypeOK
      <4> QED
        BY <1>o, <2>2, <3>1, <4>1
    <3>3. step'[p] = "write" /\ tornSeen'[p] = FALSE
      BY <2>2 DEF TypeOK
    <3>4. Linked(lines)' /\ HeadOf(lines)' = HeadOf(lines)
      BY <2>0 DEF Linked, IdBefore, HeadOf
    <3>5. WriterAgrees'
      BY <2>0, <2>2, <3>1, <3>2, <3>3, <3>4 DEF WriterAgrees
    <3> QED
      BY <3>4, <3>5
  <2> QED
    BY <1>5, <2>1, <2>2, FailedMeansForgotten DEF CutTail
<1>6. ASSUME NEW p \in Proc, WriteLine(p) PROVE ChainInv'
  <2>0. /\ step[p] = "write" /\ holder = p /\ memory[p] = lines /\ ~ torn
        /\ ~ tornSeen[p] /\ pending[p] # Garbage
        /\ pending[p].prev = HeadOf(lines) /\ pending[p].id = head[p]
    BY <1>6 DEF WriteLine, WriterAgrees
  <2>1. CASE lines' = lines /\ Forget(p)
    <3>1. WriterAgrees'
      BY <2>0, <2>1, ForgetAgrees
    <3> QED
      BY <2>1, <3>1 DEF Linked, IdBefore
  <2>2. CASE /\ lines' = Append(lines, pending[p])
             /\ torn' = FALSE
             /\ step' = [step EXCEPT ![p] = "sync"]
             /\ UNCHANGED <<holder, head, memory, tornSeen, pending>>
    <3>1. lines \in Seq(Record) /\ pending[p] \in Record
      BY DEF TypeOK
    <3>2. Linked(lines)'
      BY <2>0, <2>2, <3>1, LinkedAppend
    <3>3. \A q \in Proc : q # p => step'[q] = "idle"
      <4>1. \A q \in Proc : q # p => step'[q] = step[q]
        BY <2>2 DEF TypeOK
      <4> QED
        BY <1>o, <2>0, <2>2, <4>1
    <3>4. step'[p] = "sync"
      BY <2>2 DEF TypeOK
    <3> QED
      BY <2>0, <2>2, <3>2, <3>3, <3>4 DEF WriterAgrees
  <2> QED
    BY <1>6, <2>0, <2>1, <2>2, FailedMeansForgotten DEF WriteLine
<1>7. ASSUME NEW p \in Proc, SyncRecord(p) PROVE ChainInv'
  <2>0. /\ step[p] = "sync" /\ holder = p /\ lines' = lines /\ torn' = torn
        /\ lines = Append(memory[p], pending[p]) /\ pending[p].id = head[p]
        /\ ~ torn /\ ~ tornSeen[p]
    BY <1>7 DEF SyncRecord, WriterAgrees
  <2>1. CASE Forget(p)
    <3>1. WriterAgrees'
      BY <2>0, <2>1, ForgetAgrees
    <3> QED
      BY <2>0, <3>1 DEF Linked, IdBefore
  <2>2. CASE /\ memory' = [memory EXCEPT ![p] = Append(memory[p], pending[p])]
             /\ step' = [step EXCEPT ![p] = "open"]
             /\ UNCHANGED <<holder, head, tornSeen, pending>>
    <3>1. memory[p] \in Seq(Record) /\ pending[p] \in Record
      BY DEF TypeOK
    <3>2. HeadOf(lines) = pending[p].id
      <4>1. /\ Len(Append(memory[p], pending[p])) = Len(memory[p]) + 1
            /\ Append(memory[p], pending[p])[Len(memory[p]) + 1] = pending[p]
            /\ Append(memory[p], pending[p]) # << >>
        BY <3>1
      <4> QED
        BY <2>0, <4>1 DEF HeadOf
    <3>3. \A q \in Proc : q # p => step'[q] = "idle"
      <4>1. \A q \in Proc : q # p => step'[q] = step[q]
        BY <2>2 DEF TypeOK
      <4> QED
        BY <1>o, <2>0, <2>2, <4>1
    <3>4. step'[p] = "open" /\ memory'[p] = lines
      BY <2>0, <2>2 DEF TypeOK
    <3>5. tornSeen[p] = torn
      BY <2>0 DEF TypeOK
    <3> QED
      BY <2>0, <2>2, <3>2, <3>3, <3>4, <3>5
      DEF WriterAgrees, Linked, IdBefore, HeadOf
  <2>3. \/ AppendFailed(p)
        \/ /\ memory' = [memory EXCEPT ![p] = Append(memory[p], pending[p])]
           /\ step' = [step EXCEPT ![p] = "open"]
           /\ UNCHANGED <<holder, head, tornSeen, pending>>
    BY <1>7, Zenon DEF SyncRecord
  <2> QED
    BY <2>1, <2>2, <2>3, FailedMeansForgotten
<1>8. ASSUME NEW p \in Proc, CloseChain(p) \/ Kill(p) PROVE ChainInv'
  <2>1. step[p] # "idle" /\ Forget(p) /\ lines' = lines
    BY <1>8 DEF CloseChain, Kill, file
  <2>2. WriterAgrees'
    BY <2>1, ForgetAgrees
  <2> QED
    BY <2>1, <2>2 DEF Linked, IdBefore
<1>9. CASE UNCHANGED vars
  BY <1>9 DEF vars, file, local, WriterAgrees, Linked, IdBefore, HeadOf
<1> QED
  BY <1>1, <1>2, <1>3, <1>4, <1>5, <1>6, <1>7, <1>8, <1>9 DEF Next

\* The links' invariant holds where every caller stops at a failed append.
LEMMA ChainInvariance == ASSUME CarryOn = FALSE PROVE Spec => []ChainInv
<1>1. Init => ChainInv
  BY DEF Init, ChainInv, WriterAgrees, Linked
<1>2. TypeOK /\ ChainInv /\ [Next]_vars => ChainInv'
  BY ChainStep
<1> QED
  BY <1>1, <1>2, TypeCorrect, PTL DEF Spec

\* Recovery never refuses the history, whatever was killed or lost, provided
\* no caller appends again after a failed append.
THEOREM ChainAlwaysOpens == ASSUME CarryOn = FALSE PROVE Spec => []ChainOpens
<1>1. ChainInv => ChainOpens
  BY DEF ChainInv, ChainOpens
<1> QED
  BY <1>1, ChainInvariance, PTL

\* What a process folds is what the file holds, from its open on and through its
\* own appends, under the same proviso: an append that fails after its line was
\* written leaves a line that the process does not have in memory.
THEOREM FoldsReadTheFile == ASSUME CarryOn = FALSE PROVE Spec => []FoldReadsTheFile
<1>1. ChainInv => FoldReadsTheFile
  BY DEF ChainInv, WriterAgrees, FoldReadsTheFile
<1> QED
  BY <1>1, ChainInvariance, PTL

------------------------------------------------------------------------------

\* How any step may change the file: it keeps it, adds one line, or, when
\* power goes, keeps a prefix that covers what was synced.
FileStep ==
  \/ lines' = lines /\ synced' \in {synced, Len(lines)}
  \/ (\E r \in Record : lines' = Append(lines, r)) /\ synced' = synced
  \/ \E n \in synced .. Len(lines) : lines' = SubSeq(lines, 1, n) /\ synced' = n

\* Every step is one of these.
LEMMA EveryFileStep ==
  ASSUME TypeOK, [Next]_vars
  PROVE  FileStep
<1> USE DEF FileStep, file
<1>1. CASE PowerLoss
  BY <1>1 DEF PowerLoss
<1>2. ASSUME NEW p \in Proc, TryAcquire(p) \/ OpenChain(p) \/ BeginAppend(p)
                              \/ CloseChain(p) \/ Kill(p)
      PROVE  FileStep
  BY <1>2 DEF TryAcquire, OpenChain, BeginAppend, CloseChain, Kill
<1>3. ASSUME NEW p \in Proc, CutTail(p) PROVE FileStep
  BY <1>3 DEF CutTail
<1>4. ASSUME NEW p \in Proc, WriteLine(p) PROVE FileStep
  <2>1. pending[p] \in Record /\ Garbage \in Record
    BY RecordTypes DEF TypeOK
  <2>2. synced' = synced
    BY <1>4 DEF WriteLine
  <2>3. lines' = lines \/ \E r \in Record : lines' = Append(lines, r)
    BY <1>4, <2>1 DEF WriteLine
  <2> QED
    BY <2>2, <2>3
<1>5. ASSUME NEW p \in Proc, SyncRecord(p) PROVE FileStep
  BY <1>5 DEF SyncRecord
<1>6. CASE UNCHANGED vars
  BY <1>6 DEF vars
<1> QED
  BY <1>1, <1>2, <1>3, <1>4, <1>5, <1>6 DEF Next

\* A file step keeps every synced line and never moves the mark back.
LEMMA SyncedLinesStay ==
  ASSUME TypeOK, FileStep
  PROVE  /\ synced <= synced' /\ synced <= Len(lines')
         /\ \A i \in 1 .. synced : lines'[i] = lines[i]
<1>0. lines \in Seq(Record) /\ synced \in Nat /\ synced <= Len(lines)
  BY DEF TypeOK
<1>1. CASE lines' = lines /\ synced' \in {synced, Len(lines)}
  BY <1>0, <1>1
<1>2. ASSUME NEW r \in Record, lines' = Append(lines, r), synced' = synced
      PROVE  /\ synced <= synced' /\ synced <= Len(lines')
             /\ \A i \in 1 .. synced : lines'[i] = lines[i]
  BY <1>0, <1>2
<1>3. ASSUME NEW n \in synced .. Len(lines), lines' = SubSeq(lines, 1, n),
             synced' = n
      PROVE  /\ synced <= synced' /\ synced <= Len(lines')
             /\ \A i \in 1 .. synced : lines'[i] = lines[i]
  BY <1>0, <1>3
<1> QED
  BY <1>1, <1>2, <1>3 DEF FileStep

\* An earlier record is never rewritten, whatever the callers do.
THEOREM EarlierRecordsStay == Spec => NeverRewritten
<1>1. TypeOK /\ [Next]_vars =>
        [synced <= Len(lines') /\ \A i \in 1 .. synced : lines'[i] = lines[i]]_vars
  BY EveryFileStep, SyncedLinesStay
<1> QED
  BY <1>1, TypeCorrect, PTL DEF Spec, NeverRewritten

\* Only a sync that succeeds acknowledges, and then the record is the last line.
LEMMA AcknowledgedStep ==
  ASSUME TypeOK, AcknowledgedIsDurable, [Next]_vars,
         \A p \in Proc : step[p] = "sync" =>
           \E i \in 1 .. Len(lines) : lines[i].id = pending[p].id
  PROVE  AcknowledgedIsDurable'
<1>0. /\ synced <= synced' /\ synced <= Len(lines')
      /\ \A i \in 1 .. synced : lines'[i] = lines[i]
  BY EveryFileStep, SyncedLinesStay
<1>1. synced \in Nat /\ synced' \in Nat
  BY TypeStep DEF TypeOK
<1>2. CASE acked' = acked
  <2>1. ASSUME NEW a \in acked PROVE \E i \in 1 .. synced' : lines'[i].id = a
    <3>1. PICK i \in 1 .. synced : lines[i].id = a
      BY DEF AcknowledgedIsDurable
    <3> QED
      BY <1>0, <1>1, <3>1
  <2> QED
    BY <1>2, <2>1 DEF AcknowledgedIsDurable
<1>3. ASSUME NEW p \in Proc, step[p] = "sync", lines' = lines, synced' = Len(lines),
             acked' = acked \cup {pending[p].id}
      PROVE  AcknowledgedIsDurable'
  <2>1. ASSUME NEW a \in acked PROVE \E i \in 1 .. synced' : lines'[i].id = a
    <3>1. PICK i \in 1 .. synced : lines[i].id = a
      BY DEF AcknowledgedIsDurable
    <3> QED
      BY <1>0, <1>1, <3>1
  <2>2. \E i \in 1 .. synced' : lines'[i].id = pending[p].id
    BY <1>3
  <2> QED
    BY <1>3, <2>1, <2>2 DEF AcknowledgedIsDurable
<1>4. \/ acked' = acked
      \/ \E p \in Proc : /\ step[p] = "sync" /\ lines' = lines /\ synced' = Len(lines)
                         /\ acked' = acked \cup {pending[p].id}
  BY DEF Next, vars, PowerLoss, TryAcquire, OpenChain, BeginAppend, CutTail,
         WriteLine, SyncRecord, CloseChain, Kill
<1> QED
  BY <1>2, <1>3, <1>4

\* An acknowledged record survives every kill and power loss.
THEOREM AcknowledgedSurvives ==
  ASSUME CarryOn = FALSE PROVE Spec => []AcknowledgedIsDurable
<1>1. Init => AcknowledgedIsDurable /\ ChainInv
  BY DEF Init, AcknowledgedIsDurable, ChainInv, WriterAgrees, Linked
<1>2. ASSUME TypeOK, ChainInv, NEW p \in Proc, step[p] = "sync"
      PROVE  \E i \in 1 .. Len(lines) : lines[i].id = pending[p].id
  <2>1. /\ memory[p] \in Seq(Record) /\ pending[p] \in Record
        /\ lines = Append(memory[p], pending[p])
    BY <1>2 DEF TypeOK, ChainInv, WriterAgrees
  <2>2. lines[Len(lines)] = pending[p] /\ Len(lines) \in 1 .. Len(lines)
    BY <2>1
  <2> QED
    BY <2>2
<1>3. TypeOK /\ ChainInv /\ AcknowledgedIsDurable /\ [Next]_vars
        => ChainInv' /\ AcknowledgedIsDurable'
  BY <1>2, ChainStep, AcknowledgedStep
<1> QED
  BY <1>1, <1>3, TypeCorrect, PTL DEF Spec

\* The file implements the durable log, whatever the callers do.
THEOREM FileImplementsDurableLog == Spec => ImplementsDurableLog
<1>1. Init => DL!Init
  BY DEF Init, DL!Init
<1>2. ASSUME TypeOK, [Next]_vars PROVE [DL!Next]_(DL!vars)
  <2>0. lines \in Seq(Record) /\ synced \in Nat /\ synced <= Len(lines)
    BY <1>2 DEF TypeOK
  <2>1. CASE lines' = lines /\ synced' \in {synced, Len(lines)}
    BY <2>1 DEF DL!Next, DL!Acknowledge, DL!vars
  <2>2. ASSUME NEW r \in Record, lines' = Append(lines, r), synced' = synced
        PROVE  DL!Extend
    <3>1. /\ Len(lines') = Len(lines) + 1 /\ lines'[Len(lines')] = r
          /\ SubSeq(lines', 1, Len(lines)) = lines
      BY <2>0, <2>2
    <3> QED
      BY <2>2, <3>1 DEF DL!Extend
  <2>3. ASSUME NEW n \in synced .. Len(lines), lines' = SubSeq(lines, 1, n),
               synced' = n
        PROVE  DL!LoseUnacknowledged
    <3>1. Len(lines') = n
      BY <2>0, <2>3
    <3> QED
      BY <2>3, <3>1 DEF DL!LoseUnacknowledged
  <2>4. FileStep
    BY <1>2, EveryFileStep
  <2> QED
    BY <2>1, <2>2, <2>3, <2>4 DEF FileStep, DL!Next
<1> QED
  BY <1>1, <1>2, TypeCorrect, PTL DEF Spec, ImplementsDurableLog, DL!Spec

------------------------------------------------------------------------------
(* The override journal: what its files may hold.                          *)

Lines == [d : Nat, prev : Nat, what : {"none", "grant", "revoke", "recover", "garbage"},
          spec : Specs \cup {NoSpec}, voids : Nat]
Journals == [exists : BOOLEAN, lines : Seq(Lines), torn : BOOLEAN]
Intents == [position : Nat, d : Nat]
Authorities == [kind : {"absent", "garbled", "doc"}, lines : Nat, last : Nat, intended : Intents]

\* The first k lines parse and link.
Sound(j, k) == \A l \in 1 .. k : Follows(j, l)

\* No two lines that parse have one digest.
Distinct(j) ==
  \A k, l \in 1 .. Len(j.lines) :
    j.lines[k].what # "garbage" /\ j.lines[l].d = j.lines[k].d => k = l

\* The authority is about a prefix of the journal.
Matches(j, a) ==
  a.kind = "doc" /\ a.lines <= Len(j.lines) /\ a.last = DigestAt(j, a.lines)

\* A grant among the first m lines is among the lines c, or a line among them voids it.
Vouched(j, m, c) ==
  \A k \in 1 .. m :
    j.lines[k].what = "grant" /\ (\A l \in 1 .. m : j.lines[l].voids # j.lines[k].d)
      => j.lines[k].d \in c

\* Line k discards the line after those the authority covers.
Discards(j, a, k) ==
  j.lines[k].what = "recover" /\ j.lines[k].voids = DigestAt(j, a.lines + 1)

\* Line k is not the one the authority intends.
NotIntended(j, a, k) ==
  a.intended # NoIntent => a.intended.position <= k /\ a.intended.d # j.lines[k].d

\* What the two files may hold, whoever wrote them.
JournalOK(j, s) ==
  /\ j \in Journals
  /\ ~j.exists => j.lines = <<>> /\ j.torn = FALSE
  /\ \A k \in 1 .. Len(j.lines) :
       /\ j.lines[k].d <= s /\ j.lines[k].prev <= s
       /\ j.lines[k].what # "garbage" => j.lines[k].d # 0
       /\ j.lines[k].what = "grant" => j.lines[k].spec \in Specs

AuthorityOK(a, s) ==
  /\ a \in Authorities
  /\ a.kind # "doc" => a.lines = 0 /\ a.intended = NoIntent
  /\ a.lines = 0 => a.last = 0
  /\ a.last <= s /\ a.intended.d <= s

\* A set of numbers has a least.
LEMMA FirstOf ==
  ASSUME NEW S, S \subseteq Nat, S # {}
  PROVE  \E m \in S : \A j \in S : m <= j
<1>1. PICK x \in S : \A y \in S : ~ (<<y, x>> \in OpToRel(<, Nat))
  BY NatLessThanWellFounded, WFMin
<1>2. \A y \in S : <<y, x>> \in Nat \X Nat
  OBVIOUS
<1>3. \A y \in S : y < x => <<y, x>> \in OpToRel(<, Nat)
  BY <1>2 DEF OpToRel
<1>4. \A y \in S : ~ (y < x)
  BY <1>1, <1>3, Zenon
<1> QED
  BY <1>4

\* What a journal is made of.
LEMMA JournalFields ==
  ASSUME NEW j \in Journals
  PROVE  /\ j.exists \in BOOLEAN /\ j.torn \in BOOLEAN
         /\ j.lines \in Seq(Lines) /\ Len(j.lines) \in Nat
         /\ \A k \in 1 .. Len(j.lines) :
              /\ j.lines[k] \in Lines
              /\ j.lines[k].d \in Nat /\ j.lines[k].prev \in Nat /\ j.lines[k].voids \in Nat
         /\ \A k \in 0 .. Len(j.lines) : DigestAt(j, k) \in Nat
<1>1. j.exists \in BOOLEAN /\ j.torn \in BOOLEAN /\ j.lines \in Seq(Lines)
  BY DEF Journals
<1>2. Len(j.lines) \in Nat /\ \A k \in 1 .. Len(j.lines) : j.lines[k] \in Lines
  BY <1>1
<1>3. \A e \in Lines : e.d \in Nat /\ e.prev \in Nat /\ e.voids \in Nat
  BY DEF Lines
<1> QED
  BY <1>1, <1>2, <1>3 DEF DigestAt

\* The lines that verify are a prefix, and the line after them does not follow.
LEMMA VerifiedPrefix ==
  ASSUME NEW j \in Journals
  PROVE  /\ Verified(j) \in 0 .. Len(j.lines)
         /\ Sound(j, Verified(j))
         /\ Verified(j) < Len(j.lines) => ~Follows(j, Verified(j) + 1)
<1> DEFINE n == Len(j.lines)
           bad == {k \in 1 .. n : ~Follows(j, k)}
           P(m) == (\A k \in 1 .. m : Follows(j, k)) /\ (m < n => ~Follows(j, m + 1))
<1>0. n \in Nat
  BY JournalFields
<1>1. \E m \in 0 .. n : P(m)
  <2>1. CASE bad = {}
    <3>1. P(n)
      BY <1>0, <2>1
    <3> QED
      BY <1>0, <3>1
  <2>2. CASE bad # {}
    <3>1. bad \subseteq Nat
      BY <1>0
    <3>2. PICK x \in bad : \A y \in bad : x <= y
      BY <2>2, <3>1, FirstOf
    <3>3. x - 1 \in 0 .. n /\ (x - 1) + 1 = x
      BY <1>0
    <3>4. \A k \in 1 .. x - 1 : Follows(j, k)
      BY <1>0, <3>2
    <3>5. P(x - 1)
      BY <3>3, <3>4
    <3> QED
      BY <3>3, <3>5
  <2> QED
    BY <2>1, <2>2
<1>2. Verified(j) = CHOOSE m \in 0 .. n : P(m)
  BY DEF Verified
<1> HIDE DEF P
<1>3. Verified(j) \in 0 .. n /\ P(Verified(j))
  BY <1>1, <1>2
<1> QED
  BY <1>3 DEF P, Sound

\* A sound prefix verifies, and a journal is invalid when not all of it is sound.
LEMMA SoundVerifies ==
  ASSUME NEW j \in Journals, NEW m \in 0 .. Len(j.lines), Sound(j, m)
  PROVE  m <= Verified(j)
<1>1. Len(j.lines) \in Nat
  BY JournalFields
<1>2. CASE Verified(j) < m
  BY <1>1, <1>2, VerifiedPrefix DEF Sound
<1> QED
  BY <1>1, <1>2, VerifiedPrefix

\* A journal is invalid when some line of it does not follow the one before.
LEMMA InvalidNotSound ==
  ASSUME NEW j \in Journals
  PROVE  Invalid(j) <=> ~Sound(j, Len(j.lines))
<1>1. Len(j.lines) \in Nat
  BY JournalFields
<1>2. Len(j.lines) \in 0 .. Len(j.lines)
  BY <1>1
<1>3. ASSUME Invalid(j) PROVE ~Sound(j, Len(j.lines))
  BY <1>1, <1>2, <1>3, SoundVerifies, VerifiedPrefix DEF Invalid
<1>4. ASSUME ~Invalid(j) PROVE Sound(j, Len(j.lines))
  <2>1. Verified(j) = Len(j.lines)
    BY <1>1, <1>4, VerifiedPrefix DEF Invalid
  <2> QED
    BY <2>1, VerifiedPrefix
<1> QED
  BY <1>3, <1>4

\* What is sound is sound to every shorter length.
LEMMA SoundPrefix ==
  ASSUME NEW j, NEW m \in Nat, NEW k \in 0 .. m, Sound(j, m)
  PROVE  Sound(j, k)
BY DEF Sound

\* What verifies among the first m lines depends on those lines alone.
LEMMA SamePrefix ==
  ASSUME NEW j, NEW k, NEW m \in Nat,
         \A l \in 1 .. m : k.lines[l] = j.lines[l]
  PROVE  /\ \A l \in 0 .. m : DigestAt(k, l) = DigestAt(j, l)
         /\ \A l \in 1 .. m : Follows(k, l) <=> Follows(j, l)
         /\ \A l \in 0 .. m : Sound(k, l) <=> Sound(j, l)
<1>1. \A l \in 0 .. m : DigestAt(k, l) = DigestAt(j, l)
  BY DEF DigestAt
<1>2. \A l \in 1 .. m : Follows(k, l) <=> Follows(j, l)
  BY <1>1 DEF Follows
<1> QED
  BY <1>1, <1>2 DEF Sound

Believed == {"empty", "agree", "intentWithoutLine", "intentTorn", "pending"}

\* Files that are believed: the journal verifies, the authority is about a
\* prefix of it, and what it intends, if anything, is the last line or the next.
LEMMA BelievedFiles ==
  ASSUME NEW j \in Journals, NEW a \in Authorities, j.exists,
         Classify(j, a) \in Believed
  PROVE  /\ a.kind = "doc" /\ Sound(j, Len(j.lines)) /\ Matches(j, a)
         /\ a.intended = NoIntent => a.lines = Len(j.lines) /\ ~j.torn
         /\ a.intended # NoIntent =>
              \/ a.intended.position = Len(j.lines) + 1
              \/ /\ a.intended.position = Len(j.lines) /\ Len(j.lines) > a.lines
                 /\ a.intended.d = DigestAt(j, Len(j.lines))
         /\ Classify(j, a) = "pending" => Len(j.lines) > a.lines /\ ~j.torn
         /\ Classify(j, a) # "empty"
<1>1. a.kind = "doc"
  BY DEF Classify, WithoutAuthority, Believed
<1>2. ~Invalid(j) /\ Classify(j, a) = Compared(j, a)
  BY <1>1 DEF Classify, Believed
<1>3. Len(j.lines) \in Nat /\ a.lines \in Nat
  BY JournalFields DEF Authorities
<1>4. ~(Len(j.lines) < a.lines \/ a.last # DigestAt(j, a.lines))
  BY <1>2 DEF Compared, Believed
<1>5. Matches(j, a)
  BY <1>1, <1>3, <1>4 DEF Matches
<1>6. CASE a.intended = NoIntent
  BY <1>1, <1>2, <1>3, <1>4, <1>5, <1>6, InvalidNotSound DEF Compared, Believed
<1>7. CASE a.intended # NoIntent
  BY <1>1, <1>2, <1>3, <1>4, <1>5, <1>7, InvalidNotSound DEF Compared, Believed
<1> QED
  BY <1>6, <1>7

\* Without a journal, files that are believed cover no line.
LEMMA BelievedWithoutJournal ==
  ASSUME NEW j \in Journals, NEW a \in Authorities, ~j.exists,
         Classify(j, a) \in Believed
  PROVE  /\ a.kind = "doc" => a.lines = 0
         /\ a.kind # "doc" => a.kind = "absent"
         /\ Classify(j, a) \in {"empty", "intentWithoutLine"}
BY DEF Classify, WithoutAuthority, WithoutJournal, Believed, Authorities
\* The first lines, those covered, are vouched for.
CoveredVouched(j, a, c) ==
  Matches(j, a) /\ Sound(j, a.lines) => Vouched(j, a.lines, c)

\* What follows the lines covered: one line, which voids nothing, and discards
\* of it; and, where a hand may have been at the journal, a last line that is
\* not the one intended.
TailKnown(j, a, hand) ==
  Matches(j, a) =>
    /\ a.lines < Len(j.lines) /\ Sound(j, a.lines + 1) => j.lines[a.lines + 1].voids = 0
    /\ \A k \in a.lines + 2 .. Len(j.lines) :
         Sound(j, k) => Discards(j, a, k) \/ (hand /\ k = Len(j.lines) /\ NotIntended(j, a, k))

\* Files that nobody edited, with no line begun over a tail.
Untouched(j, a) ==
  /\ Sound(j, Len(j.lines))
  /\ Matches(j, a) \/ (~j.exists /\ a.kind = "absent")
  /\ a.intended = NoIntent => Len(j.lines) = a.lines /\ j.torn = FALSE
  /\ a.intended # NoIntent =>
       \/ a.intended.position = Len(j.lines) + 1
       \/ /\ a.intended.position = Len(j.lines) /\ Len(j.lines) > a.lines
          /\ a.intended.d = DigestAt(j, Len(j.lines)) /\ j.torn = FALSE

\* The lines of the journal.
Length == Len(journal.lines)

\* The files are well formed; unedited, they intend no line after the next.
FilesOK ==
  /\ JournalOK(journal, serial) /\ Distinct(journal) /\ AuthorityOK(authority, serial)
  /\ serial \in Nat /\ edits \in Nat /\ tail \in BOOLEAN
  /\ edits = 0 => authority.intended.position <= Length + 1

\* What is written, whatever the journal it was made for.
LineOK ==
  /\ write.line \in Lines /\ write.line.what \in {"grant", "revoke", "recover"}
  /\ write.line.d = serial /\ serial # 0 /\ write.line.prev = write.last
  /\ write.line.what = "grant" => write.line.spec \in Specs
  /\ write.lines \in Nat /\ write.alines \in Nat /\ write.last \in Nat /\ write.alast \in Nat
  /\ write.last < serial /\ write.alast < serial
  /\ write.step1 \in BOOLEAN /\ write.replace \in BOOLEAN /\ write.cut \in BOOLEAN
  /\ write.alines <= write.lines
  /\ write.alines = write.lines => write.line.voids = 0 /\ write.alast = write.last
  /\ write.alines = 0 => write.alast = 0
  /\ write.step1 => write.alines = write.lines
  /\ write.replace => write.step1 /\ ~write.cut

\* A write that has not come to its line agrees with the journal it was made for.
PlanOK ==
  /\ \A k \in 1 .. Length : journal.lines[k].d < serial
  /\ write.lines <= Length
  /\ write.last = DigestAt(journal, write.lines) /\ write.alast = DigestAt(journal, write.alines)
  /\ write.alines < write.lines =>
       /\ write.lines = Length /\ write.line.what = "recover"
       /\ write.line.voids = DigestAt(journal, write.alines + 1)
  /\ write.replace =>
       /\ journal.exists /\ write.lines < Length
       /\ Sound(journal, write.lines) /\ ~Follows(journal, write.lines + 1)
  /\ ~write.replace /\ write.lines < Length => tail /\ ~write.step1
  /\ write.step1 => \A k \in 1 .. write.lines : journal.lines[k].d \in chosen
  /\ pc \in {"step1", "step2"} /\ ~write.replace => write.cut = journal.torn
  /\ pc = "cut" => ~write.replace
  /\ pc = "append" /\ ~write.replace => journal.torn = FALSE

\* A write whose line is in the journal.
WrittenOK ==
  /\ journal.exists /\ journal.torn = FALSE
  /\ write.lines < Length /\ journal.lines[Length] = write.line
  /\ \A k \in 1 .. Length - 1 : journal.lines[k].d < serial
  /\ write.last = DigestAt(journal, write.lines) /\ write.alast = DigestAt(journal, write.alines)
  /\ write.lines + 1 < Length => tail /\ write.alines = write.lines
  /\ write.alines < write.lines =>
       /\ write.line.what = "recover"
       /\ write.line.voids = DigestAt(journal, write.alines + 1)

\* What the writer has made of the authority so far.
AuthorityWritten ==
  /\ pc = "step1" => write.step1
  /\ pc # "step1" => /\ authority.kind = "doc"
                     /\ authority.lines = write.alines /\ authority.last = write.alast
  /\ pc \in {"cut", "append", "step4"} =>
       authority.intended = [position |-> write.lines + 1, d |-> write.line.d]

\* The writer, wherever it is, agrees with the files.
WriterOK ==
  /\ pc \in {"free", "step1", "step2", "cut", "append", "step4"}
  /\ pc # "free" => LineOK /\ AuthorityWritten
  /\ pc \notin {"free", "step4"} => PlanOK
  /\ pc = "step4" => WrittenOK

\* A hand was at the files, and no write has settled them since.
Handled == edits = 1 /\ pc \in {"free", "step1"}

\* As long as the files were edited once at most, the lines tell what they are.
TellsLines ==
  edits <= 1 => CoveredVouched(journal, authority, chosen) /\ TailKnown(journal, authority, Handled)

\* Files that nobody edited read back.
OwnFiles ==
  edits = 0 /\ tail = FALSE => Untouched(journal, authority) /\ (pc = "step1" => journal.torn = FALSE)

\* The inductive invariant of the journal.
JournalInv == FilesOK /\ WriterOK /\ TellsLines /\ OwnFiles

\* What a state authority is made of.
LEMMA AuthorityFields ==
  ASSUME NEW a \in Authorities
  PROVE  /\ a.kind \in {"absent", "garbled", "doc"} /\ a.lines \in Nat /\ a.last \in Nat
         /\ a.intended \in Intents /\ a.intended.position \in Nat /\ a.intended.d \in Nat
<1>1. a.kind \in {"absent", "garbled", "doc"} /\ a.lines \in Nat /\ a.last \in Nat
      /\ a.intended \in Intents
  BY DEF Authorities
<1> QED
  BY <1>1 DEF Intents

\* What the two files are, in every state.
LEMMA FilesFields ==
  ASSUME FilesOK
  PROVE  /\ journal \in Journals /\ authority \in Authorities /\ serial \in Nat
         /\ Length \in Nat
         /\ ~journal.exists => journal.lines = <<>> /\ journal.torn = FALSE /\ Length = 0
BY JournalFields DEF FilesOK, JournalOK, AuthorityOK, Length

\* A line that parses has a digest no earlier place has.
LEMMA DigestsDiffer ==
  ASSUME NEW j, NEW s \in Nat, JournalOK(j, s), Distinct(j),
         NEW n \in 1 .. Len(j.lines), NEW m \in 0 .. n - 1, Follows(j, n)
  PROVE  DigestAt(j, m) # DigestAt(j, n)
<1>1. j \in Journals /\ Len(j.lines) \in Nat
  BY JournalFields DEF JournalOK
<1>2. j.lines[n].what # "garbage" /\ j.lines[n].d # 0
  BY <1>1 DEF Follows, JournalOK
<1>3. DigestAt(j, n) = j.lines[n].d
  BY <1>1 DEF DigestAt
<1>4. CASE m = 0
  BY <1>2, <1>3, <1>4 DEF DigestAt
<1>5. CASE m # 0
  <2>1. m \in 1 .. Len(j.lines) /\ m # n /\ DigestAt(j, m) = j.lines[m].d
    BY <1>1, <1>5 DEF DigestAt
  <2> QED
    BY <1>2, <1>3, <2>1 DEF Distinct
<1> QED
  BY <1>4, <1>5

\* A digest is a number handed out before.
LEMMA DigestsKnown ==
  ASSUME NEW j, NEW s \in Nat, JournalOK(j, s), NEW k \in 0 .. Len(j.lines)
  PROVE  DigestAt(j, k) \in Nat /\ DigestAt(j, k) <= s
<1>1. j \in Journals /\ Len(j.lines) \in Nat
  BY JournalFields DEF JournalOK
<1> QED
  BY <1>1, JournalFields DEF DigestAt, JournalOK

\* A change after the lines covered leaves what is said of them as it was.
LEMMA PrefixKept ==
  ASSUME NEW j \in Journals, NEW k \in Journals, NEW a \in Authorities, NEW c, NEW m \in Nat,
         a.lines <= m, m <= Len(j.lines), m <= Len(k.lines),
         \A l \in 1 .. m : k.lines[l] = j.lines[l]
  PROVE  /\ Matches(k, a) <=> Matches(j, a)
         /\ CoveredVouched(k, a, c) <=> CoveredVouched(j, a, c)
<1>1. Len(j.lines) \in Nat /\ Len(k.lines) \in Nat /\ a.lines \in Nat
  BY JournalFields, AuthorityFields
<1>2. DigestAt(k, a.lines) = DigestAt(j, a.lines) /\ (Sound(k, a.lines) <=> Sound(j, a.lines))
  <2>1. \A l \in 0 .. m : DigestAt(k, l) = DigestAt(j, l) /\ (Sound(k, l) <=> Sound(j, l))
    BY SamePrefix
  <2> QED
    BY <1>1, <2>1
<1>3. Matches(k, a) <=> Matches(j, a)
  BY <1>1, <1>2 DEF Matches
<1>4. Vouched(k, a.lines, c) <=> Vouched(j, a.lines, c)
  <2>1. \A l \in 1 .. a.lines : k.lines[l] = j.lines[l]
    BY <1>1
  <2> QED
    BY <2>1, Zenon DEF Vouched
<1> QED
  BY <1>2, <1>3, <1>4 DEF CoveredVouched

\* More may be chosen, and an authority that covers the same lines says the same of them.
LEMMA VouchedMore ==
  ASSUME NEW j, NEW a, NEW b, NEW c, NEW d, CoveredVouched(j, a, c), c \subseteq d,
         b.kind = "doc" => a.kind = "doc" /\ b.lines = a.lines /\ b.last = a.last
  PROVE  CoveredVouched(j, b, d)
BY DEF CoveredVouched, Matches, Vouched

\* What is known of the tail stays known under an authority that covers the same lines.
LEMMA TailKnownMore ==
  ASSUME NEW j, NEW a, NEW b, NEW h \in BOOLEAN, TailKnown(j, a, FALSE),
         b.kind = "doc" => a.kind = "doc" /\ b.lines = a.lines /\ b.last = a.last
  PROVE  TailKnown(j, b, h)
BY DEF TailKnown, Matches, Discards

\* While the files are believed, no line was added by hand.
LEMMA BelievedTail ==
  ASSUME NEW j \in Journals, NEW a \in Authorities, NEW h \in BOOLEAN,
         Classify(j, a) \in Believed, TailKnown(j, a, h), ~j.exists => j.lines = <<>>
  PROVE  TailKnown(j, a, FALSE)
<1>1. Len(j.lines) \in Nat /\ a.lines \in Nat
  BY JournalFields, AuthorityFields
<1>2. CASE ~j.exists
  BY <1>1, <1>2 DEF TailKnown
<1>3. CASE j.exists
  <2>1. \A k \in a.lines + 2 .. Len(j.lines) : ~(k = Len(j.lines) /\ NotIntended(j, a, k))
    <3> SUFFICES ASSUME Len(j.lines) >= a.lines + 2, NotIntended(j, a, Len(j.lines)) PROVE FALSE
      BY <1>1
    <3>1. a.intended # NoIntent
      BY <1>1, <1>3, BelievedFiles
    <3>2. a.intended.position \in Nat /\ a.intended.position <= Len(j.lines)
      BY <3>1, AuthorityFields DEF NotIntended
    <3>3. a.intended.d = DigestAt(j, Len(j.lines))
      BY <1>1, <1>3, <3>1, <3>2, BelievedFiles
    <3> QED
      BY <1>1, <3>1, <3>3 DEF NotIntended, DigestAt
  <2> QED
    BY <2>1 DEF TailKnown
<1> QED
  BY <1>2, <1>3
(* A write begins.                                                         *)

\* Numbers handed out later do not disturb the files.
LEMMA LaterSerial ==
  ASSUME NEW j, NEW a, NEW s \in Nat, JournalOK(j, s), AuthorityOK(a, s)
  PROVE  JournalOK(j, s + 1) /\ AuthorityOK(a, s + 1)
<1>1. j \in Journals /\ a \in Authorities
  BY DEF JournalOK, AuthorityOK
<1>2. /\ a.last \in Nat /\ a.intended.d \in Nat
      /\ \A k \in 1 .. Len(j.lines) : j.lines[k].d \in Nat /\ j.lines[k].prev \in Nat
  BY <1>1, JournalFields, AuthorityFields
<1>3. JournalOK(j, s + 1)
  BY <1>2 DEF JournalOK
<1> QED
  BY <1>2, <1>3 DEF AuthorityOK

\* What a write is, given the parts of it.
Writes(step1, cut, replace, upto, last, alines, alast, what, s, voids) ==
  [step1 |-> step1, cut |-> cut, replace |-> replace, lines |-> upto, last |-> last,
   alines |-> alines, alast |-> alast, line |-> LineOf(what, s, last, voids)]

\* The write agrees with the files it begins on.
Agrees(step1, cut, replace, upto, last, alines, alast, what, s, voids) ==
  /\ step1 \in BOOLEAN /\ cut \in BOOLEAN /\ replace \in BOOLEAN
  /\ upto \in Nat /\ last \in Nat /\ alines \in Nat /\ alast \in Nat /\ voids \in Nat
  /\ what \in {"grant", "revoke", "recover"} /\ s \in Specs \cup {NoSpec}
  /\ alines <= upto /\ upto <= Length
  /\ last = DigestAt(journal, upto) /\ alast = DigestAt(journal, alines)
  /\ alines = upto => voids = 0
  /\ alines < upto => upto = Length /\ what = "recover" /\ voids = DigestAt(journal, alines + 1)
  /\ what = "grant" => s \in Specs
  /\ step1 => alines = upto
  /\ replace => /\ step1 /\ journal.exists /\ upto < Length /\ cut = FALSE
                /\ Sound(journal, upto) /\ ~Follows(journal, upto + 1)
  /\ ~replace => cut = journal.torn
  /\ ~step1 => /\ authority.kind = "doc" /\ authority.lines = alines /\ authority.last = alast
               /\ State \in Believed

\* What the write does to the history.
Notes(step1, replace, upto) ==
  /\ chosen \subseteq chosen' /\ tail' \in BOOLEAN /\ (tail => tail')
  /\ step1 => \A k \in 1 .. upto : journal.lines[k].d \in chosen'
  /\ ~replace /\ upto < Length => tail' /\ ~step1
  /\ step1 /\ edits = 0 /\ tail' = FALSE => journal.torn = FALSE

\* A write that begins on a plan that agrees with the files keeps the invariant.
LEMMA BeginKeeps ==
  ASSUME JournalInv,
         NEW step1, NEW cut, NEW replace, NEW upto, NEW last, NEW alines, NEW alast,
         NEW what, NEW s, NEW voids,
         Begin(Writes(step1, cut, replace, upto, last, alines, alast, what, s, voids)),
         Agrees(step1, cut, replace, upto, last, alines, alast, what, s, voids),
         Notes(step1, replace, upto)
  PROVE  JournalInv'
<1> DEFINE w == Writes(step1, cut, replace, upto, last, alines, alast, what, s, voids)
<1>0. /\ step1 \in BOOLEAN /\ cut \in BOOLEAN /\ replace \in BOOLEAN
      /\ upto \in Nat /\ last \in Nat /\ alines \in Nat /\ alast \in Nat /\ voids \in Nat
      /\ what \in {"grant", "revoke", "recover"} /\ s \in Specs \cup {NoSpec}
      /\ alines <= upto /\ upto <= Length
      /\ last = DigestAt(journal, upto) /\ alast = DigestAt(journal, alines)
      /\ alines = upto => voids = 0
      /\ alines < upto => upto = Length /\ what = "recover" /\ voids = DigestAt(journal, alines + 1)
      /\ what = "grant" => s \in Specs
      /\ step1 => alines = upto
      /\ replace => /\ step1 /\ journal.exists /\ upto < Length /\ cut = FALSE
                    /\ Sound(journal, upto) /\ ~Follows(journal, upto + 1)
      /\ ~replace => cut = journal.torn
      /\ ~step1 => /\ authority.kind = "doc" /\ authority.lines = alines /\ authority.last = alast
                   /\ Classify(journal, authority) \in Believed
      /\ chosen \subseteq chosen' /\ tail' \in BOOLEAN /\ (tail => tail')
      /\ step1 => \A k \in 1 .. upto : journal.lines[k].d \in chosen'
      /\ ~replace /\ upto < Length => tail' /\ ~step1
      /\ step1 /\ edits = 0 /\ tail' = FALSE => journal.torn = FALSE
  BY Zenon DEF Agrees, State, Notes
<1>1. /\ pc = "free" /\ serial' = serial + 1 /\ write' = w
      /\ pc' = (IF step1 THEN "step1" ELSE "step2")
      /\ journal' = journal /\ authority' = authority /\ edits' = edits
  BY DEF Begin, files, Writes
<1>2. FilesOK /\ serial \in Nat /\ Length \in Nat /\ journal \in Journals /\ authority \in Authorities
  BY FilesFields DEF JournalInv
<1>3. FilesOK'
  BY <1>0, <1>1, <1>2, LaterSerial DEF FilesOK, Length
<1>4. w.line = [d |-> serial + 1, prev |-> last, what |-> what, spec |-> s, voids |-> voids]
  BY DEF LineOf, Writes
<1>5. /\ w.line \in Lines /\ w.line.d = serial + 1 /\ w.line.prev = last /\ w.line.what = what
      /\ w.line.spec = s /\ w.line.voids = voids
  BY <1>0, <1>2, <1>4 DEF Lines
<1>6. /\ w.step1 = step1 /\ w.cut = cut /\ w.replace = replace /\ w.lines = upto /\ w.last = last
      /\ w.alines = alines /\ w.alast = alast
  BY DEF Writes
<1> HIDE DEF w
<1>7. last <= serial /\ alast <= serial
  <2>1. JournalOK(journal, serial) /\ upto \in 0 .. Len(journal.lines)
        /\ alines \in 0 .. Len(journal.lines)
    BY <1>0, <1>2 DEF FilesOK, Length
  <2> QED
    BY <1>0, <1>2, <2>1, DigestsKnown
<1>8. alines = 0 => alast = 0
  BY <1>0 DEF DigestAt
<1>9. LineOK'
  BY <1>0, <1>1, <1>2, <1>5, <1>6, <1>7, <1>8 DEF LineOK
<1>10. \A k \in 1 .. Length : journal.lines[k].d < serial + 1
  BY <1>2, JournalFields DEF FilesOK, JournalOK, Length
<1>11. PlanOK'
  <2>1. Length' = Length
    BY <1>1 DEF Length
  <2> QED
    BY <1>0, <1>1, <1>2, <1>5, <1>6, <1>10, <2>1 DEF PlanOK
<1>12. AuthorityWritten'
  BY <1>0, <1>1, <1>6 DEF AuthorityWritten
<1>13. WriterOK'
  BY <1>0, <1>1, <1>9, <1>11, <1>12 DEF WriterOK
<1>14. TellsLines'
  <2> SUFFICES ASSUME edits <= 1
               PROVE  CoveredVouched(journal, authority, chosen')
                      /\ TailKnown(journal, authority, Handled')
    BY <1>1 DEF TellsLines
  <2>1. CoveredVouched(journal, authority, chosen) /\ TailKnown(journal, authority, Handled)
    BY DEF JournalInv, TellsLines
  <2>2. CoveredVouched(journal, authority, chosen')
    BY <1>0, <2>1, VouchedMore
  <2>3. CASE step1
    <3>1. Handled' <=> Handled
      BY <1>1, <2>3 DEF Handled
    <3> QED
      BY <2>1, <2>2, <3>1 DEF TailKnown
  <2>4. CASE ~step1
    <3>1. Handled' = FALSE /\ Handled \in BOOLEAN
      BY <1>1, <2>4 DEF Handled
    <3>2. ~journal.exists => journal.lines = <<>>
      BY <1>2 DEF FilesOK, JournalOK
    <3>3. TailKnown(journal, authority, FALSE)
      BY <1>0, <1>2, <2>1, <2>4, <3>1, <3>2, BelievedTail
    <3> QED
      BY <2>2, <3>1, <3>3
  <2> QED
    BY <2>3, <2>4
<1>15. OwnFiles'
  BY <1>0, <1>1, <1>2 DEF JournalInv, OwnFiles, FilesOK
<1> QED
  BY <1>3, <1>13, <1>14, <1>15 DEF JournalInv

\* The states each choice of a recovery is offered in.
LEMMA AllowedStates ==
  ASSUME NEW state
  PROVE  /\ "discard" \in Allowed(state) => state \in {"intentWithoutLine", "intentTorn", "pending"}
         /\ "complete" \in Allowed(state) => state = "pending"
         /\ "asRead" \in Allowed(state) => state = "disagreement"
         /\ "prefix" \in Allowed(state) => state = "invalid"
         /\ "empty" \in Allowed(state) =>
              state \notin {"empty", "agree", "intentWithoutLine", "intentTorn", "pending", "disagreement", "invalid"}
BY DEF Allowed

\* Where each state that is not believed comes from.
LEMMA DoubtedFiles ==
  ASSUME NEW j \in Journals, NEW a \in Authorities
  PROVE  /\ Classify(j, a) = "disagreement" => j.exists
         /\ Classify(j, a) = "invalid" => j.exists /\ Invalid(j)
         /\ Classify(j, a) \in {"empty", "agree", "intentWithoutLine", "intentTorn", "pending",
                                "disagreement", "invalid"} \/ ~j.exists
         /\ Classify(j, a) \in {"intentWithoutLine", "intentTorn", "pending"} => a.kind = "doc"
         /\ Classify(j, a) = "pending" => j.exists
<1>1. Compared(j, a) \in {"agree", "intentWithoutLine", "intentTorn", "pending", "disagreement"}
  BY DEF Compared
<1> QED
  BY <1>1, AuthorityFields DEF Classify, WithoutAuthority, WithoutJournal

\* What believed files say of the lines covered, whether or not there is a journal.
LEMMA BelievedPrefix ==
  ASSUME FilesOK, State \in Believed
  PROVE  /\ authority.lines <= Length /\ authority.last = DigestAt(journal, authority.lines)
         /\ authority.kind # "doc" => Length = 0 /\ ~journal.exists
<1>1. journal \in Journals /\ authority \in Authorities /\ Length \in Nat
  BY FilesFields
<1>2. CASE journal.exists
  BY <1>1, <1>2, BelievedFiles DEF State, Matches, Length
<1>3. CASE ~journal.exists
  <2>1. authority.lines = 0 /\ authority.last = 0 /\ Length = 0
    BY <1>1, <1>3, BelievedWithoutJournal, FilesFields DEF State, FilesOK, AuthorityOK
  <2> QED
    BY <1>3, <2>1 DEF DigestAt
<1> QED
  BY <1>2, <1>3

\* Files that nobody edited read as this product's own.
LEMMA UntouchedStates ==
  ASSUME FilesOK, Untouched(journal, authority)
  PROVE  State \in Believed
<1>1. journal \in Journals /\ authority \in Authorities /\ Length \in Nat
  BY FilesFields
<1>2. authority.lines \in Nat /\ authority.kind \in {"absent", "garbled", "doc"}
  BY <1>1, AuthorityFields
<1>3. CASE ~journal.exists
  <2>1. CASE Matches(journal, authority)
    <3>1. authority.kind = "doc" /\ authority.lines <= Len(journal.lines) /\ Len(journal.lines) = 0
      BY <1>3, <2>1, FilesFields DEF Matches, Length
    <3>2. authority.kind = "doc" /\ authority.lines = 0
      BY <1>2, <3>1
    <3> QED
      BY <1>3, <3>2 DEF State, Classify, WithoutJournal, Believed
  <2>2. CASE authority.kind = "absent"
    BY <1>3, <2>2 DEF State, Classify, WithoutAuthority, Believed
  <2> QED
    BY <2>1, <2>2 DEF Untouched
<1>4. CASE journal.exists
  <2>1. Matches(journal, authority) /\ ~Invalid(journal)
    BY <1>1, <1>4, InvalidNotSound DEF Untouched
  <2>2. /\ authority.kind = "doc" /\ authority.lines <= Len(journal.lines)
        /\ authority.last = DigestAt(journal, authority.lines)
    BY <2>1 DEF Matches
  <2>3. State = Compared(journal, authority)
    BY <1>4, <2>1, <2>2 DEF State, Classify
  <2>4. CASE authority.intended = NoIntent
    BY <1>1, <1>2, <2>2, <2>3, <2>4 DEF Compared, Untouched, Believed, Length
  <2>5. CASE authority.intended # NoIntent
    <3>1. CASE authority.intended.position = Len(journal.lines) + 1
      BY <1>1, <1>2, <2>2, <2>3, <2>5, <3>1 DEF Compared, Believed, Length
    <3>2. CASE authority.intended.position # Len(journal.lines) + 1
      <4>1. /\ authority.intended.position = Len(journal.lines) /\ Len(journal.lines) > authority.lines
            /\ authority.intended.d = DigestAt(journal, Len(journal.lines)) /\ journal.torn = FALSE
        BY <2>5, <3>2 DEF Untouched
      <4> QED
        BY <1>1, <1>2, <2>2, <2>3, <2>5, <3>2, <4>1 DEF Compared, Believed, Length
    <3> QED
      BY <3>1, <3>2
  <2> QED
    BY <2>4, <2>5
<1> QED
  BY <1>3, <1>4

\* A grant or a revocation begins on a plan that agrees with the files.
LEMMA ChangeKeeps ==
  ASSUME JournalInv, NEW what \in {"grant", "revoke"}, NEW s \in Specs, Change(what, s)
  PROVE  JournalInv'
<1> DEFINE a == IF authority.kind = "doc" THEN authority ELSE NoAuthority
<1>1. FilesOK /\ journal \in Journals /\ authority \in Authorities /\ Length \in Nat /\ serial \in Nat
  BY FilesFields DEF JournalInv
<1>2. State \in Believed
  BY DEF Change, Readable, Believed
<1>3. /\ authority.lines <= Length /\ authority.last = DigestAt(journal, authority.lines)
      /\ authority.kind # "doc" => Length = 0 /\ ~journal.exists
  BY <1>1, <1>2, BelievedPrefix
<1>4. authority.lines \in Nat /\ authority.last \in Nat
  BY <1>1, AuthorityFields
<1>5. a.lines = authority.lines /\ a.last = authority.last
  <2>1. authority.kind # "doc" => authority.lines = 0 /\ authority.last = 0
    BY <1>1 DEF FilesOK, AuthorityOK
  <2> QED
    BY <2>1 DEF NoAuthority
<1>6. /\ Begin(Writes(authority.kind # "doc", Cut, FALSE, a.lines, a.last, a.lines, a.last, what, s, 0))
      /\ tail' = (tail \/ Len(journal.lines) > a.lines) /\ chosen' = chosen
  BY Zenon DEF Change, Writes
<1> HIDE DEF a
<1>7. Begin(Writes(authority.kind # "doc", journal.torn, FALSE, authority.lines, authority.last,
                   authority.lines, authority.last, what, s, 0))
  BY <1>5, <1>6 DEF Cut
<1>8. tail' = (tail \/ Length > authority.lines) /\ tail \in BOOLEAN
  BY <1>1, <1>5, <1>6 DEF Length, FilesOK
<1>9. authority.kind # "doc" => authority.lines = 0 /\ journal.torn = FALSE
  BY <1>1, <1>3, FilesFields DEF FilesOK, AuthorityOK
<1>10. journal.torn \in BOOLEAN
  BY <1>1, JournalFields
<1>11. Agrees(authority.kind # "doc", journal.torn, FALSE, authority.lines, authority.last,
              authority.lines, authority.last, what, s, 0)
  BY <1>2, <1>3, <1>4, <1>9, <1>10 DEF Agrees
<1>12. Notes(authority.kind # "doc", FALSE, authority.lines)
  <2>1. chosen \subseteq chosen'
    BY <1>6
  <2>2. tail' \in BOOLEAN /\ (tail => tail') /\ (authority.lines < Length => tail')
    BY <1>1, <1>4, <1>8
  <2>3. authority.kind # "doc" => \A k \in 1 .. authority.lines : journal.lines[k].d \in chosen'
    BY <1>9
  <2>4. authority.lines < Length => ~(authority.kind # "doc")
    BY <1>1, <1>3, <1>4
  <2> QED
    BY <1>9, <2>1, <2>2, <2>3, <2>4 DEF Notes
<1> QED
  BY <1>7, <1>11, <1>12, BeginKeeps

\* So does the discard of a pending line.
LEMMA DiscardKeeps ==
  ASSUME JournalInv, DiscardPending
  PROVE  JournalInv'
<1> DEFINE n == Length
           c == authority.lines
           ends == IF n > c THEN n ELSE c
           last == IF n > c THEN DigestAt(journal, n) ELSE authority.last
           voids == IF n > c THEN DigestAt(journal, c + 1) ELSE 0
<1>1. FilesOK /\ journal \in Journals /\ authority \in Authorities /\ n \in Nat /\ serial \in Nat
  BY FilesFields DEF JournalInv
<1>2. State \in Believed /\ authority.kind = "doc"
  <2>1. State \in {"intentWithoutLine", "intentTorn", "pending"}
    BY AllowedStates DEF DiscardPending
  <2> QED
    BY <1>1, <2>1, DoubtedFiles DEF Believed, State
<1>3. c <= n /\ authority.last = DigestAt(journal, c) /\ c \in Nat /\ authority.last \in Nat
  BY <1>1, <1>2, BelievedPrefix, AuthorityFields
<1>4. ends = n /\ last = DigestAt(journal, n)
  BY <1>1, <1>3
<1>5. voids \in Nat /\ last \in Nat
  <2>1. \A k \in 0 .. Len(journal.lines) : DigestAt(journal, k) \in Nat
    BY <1>1, JournalFields
  <2> QED
    BY <1>1, <1>3, <1>4, <2>1 DEF Length
<1>6. Begin(Writes(FALSE, journal.torn, FALSE, ends, last, c, authority.last, "recover", NoSpec, voids))
  BY DEF DiscardPending, Cut, Length, Writes
<1>7. chosen' = chosen /\ tail' = tail /\ tail \in BOOLEAN /\ journal.torn \in BOOLEAN
  BY <1>1, JournalFields DEF DiscardPending, history, FilesOK
<1>8. /\ c = ends => voids = 0
      /\ c < ends => voids = DigestAt(journal, c + 1)
  BY <1>1, <1>3, <1>4
<1> HIDE DEF n, c, ends, last, voids
<1>9. /\ c <= ends /\ ends <= Length /\ ends = Length /\ ends \in Nat
      /\ authority.lines = c /\ last = DigestAt(journal, ends)
  BY <1>1, <1>3, <1>4 DEF n, c
<1>10. Agrees(FALSE, journal.torn, FALSE, ends, last, c, authority.last, "recover", NoSpec, voids)
  BY <1>2, <1>3, <1>5, <1>7, <1>8, <1>9 DEF Agrees
<1>11. Notes(FALSE, FALSE, ends)
  BY <1>1, <1>7, <1>9 DEF Notes
<1> QED
  BY <1>6, <1>10, <1>11, BeginKeeps

\* The lines kept are all of them, or with the rest replaced those that verify.
Keeps(n, replace) ==
  /\ n \in 0 .. Length /\ replace \in BOOLEAN
  /\ replace => journal.exists /\ n < Length /\ Sound(journal, n) /\ ~Follows(journal, n + 1)
  /\ ~replace => n = Length
  /\ edits = 0 /\ tail = FALSE => journal.torn = FALSE

\* So do the recoveries that keep the first n lines.
LEMMA RecoverToKeeps ==
  ASSUME JournalInv, NEW choice, NEW n, NEW replace, RecoverTo(choice, n, replace), Keeps(n, replace)
  PROVE  JournalInv'
<1> DEFINE last == DigestAt(journal, n)
           cut == ~replace /\ journal.torn
<1>0. /\ n \in 0 .. Length /\ replace \in BOOLEAN
      /\ replace => journal.exists /\ n < Length /\ Sound(journal, n) /\ ~Follows(journal, n + 1)
      /\ ~replace => n = Length
      /\ edits = 0 /\ tail = FALSE => journal.torn = FALSE
  BY DEF Keeps
<1>1. FilesOK /\ journal \in Journals /\ Length \in Nat /\ tail \in BOOLEAN
  BY FilesFields DEF JournalInv, FilesOK
<1>2. last \in Nat /\ journal.torn \in BOOLEAN
  BY <1>0, <1>1, JournalFields DEF Length
<1>3. /\ Begin(Writes(TRUE, cut, replace, n, last, n, last, "recover", NoSpec, 0))
      /\ chosen' = chosen \cup {journal.lines[k].d : k \in 1 .. n} /\ tail' = tail
  BY DEF RecoverTo, Writes, Cut
<1>4. last = DigestAt(journal, n) /\ (replace => cut = FALSE)
      /\ (~replace => cut = journal.torn) /\ cut \in BOOLEAN
  BY <1>0, <1>2
<1> HIDE DEF last, cut
<1>5. Agrees(TRUE, cut, replace, n, last, n, last, "recover", NoSpec, 0)
  BY <1>0, <1>1, <1>2, <1>4 DEF Agrees
<1>6. Notes(TRUE, replace, n)
  BY <1>0, <1>1, <1>3 DEF Notes
<1> QED
  BY <1>3, <1>5, <1>6, BeginKeeps

\* So does every recovery.
LEMMA RecoverKeeps ==
  ASSUME JournalInv, Recover
  PROVE  JournalInv'
<1>1. FilesOK /\ journal \in Journals /\ authority \in Authorities /\ Length \in Nat
  BY FilesFields DEF JournalInv
<1>2. CASE DiscardPending
  BY <1>2, DiscardKeeps
<1>3. CASE RecoverTo("complete", Len(journal.lines), FALSE)
  <2>1. State = "pending"
    BY <1>3, AllowedStates DEF RecoverTo
  <2>2. journal.torn = FALSE
    BY <1>1, <2>1, DoubtedFiles, BelievedFiles, JournalFields DEF State, Believed
  <2>3. Keeps(Len(journal.lines), FALSE)
    BY <1>1, <2>2 DEF Keeps, Length
  <2> QED
    BY <1>3, <2>3, RecoverToKeeps
<1>4. ASSUME State \in {"disagreement", "invalid"}, edits = 0, tail = FALSE
      PROVE  FALSE
  BY <1>1, <1>4, UntouchedStates DEF JournalInv, OwnFiles, Believed
<1>5. CASE RecoverTo("asRead", Len(journal.lines), FALSE)
  <2>1. State = "disagreement"
    BY <1>5, AllowedStates DEF RecoverTo
  <2>2. ~(edits = 0 /\ tail = FALSE)
    BY <1>4, <2>1
  <2>3. Keeps(Len(journal.lines), FALSE)
    BY <1>1, <2>2 DEF Keeps, Length
  <2> QED
    BY <1>5, <2>3, RecoverToKeeps
<1>6. CASE RecoverTo("prefix", Verified(journal), TRUE)
  <2>1. State = "invalid"
    BY <1>6, AllowedStates DEF RecoverTo
  <2>2. journal.exists /\ Verified(journal) < Length
    BY <1>1, <2>1, DoubtedFiles DEF State, Invalid, Length
  <2>3. Keeps(Verified(journal), TRUE)
    BY <1>1, <1>4, <2>1, <2>2, VerifiedPrefix DEF Keeps, Length
  <2> QED
    BY <1>6, <2>3, RecoverToKeeps
<1>7. CASE RecoverTo("empty", 0, FALSE)
  <2>1. ~journal.exists
    BY <1>1, <1>7, AllowedStates, DoubtedFiles DEF RecoverTo, State
  <2>2. Length = 0 /\ journal.torn = FALSE
    BY <1>1, <2>1, FilesFields
  <2>3. Keeps(0, FALSE)
    BY <2>2 DEF Keeps
  <2> QED
    BY <1>7, <2>3, RecoverToKeeps
<1> QED
  BY <1>2, <1>3, <1>5, <1>6, <1>7 DEF Recover
------------------------------------------------------------------------------
(* The durable steps.                                                      *)

\* Before its line is written, a write has its plan.
LEMMA PlanFacts ==
  ASSUME JournalInv, pc \notin {"free", "step4"}
  PROVE  LineOK /\ AuthorityWritten /\ PlanOK
BY DEF JournalInv, WriterOK

\* Step 1, the baseline authority, keeps the invariant.
LEMMA BaselineKeeps ==
  ASSUME JournalInv, BaselineAuthority
  PROVE  JournalInv'
<1>1. /\ pc = "step1" /\ pc' = "step2" /\ serial' = serial /\ edits' = edits
      /\ authority' = Document(write.lines, write.last, NoIntent)
      /\ journal' = journal /\ write' = write /\ chosen' = chosen /\ tail' = tail
  BY DEF BaselineAuthority, Step, history
<1>2. FilesOK /\ journal \in Journals /\ authority \in Authorities /\ Length \in Nat /\ serial \in Nat
  BY FilesFields DEF JournalInv
<1>3. LineOK /\ AuthorityWritten /\ PlanOK
  BY <1>1, PlanFacts
<1>4. /\ authority'.kind = "doc" /\ authority'.lines = write.lines /\ authority'.last = write.last
      /\ authority'.intended = NoIntent
  BY <1>1 DEF Document
<1>5. /\ write.lines \in Nat /\ write.last \in Nat /\ write.last < serial
      /\ write.alines = write.lines /\ write.alast = write.last
      /\ write.lines <= Length /\ write.last = DigestAt(journal, write.lines)
      /\ write.replace \in BOOLEAN
  BY <1>1, <1>3 DEF LineOK, PlanOK, AuthorityWritten
<1>6. NoIntent \in Intents /\ NoIntent.d = 0 /\ NoIntent.position = 0
  BY DEF NoIntent, Intents
<1>7. FilesOK'
  <2>1. authority' \in Authorities
    BY <1>1, <1>5, <1>6 DEF Document, Authorities
  <2>2. AuthorityOK(authority', serial)
    BY <1>2, <1>4, <1>5, <1>6, <2>1 DEF AuthorityOK, DigestAt
  <2> QED
    BY <1>1, <1>2, <1>4, <1>6, <2>2 DEF FilesOK, Length
<1>8. WriterOK'
  <2>1. LineOK'
    BY <1>1, <1>3 DEF LineOK
  <2>2. PlanOK'
    BY <1>1, <1>3 DEF PlanOK, Length
  <2>3. AuthorityWritten'
    BY <1>1, <1>4, <1>5 DEF AuthorityWritten
  <2> QED
    BY <1>1, <2>1, <2>2, <2>3 DEF WriterOK
<1>9. TellsLines'
  <2>1. CoveredVouched(journal, authority', chosen)
    BY <1>1, <1>3, <1>4 DEF CoveredVouched, Vouched, PlanOK, AuthorityWritten
  <2>2. TailKnown(journal, authority', Handled')
    <3>1. CASE write.replace
      <4>1. ~Follows(journal, write.lines + 1)
        BY <1>3, <3>1 DEF PlanOK
      <4>2. \A k \in write.lines + 1 .. Length : ~Sound(journal, k)
        BY <1>2, <1>5, <4>1 DEF Sound
      <4>3. \A k \in write.lines + 2 .. Length : ~Sound(journal, k)
        BY <1>2, <1>5, <4>2
      <4> QED
        BY <1>2, <1>4, <1>5, <4>2, <4>3 DEF TailKnown, Length
    <3>2. CASE ~write.replace
      <4>1. write.lines = Length
        BY <1>1, <1>2, <1>3, <1>5, <3>2 DEF PlanOK, AuthorityWritten
      <4> QED
        BY <1>2, <1>4, <4>1 DEF TailKnown, Length
    <3> QED
      BY <3>1, <3>2
  <2> QED
    BY <1>1, <2>1, <2>2 DEF TellsLines
<1>10. OwnFiles'
  <2> SUFFICES ASSUME edits = 0, tail = FALSE
               PROVE  Untouched(journal, authority')
    BY <1>1 DEF OwnFiles
  <2>1. Untouched(journal, authority) /\ journal.torn = FALSE
    BY <1>1 DEF JournalInv, OwnFiles
  <2>2. ~write.replace
    BY <1>2, <1>3, <1>5, <2>1 DEF PlanOK, Untouched, Sound, Length
  <2>3. write.lines = Length
    BY <1>1, <1>2, <1>3, <1>5, <2>2 DEF PlanOK, AuthorityWritten
  <2>4. Matches(journal, authority')
    BY <1>2, <1>4, <1>5 DEF Matches, Length
  <2> QED
    BY <1>4, <2>1, <2>3, <2>4 DEF Untouched, Length
<1> QED
  BY <1>7, <1>8, <1>9, <1>10 DEF JournalInv

\* Step 2, the intended line, keeps the invariant.
LEMMA IntendKeeps ==
  ASSUME JournalInv, IntendLine
  PROVE  JournalInv'
<1> DEFINE intent == [position |-> write.lines + 1, d |-> write.line.d]
<1>1. /\ pc = "step2" /\ pc' = (IF write.cut THEN "cut" ELSE "append") /\ serial' = serial
         /\ edits' = edits
      /\ authority' = Document(write.alines, write.alast, intent)
      /\ journal' = journal /\ write' = write /\ chosen' = chosen /\ tail' = tail
  BY DEF IntendLine, Step, history
<1>2. FilesOK /\ journal \in Journals /\ authority \in Authorities /\ Length \in Nat /\ serial \in Nat
  BY FilesFields DEF JournalInv
<1>3. LineOK /\ AuthorityWritten /\ PlanOK
  BY <1>1, PlanFacts
<1>4. /\ authority'.kind = "doc" /\ authority'.lines = write.alines /\ authority'.last = write.alast
      /\ authority'.intended = intent
  BY <1>1 DEF Document
<1>5. /\ write.lines \in Nat /\ write.alines \in Nat /\ write.alast \in Nat /\ write.alast < serial
      /\ write.line.d = serial /\ serial # 0 /\ write.lines <= Length /\ write.alines <= write.lines
      /\ authority.kind = "doc" /\ authority.lines = write.alines /\ authority.last = write.alast
      /\ write.replace \in BOOLEAN /\ write.cut \in BOOLEAN
  BY <1>1, <1>3 DEF LineOK, PlanOK, AuthorityWritten
<1>6. intent \in Intents /\ intent.d = serial /\ intent.position = write.lines + 1 /\ intent # NoIntent
  BY <1>2, <1>5 DEF NoIntent, Intents
<1> HIDE DEF intent
<1>7. FilesOK'
  <2>1. authority' \in Authorities
    BY <1>1, <1>5, <1>6 DEF Document, Authorities
  <2>2. AuthorityOK(authority', serial)
    BY <1>2, <1>3, <1>4, <1>5, <1>6, <2>1 DEF AuthorityOK, LineOK
  <2>3. authority'.intended.position <= Length + 1
    BY <1>2, <1>4, <1>5, <1>6
  <2> QED
    BY <1>1, <1>2, <2>2, <2>3 DEF FilesOK, Length
<1>8. WriterOK'
  <2>1. LineOK'
    BY <1>1, <1>3 DEF LineOK
  <2>2. PlanOK'
    <3>1. pc' = "cut" => ~write.replace
      BY <1>1, <1>3 DEF LineOK
    <3>2. pc' = "append" /\ ~write.replace => journal.torn = FALSE
      BY <1>1, <1>2, <1>3, <1>5, JournalFields DEF PlanOK
    <3> QED
      BY <1>1, <1>3, <3>1, <3>2 DEF PlanOK, Length
  <2>3. AuthorityWritten'
    BY <1>1, <1>4 DEF AuthorityWritten, intent
  <2> QED
    BY <1>1, <2>1, <2>2, <2>3 DEF WriterOK
<1>9. TellsLines'
  <2> SUFFICES ASSUME edits <= 1
               PROVE  CoveredVouched(journal, authority', chosen)
                      /\ TailKnown(journal, authority', Handled')
    BY <1>1 DEF TellsLines
  <2>1. CoveredVouched(journal, authority, chosen) /\ TailKnown(journal, authority, Handled)
    BY DEF JournalInv, TellsLines
  <2>2. Handled = FALSE /\ Handled' \in BOOLEAN
    BY <1>1 DEF Handled
  <2>3. authority'.kind = "doc" => authority.kind = "doc" /\ authority'.lines = authority.lines
        /\ authority'.last = authority.last
    BY <1>4, <1>5
  <2> QED
    BY <2>1, <2>2, <2>3, VouchedMore, TailKnownMore
<1>10. OwnFiles'
  <2> SUFFICES ASSUME edits = 0, tail = FALSE
               PROVE  Untouched(journal, authority')
    BY <1>1 DEF OwnFiles
  <2>1. Untouched(journal, authority)
    BY DEF JournalInv, OwnFiles
  <2>2. ~write.replace
    BY <1>2, <1>3, <1>5, <2>1 DEF PlanOK, Untouched, Sound, Length
  <2>3. write.lines = Length
    BY <1>1, <1>2, <1>3, <1>5, <2>2 DEF PlanOK
  <2>4. Matches(journal, authority')
    BY <1>4, <1>5, <2>1 DEF Matches, Untouched
  <2> QED
    BY <1>4, <1>6, <2>1, <2>3, <2>4 DEF Untouched, Length
<1> QED
  BY <1>7, <1>8, <1>9, <1>10 DEF JournalInv
\* The history of a write that stopped: it is said no less of the tail.
LEMMA TailKnownHand ==
  ASSUME NEW j, NEW a, NEW h \in BOOLEAN, NEW g \in BOOLEAN, TailKnown(j, a, h), h => g
  PROVE  TailKnown(j, a, g)
BY DEF TailKnown

\* What is said of the lines does not depend on whether a torn one follows them.
LEMMA SameLines ==
  ASSUME NEW j, NEW k, NEW a, NEW c, NEW h, k.lines = j.lines
  PROVE  /\ CoveredVouched(k, a, c) <=> CoveredVouched(j, a, c)
         /\ TailKnown(k, a, h) <=> TailKnown(j, a, h)
         /\ Distinct(k) <=> Distinct(j)
         /\ Matches(k, a) <=> Matches(j, a)
         /\ \A m : DigestAt(k, m) = DigestAt(j, m)
         /\ \A m : Follows(k, m) <=> Follows(j, m)
         /\ \A m : Sound(k, m) <=> Sound(j, m)
<1>1. \A m : DigestAt(k, m) = DigestAt(j, m)
  BY DEF DigestAt
<1>2. \A m : Follows(k, m) <=> Follows(j, m)
  BY <1>1, Zenon DEF Follows
<1>3. \A m : Sound(k, m) <=> Sound(j, m)
  BY <1>2, Zenon DEF Sound
<1>4. Matches(k, a) <=> Matches(j, a)
  BY <1>1, Zenon DEF Matches
<1>5. CoveredVouched(k, a, c) <=> CoveredVouched(j, a, c)
  BY <1>3, <1>4, Zenon DEF CoveredVouched, Vouched
<1>6. TailKnown(k, a, h) <=> TailKnown(j, a, h)
  BY <1>1, <1>3, <1>4, Zenon DEF TailKnown, Discards, NotIntended
<1> QED
  BY <1>1, <1>2, <1>3, <1>4, <1>5, <1>6, Zenon DEF Distinct

\* A write that stops between two steps keeps the invariant.
LEMMA KillKeeps ==
  ASSUME JournalInv, Stops
  PROVE  JournalInv'
<1>1. /\ pc' = "free" /\ serial' = serial /\ edits' = edits /\ authority' = authority
      /\ journal' = journal /\ chosen' = chosen /\ tail' = tail
  BY DEF Stops, files, history
<1>2. FilesOK'
  BY <1>1 DEF JournalInv, FilesOK, Length
<1>3. WriterOK'
  BY <1>1 DEF WriterOK
<1>4. TellsLines'
  <2> SUFFICES ASSUME edits <= 1
               PROVE  CoveredVouched(journal, authority, chosen)
                      /\ TailKnown(journal, authority, Handled')
    BY <1>1 DEF TellsLines
  <2>1. Handled \in BOOLEAN /\ Handled' \in BOOLEAN /\ (Handled => Handled')
    BY <1>1 DEF Handled
  <2> QED
    BY <2>1, TailKnownHand DEF JournalInv, TellsLines
<1>5. OwnFiles'
  BY <1>1 DEF JournalInv, OwnFiles
<1> QED
  BY <1>2, <1>3, <1>4, <1>5 DEF JournalInv

\* A torn line comes or goes behind the same lines.
LEMMA TornFiles ==
  ASSUME FilesOK, journal' \in Journals, journal'.lines = journal.lines, journal'.exists,
         authority' = authority, serial' = serial, edits' = edits, tail' = tail
  PROVE  FilesOK'
<1>1. journal \in Journals /\ JournalOK(journal, serial) /\ Distinct(journal)
  BY DEF FilesOK, JournalOK
<1>2. Distinct(journal')
  BY <1>1, SameLines
<1>3. JournalOK(journal', serial)
  BY <1>1 DEF JournalOK
<1> QED
  BY <1>2, <1>3 DEF FilesOK, Length

\* A write that stops within its append, and leaves part of the line, keeps the invariant.
LEMMA TearKeeps ==
  ASSUME JournalInv, Tear
  PROVE  JournalInv'
<1>1. /\ pc = "append" /\ ~write.replace /\ pc' = "free" /\ serial' = serial /\ edits' = edits
      /\ authority' = authority /\ chosen' = chosen /\ tail' = tail
      /\ journal' = [journal EXCEPT !.exists = TRUE, !.torn = TRUE]
  BY DEF Tear, history
<1>2. FilesOK /\ journal \in Journals /\ authority \in Authorities /\ Length \in Nat /\ serial \in Nat
  BY FilesFields DEF JournalInv
<1>3. LineOK /\ AuthorityWritten /\ PlanOK
  BY <1>1, PlanFacts
<1>4. journal' \in Journals /\ journal'.lines = journal.lines /\ journal'.exists /\ journal'.torn
  BY <1>1, <1>2 DEF Journals
<1>5. FilesOK'
  BY <1>1, <1>2, <1>4, TornFiles
<1>6. WriterOK'
  BY <1>1 DEF WriterOK
<1>7. TellsLines'
  <2> SUFFICES ASSUME edits <= 1
               PROVE  CoveredVouched(journal', authority, chosen)
                      /\ TailKnown(journal', authority, Handled')
    BY <1>1 DEF TellsLines
  <2>1. Handled \in BOOLEAN /\ Handled' \in BOOLEAN /\ (Handled => Handled')
    BY <1>1 DEF Handled
  <2>2. CoveredVouched(journal, authority, chosen) /\ TailKnown(journal, authority, Handled')
    BY <2>1, TailKnownHand DEF JournalInv, TellsLines
  <2> QED
    BY <1>4, <2>2, SameLines
<1>8. OwnFiles'
  <2> SUFFICES ASSUME edits = 0, tail = FALSE
               PROVE  Untouched(journal', authority)
    BY <1>1 DEF OwnFiles
  <2>1. Untouched(journal, authority)
    BY DEF JournalInv, OwnFiles
  <2>2. write.replace \in BOOLEAN /\ write.lines \in Nat /\ write.lines = Length
    BY <1>1, <1>2, <1>3 DEF PlanOK, LineOK
  <2>3. /\ authority.kind = "doc"
           /\ authority.intended = [position |-> write.lines + 1, d |-> write.line.d]
    BY <1>1, <1>3 DEF AuthorityWritten
  <2>4. authority.intended.position = Length + 1 /\ authority.intended # NoIntent
    BY <1>2, <2>2, <2>3 DEF NoIntent
  <2>5. Sound(journal', Length) /\ Matches(journal', authority) /\ Len(journal'.lines) = Length
    BY <1>4, <2>1, <2>3, SameLines DEF Untouched, Length
  <2> QED
    BY <2>4, <2>5 DEF Untouched
<1> QED
  BY <1>5, <1>6, <1>7, <1>8 DEF JournalInv

\* The cut of a torn line keeps the invariant.
LEMMA CutKeeps ==
  ASSUME JournalInv, CutTorn
  PROVE  JournalInv'
<1>1. /\ pc = "cut" /\ pc' = "append" /\ serial' = serial /\ edits' = edits /\ write' = write
      /\ authority' = authority /\ chosen' = chosen /\ tail' = tail
      /\ journal' = [journal EXCEPT !.torn = FALSE]
  BY DEF CutTorn, Step, history
<1>2. FilesOK /\ journal \in Journals /\ authority \in Authorities /\ Length \in Nat /\ serial \in Nat
  BY FilesFields DEF JournalInv
<1>3. LineOK /\ AuthorityWritten /\ PlanOK
  BY <1>1, PlanFacts
<1>4. journal' \in Journals /\ journal'.lines = journal.lines /\ journal'.exists = journal.exists
      /\ journal'.torn = FALSE
  BY <1>1, <1>2 DEF Journals
<1>5. FilesOK'
  <2>1. Distinct(journal')
    BY <1>2, <1>4, SameLines DEF FilesOK
  <2>2. JournalOK(journal', serial)
    BY <1>2, <1>4 DEF FilesOK, JournalOK
  <2> QED
    BY <1>1, <1>2, <1>4, <2>1, <2>2 DEF FilesOK, Length
<1>6. WriterOK'
  <2>1. LineOK'
    BY <1>1, <1>3 DEF LineOK
  <2>2. /\ Length' = Length /\ \A m : DigestAt(journal', m) = DigestAt(journal, m)
        /\ \A m : Follows(journal', m) <=> Follows(journal, m)
        /\ \A m : Sound(journal', m) <=> Sound(journal, m)
    BY <1>4, SameLines DEF Length
  <2>3. PlanOK'
    <3>1. /\ DigestAt(journal', write.lines) = DigestAt(journal, write.lines)
          /\ DigestAt(journal', write.alines) = DigestAt(journal, write.alines)
          /\ DigestAt(journal', write.alines + 1) = DigestAt(journal, write.alines + 1)
          /\ Follows(journal', write.lines + 1) <=> Follows(journal, write.lines + 1)
          /\ Sound(journal', write.lines) <=> Sound(journal, write.lines)
      BY <2>2
    <3>2. ~write.replace
      BY <1>1, <1>3 DEF PlanOK
    <3> QED
      BY <1>1, <1>3, <1>4, <2>2, <3>1, <3>2 DEF PlanOK
  <2>4. AuthorityWritten'
    BY <1>1, <1>3 DEF AuthorityWritten
  <2> QED
    BY <1>1, <2>1, <2>3, <2>4 DEF WriterOK
<1>7. TellsLines'
  <2> SUFFICES ASSUME edits <= 1
               PROVE  CoveredVouched(journal', authority, chosen)
                      /\ TailKnown(journal', authority, Handled')
    BY <1>1 DEF TellsLines
  <2>1. Handled \in BOOLEAN /\ Handled' \in BOOLEAN /\ (Handled => Handled')
    BY <1>1 DEF Handled
  <2>2. CoveredVouched(journal, authority, chosen) /\ TailKnown(journal, authority, Handled')
    BY <2>1, TailKnownHand DEF JournalInv, TellsLines
  <2> QED
    BY <1>4, <2>2, SameLines
<1>8. OwnFiles'
  <2> SUFFICES ASSUME edits = 0, tail = FALSE
               PROVE  Untouched(journal', authority)
    BY <1>1 DEF OwnFiles
  <2>1. Untouched(journal, authority)
    BY DEF JournalInv, OwnFiles
  <2>2. /\ Sound(journal', Length) <=> Sound(journal, Length)
        /\ Matches(journal', authority) <=> Matches(journal, authority)
        /\ Len(journal'.lines) = Length /\ DigestAt(journal', Length) = DigestAt(journal, Length)
    BY <1>4, SameLines DEF Length
  <2> QED
    BY <1>4, <2>1, <2>2 DEF Untouched, Length
<1> QED
  BY <1>5, <1>6, <1>7, <1>8 DEF JournalInv
\* What an append does to the lines: those kept stay, and the line follows them.
LEMMA AppendFacts ==
  ASSUME JournalInv, AppendLine
  PROVE  \E m \in 0 .. Length :
           /\ m = (IF write.replace THEN write.lines ELSE Length) /\ write.lines <= m
           /\ journal' \in Journals /\ journal'.exists /\ journal'.torn = FALSE
           /\ Len(journal'.lines) = m + 1 /\ journal'.lines[m + 1] = write.line
           /\ \A k \in 1 .. m : journal'.lines[k] = journal.lines[k]
<1>1. pc = "append" /\ journal' = [exists |-> TRUE, lines |-> Appended, torn |-> FALSE]
  BY DEF AppendLine, Step
<1>2. FilesOK /\ journal \in Journals /\ Length \in Nat
  BY FilesFields DEF JournalInv
<1>3. LineOK /\ PlanOK
  BY <1>1, PlanFacts
<1>4. write.line \in Lines /\ write.lines \in Nat /\ write.replace \in BOOLEAN /\ write.lines <= Length
  BY <1>3 DEF LineOK, PlanOK
<1>5. journal.lines \in Seq(Lines)
  BY <1>2, JournalFields
<1> DEFINE m == IF write.replace THEN write.lines ELSE Length
<1>6. m \in 0 .. Length /\ write.lines <= m
  BY <1>2, <1>4
<1>7. Kept \in Seq(Lines) /\ Len(Kept) = m /\ \A k \in 1 .. m : Kept[k] = journal.lines[k]
  <2>1. CASE write.replace
    BY <1>2, <1>4, <1>5, <2>1 DEF Kept, Length
  <2>2. CASE ~write.replace
    BY <1>5, <2>2 DEF Kept, Length
  <2> QED
    BY <2>1, <2>2
<1>8. Appended = Append(Kept, write.line)
  <2>1. ~(journal.torn /\ ~write.replace)
    BY <1>1, <1>3 DEF PlanOK
  <2> QED
    BY <2>1 DEF Appended
<1> HIDE DEF m
<1>9. /\ Appended \in Seq(Lines) /\ Len(Appended) = m + 1 /\ Appended[m + 1] = write.line
      /\ \A k \in 1 .. m : Appended[k] = Kept[k]
  BY <1>2, <1>4, <1>6, <1>7, <1>8
<1>10. journal'.lines = Appended /\ journal'.exists /\ journal'.torn = FALSE /\ journal' \in Journals
  BY <1>1, <1>9 DEF Journals
<1> QED
  BY <1>6, <1>7, <1>9, <1>10 DEF m

\* Step 3, the line, keeps the invariant.
LEMMA AppendKeeps ==
  ASSUME JournalInv, AppendLine
  PROVE  JournalInv'
<1>1. /\ pc = "append" /\ pc' = "step4" /\ serial' = serial /\ edits' = edits /\ write' = write
      /\ authority' = authority /\ chosen' = chosen /\ tail' = tail
  BY DEF AppendLine, Step, history
<1>2. FilesOK /\ journal \in Journals /\ authority \in Authorities /\ Length \in Nat /\ serial \in Nat
  BY FilesFields DEF JournalInv
<1>3. LineOK /\ AuthorityWritten /\ PlanOK
  BY <1>1, PlanFacts
<1>4. PICK m \in 0 .. Length :
         /\ m = (IF write.replace THEN write.lines ELSE Length) /\ write.lines <= m
         /\ journal' \in Journals /\ journal'.exists /\ journal'.torn = FALSE
         /\ Len(journal'.lines) = m + 1 /\ journal'.lines[m + 1] = write.line
         /\ \A k \in 1 .. m : journal'.lines[k] = journal.lines[k]
  BY AppendFacts
<1>5. /\ write.lines \in Nat /\ write.alines \in Nat /\ write.alines <= write.lines /\ write.lines <= m
      /\ write.line \in Lines /\ write.line.d = serial /\ serial # 0 /\ write.line.prev = write.last
      /\ write.last < serial /\ write.last \in Nat /\ write.replace \in BOOLEAN
      /\ authority.kind = "doc" /\ authority.lines = write.alines /\ authority.last = write.alast
      /\ authority.intended = [position |-> write.lines + 1, d |-> write.line.d]
      /\ m \in Nat /\ m <= Length
  BY <1>1, <1>2, <1>3, <1>4 DEF LineOK, AuthorityWritten
<1>6. /\ \A k \in 0 .. m : DigestAt(journal', k) = DigestAt(journal, k)
      /\ \A k \in 1 .. m : Follows(journal', k) <=> Follows(journal, k)
      /\ \A k \in 0 .. m : Sound(journal', k) <=> Sound(journal, k)
  <2>1. \A k \in 1 .. m : journal'.lines[k] = journal.lines[k]
    BY <1>4
  <2> QED
    BY <1>5, <2>1, SamePrefix, Zenon
<1>7. Length' = m + 1 /\ DigestAt(journal', m + 1) = serial
  BY <1>4, <1>5 DEF Length, DigestAt
<1>8. \A k \in 1 .. m : journal.lines[k].d < serial /\ journal.lines[k].d \in Nat
  BY <1>2, <1>3, <1>5, JournalFields DEF PlanOK, Length
<1>9. FilesOK'
  <2>1. JournalOK(journal', serial)
    <3>1. \A k \in 1 .. m :
            /\ journal.lines[k].d <= serial /\ journal.lines[k].prev <= serial
            /\ journal.lines[k].what # "garbage" => journal.lines[k].d # 0
            /\ journal.lines[k].what = "grant" => journal.lines[k].spec \in Specs
      BY <1>2, <1>5 DEF FilesOK, JournalOK, Length
    <3>2. write.line.what = "grant" => write.line.spec \in Specs
      BY <1>3 DEF LineOK
    <3>3. \A k \in 1 .. m + 1 : k \in 1 .. m \/ k = m + 1
      BY <1>5
    <3>4. /\ write.line.d <= serial /\ write.line.prev <= serial
          /\ write.line.what # "garbage" => write.line.d # 0
      BY <1>2, <1>5
    <3>5. ASSUME NEW k \in 1 .. m + 1
          PROVE  /\ journal'.lines[k].d <= serial /\ journal'.lines[k].prev <= serial
                 /\ journal'.lines[k].what # "garbage" => journal'.lines[k].d # 0
                 /\ journal'.lines[k].what = "grant" => journal'.lines[k].spec \in Specs
      <4>1. CASE k \in 1 .. m
        BY <1>4, <3>1, <4>1
      <4>2. CASE k = m + 1
        <5>1. journal'.lines[k] = write.line
          BY <1>4, <4>2
        <5> QED
          BY <3>2, <3>4, <5>1
      <4> QED
        BY <3>3, <4>1, <4>2
    <3> QED
      BY <1>4, <3>5 DEF JournalOK
  <2>2. Distinct(journal')
    <3>1. ASSUME NEW k \in 1 .. m + 1, NEW l \in 1 .. m + 1,
                 journal'.lines[k].what # "garbage", journal'.lines[l].d = journal'.lines[k].d
          PROVE  k = l
      <4>1. CASE k = m + 1 \/ l = m + 1
        <5>1. ASSUME NEW i \in 1 .. m PROVE journal'.lines[i].d # serial
          <6>1. journal'.lines[i] = journal.lines[i]
            BY <1>4
          <6>2. journal.lines[i].d < serial /\ journal.lines[i].d \in Nat
            BY <1>8
          <6> QED
            BY <1>2, <6>1, <6>2
        <5>2. journal'.lines[m + 1].d = serial
          BY <1>4, <1>5
        <5>3. (k \in 1 .. m \/ k = m + 1) /\ (l \in 1 .. m \/ l = m + 1)
          BY <1>5
        <5> QED
          BY <3>1, <4>1, <5>1, <5>2, <5>3
      <4>2. CASE k # m + 1 /\ l # m + 1
        <5>1. k \in 1 .. Length /\ l \in 1 .. Length /\ k \in 1 .. m /\ l \in 1 .. m
          BY <1>2, <1>5, <4>2
        <5>2. Distinct(journal)
          BY <1>2 DEF FilesOK
        <5> QED
          BY <1>4, <3>1, <5>1, <5>2 DEF Distinct, Length
      <4> QED
        BY <4>1, <4>2
    <3> QED
      BY <1>4, <3>1 DEF Distinct
  <2>3. authority.intended.position <= Length' + 1
    BY <1>5, <1>7
  <2> QED
    BY <1>1, <1>2, <2>1, <2>2, <2>3 DEF FilesOK
<1>10. WriterOK'
  <2>1. LineOK'
    BY <1>1, <1>3 DEF LineOK
  <2>2. AuthorityWritten'
    BY <1>1, <1>3 DEF AuthorityWritten
  <2>3. /\ DigestAt(journal', write.lines) = DigestAt(journal, write.lines)
        /\ DigestAt(journal', write.alines) = DigestAt(journal, write.alines)
    BY <1>5, <1>6
  <2>4. write.lines < m => ~write.replace /\ m = Length
    BY <1>4, <1>5
  <2>5. write.alines < write.lines =>
          /\ write.lines = m /\ write.line.what = "recover"
          /\ write.line.voids = DigestAt(journal', write.alines + 1)
    <3> SUFFICES ASSUME write.alines < write.lines
                 PROVE  /\ write.lines = m /\ write.line.what = "recover"
                        /\ write.line.voids = DigestAt(journal', write.alines + 1)
      OBVIOUS
    <3>1. /\ write.lines = Length /\ write.line.what = "recover"
          /\ write.line.voids = DigestAt(journal, write.alines + 1)
      BY <1>3 DEF PlanOK
    <3>2. write.lines = m /\ write.alines + 1 \in 0 .. m
      BY <1>5, <3>1
    <3> QED
      BY <1>6, <3>1, <3>2
  <2>6. write.lines + 1 < m + 1 => tail /\ write.alines = write.lines
    <3> SUFFICES ASSUME write.lines < m PROVE tail /\ write.alines = write.lines
      BY <1>5
    <3>1. tail
      BY <1>3, <2>4 DEF PlanOK
    <3> QED
      BY <1>5, <2>5, <3>1
  <2>7. WrittenOK'
    <3>1. \A k \in 1 .. m : journal'.lines[k].d < serial
      BY <1>4, <1>8
    <3>2. write.last = DigestAt(journal', write.lines) /\ write.alast = DigestAt(journal', write.alines)
      BY <1>3, <2>3 DEF PlanOK
    <3>3. write.lines < m + 1 /\ (m + 1) - 1 = m
      BY <1>5
    <3> QED
      BY <1>1, <1>4, <1>7, <2>5, <2>6, <3>1, <3>2, <3>3 DEF WrittenOK
  <2> QED
    BY <1>1, <2>1, <2>2, <2>7 DEF WriterOK
<1>11. TellsLines'
  <2> SUFFICES ASSUME edits <= 1
               PROVE  CoveredVouched(journal', authority, chosen)
                      /\ TailKnown(journal', authority, Handled')
    BY <1>1 DEF TellsLines
  <2>1. Handled = FALSE /\ Handled' = FALSE
    BY <1>1 DEF Handled
  <2>2. CoveredVouched(journal, authority, chosen) /\ TailKnown(journal, authority, FALSE)
    BY <2>1 DEF JournalInv, TellsLines
  <2>3. /\ Matches(journal', authority) <=> Matches(journal, authority)
        /\ CoveredVouched(journal', authority, chosen) <=> CoveredVouched(journal, authority, chosen)
    <3>1. authority.lines <= m /\ m <= Len(journal.lines) /\ m <= Len(journal'.lines)
      BY <1>4, <1>5 DEF Length
    <3> QED
      BY <1>2, <1>4, <1>5, <3>1, PrefixKept
  <2>4. TailKnown(journal', authority, FALSE)
    <3> SUFFICES ASSUME Matches(journal, authority)
                 PROVE  /\ authority.lines < m + 1 /\ Sound(journal', authority.lines + 1)
                             => journal'.lines[authority.lines + 1].voids = 0
                        /\ \A k \in authority.lines + 2 .. m + 1 :
                             Sound(journal', k) => Discards(journal', authority, k)
      BY <1>4, <2>3 DEF TailKnown
    <3>1. ASSUME Sound(journal', authority.lines + 1)
          PROVE  journal'.lines[authority.lines + 1].voids = 0
      <4>1. CASE authority.lines < m
        <5>1. authority.lines + 1 \in 0 .. m /\ authority.lines + 1 \in 1 .. m
              /\ authority.lines < Len(journal.lines)
          BY <1>5, <4>1 DEF Length
        <5>2. Sound(journal, authority.lines + 1)
          BY <1>6, <3>1, <5>1
        <5> QED
          BY <1>4, <2>2, <5>1, <5>2 DEF TailKnown
      <4>2. CASE ~(authority.lines < m)
        <5>1. authority.lines = m /\ write.alines = write.lines
          BY <1>5, <4>2
        <5> QED
          BY <1>3, <1>4, <5>1 DEF LineOK
      <4> QED
        BY <4>1, <4>2
    <3>2. ASSUME NEW k \in authority.lines + 2 .. m + 1, Sound(journal', k)
          PROVE  Discards(journal', authority, k)
      <4>1. authority.lines + 1 \in 0 .. m
        BY <1>5
      <4>2. DigestAt(journal', authority.lines + 1) = DigestAt(journal, authority.lines + 1)
        BY <1>6, <4>1
      <4>3. CASE k <= m
        <5>1. k \in 0 .. m /\ k \in 1 .. m /\ k \in authority.lines + 2 .. Len(journal.lines)
          BY <1>2, <1>5, <4>3 DEF Length
        <5>2. Sound(journal, k)
          BY <1>6, <3>2, <5>1
        <5>3. Discards(journal, authority, k)
          BY <2>2, <5>1, <5>2 DEF TailKnown
        <5> QED
          BY <1>4, <4>2, <5>1, <5>3 DEF Discards
      <4>4. CASE ~(k <= m)
        <5>1. k = m + 1 /\ write.alines < m
          BY <1>5, <4>4
        <5>2. CASE write.alines < write.lines
          <6>1. write.line.what = "recover" /\ write.line.voids = DigestAt(journal, authority.lines + 1)
            BY <1>3, <1>5, <5>2 DEF PlanOK
          <6> QED
            BY <1>4, <4>2, <5>1, <6>1 DEF Discards
        <5>3. CASE write.alines = write.lines
          <6>1. write.lines \in 0 .. m - 1 /\ m \in 1 .. Len(journal.lines) /\ m \in 0 .. m
                /\ m \in 1 .. m
            BY <1>5, <5>1, <5>3 DEF Length
          <6>2. Sound(journal', m) /\ Follows(journal', m + 1)
            BY <1>5, <3>2, <5>1 DEF Sound
          <6>3. Follows(journal, m)
            <7>1. Follows(journal', m)
              BY <6>1, <6>2 DEF Sound
            <7> QED
              BY <1>6, <6>1, <7>1
          <6>4. DigestAt(journal, write.lines) # DigestAt(journal, m)
            BY <1>2, <6>1, <6>3, DigestsDiffer DEF FilesOK
          <6>5. write.line.prev = DigestAt(journal', m)
            <7>1. (m + 1) - 1 = m
              BY <1>5
            <7> QED
              BY <1>4, <6>2, <7>1 DEF Follows
          <6>6. DigestAt(journal', m) = DigestAt(journal, m)
            BY <1>6, <6>1
          <6>7. write.last = DigestAt(journal, write.lines)
            BY <1>3 DEF PlanOK
          <6> QED
            BY <1>5, <6>4, <6>5, <6>6, <6>7
        <5> QED
          BY <1>5, <5>2, <5>3
      <4> QED
        BY <1>5, <4>3, <4>4
    <3> QED
      BY <3>1, <3>2
  <2> QED
    BY <2>1, <2>2, <2>3, <2>4
<1>12. OwnFiles'
  <2> SUFFICES ASSUME edits = 0, tail = FALSE
               PROVE  Untouched(journal', authority)
    BY <1>1 DEF OwnFiles
  <2>1. Untouched(journal, authority)
    BY DEF JournalInv, OwnFiles
  <2>2. ~write.replace
    BY <1>2, <1>3, <1>5, <2>1 DEF PlanOK, Untouched, Sound, Length
  <2>3. write.lines = m /\ m = Length
    BY <1>2, <1>3, <1>4, <1>5, <2>2 DEF PlanOK
  <2>4. Matches(journal', authority)
    <3>1. authority.lines <= m /\ m <= Len(journal.lines) /\ m <= Len(journal'.lines)
      BY <1>4, <1>5 DEF Length
    <3>2. Matches(journal, authority)
      BY <1>5, <2>1 DEF Untouched
    <3> QED
      BY <1>2, <1>4, <1>5, <3>1, <3>2, PrefixKept
  <2>5. Sound(journal', m + 1)
    <3>1. Sound(journal', m)
      BY <1>5, <1>6, <2>1, <2>3 DEF Untouched, Length
    <3>2. Follows(journal', m + 1)
      <4>1. write.line.prev = DigestAt(journal', m)
        BY <1>3, <1>5, <1>6, <2>3 DEF PlanOK
      <4>2. write.line.what # "garbage" /\ (m + 1) - 1 = m
        BY <1>3, <1>5 DEF LineOK
      <4> QED
        BY <1>4, <4>1, <4>2 DEF Follows
    <3>3. \A l \in 1 .. m + 1 : l \in 1 .. m \/ l = m + 1
      BY <1>5
    <3> QED
      BY <3>1, <3>2, <3>3 DEF Sound
  <2>6. /\ authority.intended # NoIntent /\ authority.intended.position = m + 1
        /\ authority.intended.d = serial /\ authority.lines < m + 1
    BY <1>5, <2>3 DEF NoIntent
  <2> QED
    BY <1>4, <1>7, <2>4, <2>5, <2>6 DEF Untouched, Length
<1> QED
  BY <1>9, <1>10, <1>11, <1>12 DEF JournalInv

\* Step 4, the new count, keeps the invariant.
LEMMA AcknowledgeKeeps ==
  ASSUME JournalInv, Acknowledge
  PROVE  JournalInv'
<1>1. /\ pc = "step4" /\ pc' = "free" /\ serial' = serial /\ edits' = edits /\ journal' = journal
      /\ authority' = Document(write.lines + 1, write.line.d, NoIntent)
      /\ chosen' = chosen \cup {write.line.d} /\ tail' = tail
  BY DEF Acknowledge, Step
<1>2. FilesOK /\ journal \in Journals /\ authority \in Authorities /\ Length \in Nat /\ serial \in Nat
  BY FilesFields DEF JournalInv
<1>3. LineOK /\ AuthorityWritten /\ WrittenOK
  BY <1>1 DEF JournalInv, WriterOK
<1>4. /\ authority'.kind = "doc" /\ authority'.lines = write.lines + 1 /\ authority'.last = serial
      /\ authority'.intended = NoIntent
  BY <1>1, <1>3 DEF Document, LineOK
<1>5. /\ write.lines \in Nat /\ write.alines \in Nat /\ write.alines <= write.lines
         /\ write.line.d = serial
      /\ write.lines < Length /\ journal.lines[Length] = write.line /\ Length \in 1 .. Length
      /\ authority.kind = "doc" /\ authority.lines = write.alines /\ authority.last = write.alast
      /\ write.alast = DigestAt(journal, write.alines)
  BY <1>1, <1>2, <1>3 DEF LineOK, AuthorityWritten, WrittenOK
<1>6. NoIntent \in Intents /\ NoIntent.d = 0 /\ NoIntent.position = 0
  BY DEF NoIntent, Intents
<1>7. FilesOK'
  <2>1. authority' \in Authorities
    BY <1>1, <1>2, <1>5, <1>6 DEF Document, Authorities
  <2>2. AuthorityOK(authority', serial)
    BY <1>2, <1>4, <1>5, <1>6, <2>1 DEF AuthorityOK
  <2> QED
    BY <1>1, <1>2, <1>4, <1>6, <2>2 DEF FilesOK, Length
<1>8. WriterOK'
  BY <1>1 DEF WriterOK
<1>9. write.lines + 1 < Length => DigestAt(journal, write.lines + 1) # serial
  <2> SUFFICES ASSUME write.lines + 1 < Length PROVE DigestAt(journal, write.lines + 1) # serial
    OBVIOUS
  <2>1. write.lines + 1 \in 1 .. Length - 1 /\ write.lines + 1 # 0
    BY <1>2, <1>5
  <2>2. journal.lines[write.lines + 1].d < serial /\ journal.lines[write.lines + 1].d \in Nat
    BY <1>2, <1>3, <2>1, JournalFields DEF WrittenOK, Length
  <2> QED
    BY <1>2, <2>1, <2>2 DEF DigestAt
<1>10. TellsLines'
  <2> SUFFICES ASSUME edits <= 1, Matches(journal, authority')
               PROVE  /\ Sound(journal, authority'.lines) => Vouched(journal, authority'.lines, chosen')
                      /\ authority'.lines = Length
    BY <1>1, <1>2, <1>4, <1>5 DEF TellsLines, CoveredVouched, TailKnown, Length
  <2>1. write.lines + 1 = Length
    BY <1>2, <1>4, <1>5, <1>9 DEF Matches, Length
  <2>2. ASSUME Sound(journal, Length) PROVE Vouched(journal, Length, chosen')
    <3>1. /\ CoveredVouched(journal, authority, chosen) /\ TailKnown(journal, authority, FALSE)
      BY <1>1 DEF JournalInv, TellsLines, Handled
    <3>2. Matches(journal, authority)
      BY <1>2, <1>5 DEF Matches, Length
    <3>3. Sound(journal, authority.lines)
      BY <1>2, <1>5, <2>2, SoundPrefix
    <3>4. Vouched(journal, write.alines, chosen)
      BY <1>5, <3>1, <3>2, <3>3 DEF CoveredVouched
    <3>5. ASSUME NEW k \in 1 .. Length, journal.lines[k].what = "grant",
                 \A l \in 1 .. Length : journal.lines[l].voids # journal.lines[k].d
          PROVE  journal.lines[k].d \in chosen'
      <4>1. CASE k = Length
        BY <1>1, <1>5, <4>1
      <4>2. CASE k <= write.alines
        <5>1. k \in 1 .. write.alines /\ \A l \in 1 .. write.alines : l \in 1 .. Length
          BY <1>2, <1>5, <4>2
        <5> QED
          BY <1>1, <3>4, <3>5, <5>1 DEF Vouched
      <4>3. CASE k = write.alines + 1 /\ k # Length
        <5>1. write.alines < write.lines
          BY <1>2, <1>5, <2>1, <4>3
        <5>2. write.line.voids = DigestAt(journal, write.alines + 1)
          BY <1>3, <5>1 DEF WrittenOK
        <5>3. DigestAt(journal, write.alines + 1) = journal.lines[k].d
          BY <1>5, <4>3 DEF DigestAt
        <5> QED
          BY <1>5, <3>5, <5>2, <5>3
      <4>4. CASE k > write.alines + 1 /\ k # Length
        <5>1. k \in authority.lines + 2 .. Len(journal.lines)
          BY <1>2, <1>5, <4>4 DEF Length
        <5>2. Sound(journal, k)
          BY <1>2, <2>2, SoundPrefix
        <5>3. Discards(journal, authority, k)
          BY <3>1, <3>2, <5>1, <5>2 DEF TailKnown
        <5> QED
          BY <3>5, <5>3 DEF Discards
      <4> QED
        BY <1>2, <1>5, <4>1, <4>2, <4>3, <4>4
    <3> QED
      BY <3>5 DEF Vouched
  <2> QED
    BY <1>4, <2>1, <2>2
<1>11. OwnFiles'
  <2> SUFFICES ASSUME edits = 0, tail = FALSE
               PROVE  Untouched(journal, authority')
    BY <1>1 DEF OwnFiles
  <2>1. Untouched(journal, authority)
    BY DEF JournalInv, OwnFiles
  <2>2. write.lines + 1 = Length
    BY <1>2, <1>3, <1>5 DEF WrittenOK
  <2>3. DigestAt(journal, Length) = serial
    BY <1>5 DEF DigestAt
  <2>4. Matches(journal, authority')
    BY <1>2, <1>4, <2>2, <2>3 DEF Matches, Length
  <2>5. journal.torn = FALSE
    BY <1>3 DEF WrittenOK
  <2> QED
    BY <1>4, <2>1, <2>2, <2>4, <2>5 DEF Untouched, Length
<1> QED
  BY <1>7, <1>8, <1>10, <1>11 DEF JournalInv
------------------------------------------------------------------------------
(* Edits by other hands.                                                   *)

\* What is left to show of an edit: the first one breaks what is said of the lines nowhere.
LEMMA EditKeeps ==
  ASSUME JournalInv, NEW j, NEW a, Edit(j, a), serial' \in Nat,
         JournalOK(j, serial'), Distinct(j), AuthorityOK(a, serial'),
         edits = 0 => CoveredVouched(j, a, chosen) /\ TailKnown(j, a, TRUE)
  PROVE  JournalInv'
<1>1. /\ pc = "free" /\ pc' = "free" /\ edits' = edits + 1 /\ journal' = j /\ authority' = a
      /\ chosen' = chosen /\ tail' = tail
  BY DEF Edit, history
<1>2. edits \in Nat /\ tail \in BOOLEAN
  BY DEF JournalInv, FilesOK
<1>3. FilesOK'
  BY <1>1, <1>2 DEF FilesOK
<1>4. WriterOK'
  BY <1>1 DEF WriterOK
<1>5. TellsLines'
  <2> SUFFICES ASSUME edits' <= 1
               PROVE  CoveredVouched(j, a, chosen) /\ TailKnown(j, a, Handled')
    BY <1>1 DEF TellsLines
  <2>1. edits = 0 /\ Handled' = TRUE
    BY <1>1, <1>2 DEF Handled
  <2> QED
    BY <2>1
<1>6. OwnFiles'
  BY <1>1, <1>2 DEF OwnFiles
<1> QED
  BY <1>3, <1>4, <1>5, <1>6 DEF JournalInv

\* What the first edit finds.
LEMMA BeforeEdit ==
  ASSUME JournalInv, edits = 0, pc = "free"
  PROVE  /\ CoveredVouched(journal, authority, chosen) /\ TailKnown(journal, authority, FALSE)
         /\ authority.intended.position <= Length + 1 /\ authority.intended.d <= serial
<1>1. Handled = FALSE
  BY DEF Handled
<1>2. CoveredVouched(journal, authority, chosen) /\ TailKnown(journal, authority, Handled)
  BY DEF JournalInv, TellsLines
<1> QED
  BY <1>1, <1>2 DEF JournalInv, FilesOK, AuthorityOK

\* A line that does not follow, among those covered, takes belief from all of them.
LEMMA Broken ==
  ASSUME NEW j \in Journals, NEW a \in Authorities, NEW c, NEW h,
         NEW b \in 1 .. a.lines, ~Follows(j, b)
  PROVE  CoveredVouched(j, a, c) /\ TailKnown(j, a, h)
<1>1. a.lines \in Nat /\ Len(j.lines) \in Nat
  BY AuthorityFields, JournalFields
<1>2. \A k \in Nat : k >= a.lines => ~Sound(j, k)
  BY <1>1 DEF Sound
<1>3. ~Sound(j, a.lines) /\ ~Sound(j, a.lines + 1)
      /\ \A k \in a.lines + 2 .. Len(j.lines) : ~Sound(j, k)
  BY <1>1, <1>2
<1> QED
  BY <1>3 DEF CoveredVouched, TailKnown

\* An older journal: what is said of the lines holds of those that are left.
LEMMA Shortened ==
  ASSUME NEW j \in Journals, NEW k \in Journals, NEW a \in Authorities, NEW c,
         CoveredVouched(j, a, c), TailKnown(j, a, FALSE),
         Len(k.lines) <= Len(j.lines), \A l \in 1 .. Len(k.lines) : k.lines[l] = j.lines[l]
  PROVE  CoveredVouched(k, a, c) /\ TailKnown(k, a, TRUE)
<1>1. a.lines \in Nat /\ Len(j.lines) \in Nat /\ Len(k.lines) \in Nat
  BY AuthorityFields, JournalFields
<1>2. CASE a.lines <= Len(k.lines)
  <2>1. /\ Matches(k, a) <=> Matches(j, a)
        /\ CoveredVouched(k, a, c) <=> CoveredVouched(j, a, c)
    BY <1>1, <1>2, PrefixKept
  <2>2. /\ \A l \in 0 .. Len(k.lines) : DigestAt(k, l) = DigestAt(j, l)
        /\ \A l \in 0 .. Len(k.lines) : Sound(k, l) <=> Sound(j, l)
    BY <1>1, SamePrefix, Zenon
  <2>3. ASSUME Matches(j, a), a.lines < Len(k.lines), Sound(k, a.lines + 1)
        PROVE  k.lines[a.lines + 1].voids = 0
    <3>1. a.lines + 1 \in 0 .. Len(k.lines) /\ a.lines + 1 \in 1 .. Len(k.lines)
          /\ a.lines < Len(j.lines)
      BY <1>1, <2>3
    <3>2. Sound(j, a.lines + 1)
      BY <2>2, <2>3, <3>1
    <3> QED
      BY <2>3, <3>1, <3>2 DEF TailKnown
  <2>4. ASSUME Matches(j, a), NEW l \in a.lines + 2 .. Len(k.lines), Sound(k, l)
        PROVE  Discards(k, a, l)
    <3>1. /\ l \in 0 .. Len(k.lines) /\ l \in 1 .. Len(k.lines) /\ a.lines + 1 \in 0 .. Len(k.lines)
          /\ l \in a.lines + 2 .. Len(j.lines)
      BY <1>1
    <3>2. Sound(j, l) /\ DigestAt(k, a.lines + 1) = DigestAt(j, a.lines + 1)
      BY <2>2, <2>4, <3>1
    <3>3. Discards(j, a, l)
      BY <2>4, <3>1, <3>2 DEF TailKnown
    <3> QED
      BY <3>1, <3>2, <3>3 DEF Discards
  <2> QED
    BY <2>1, <2>3, <2>4 DEF TailKnown
<1>3. CASE a.lines > Len(k.lines)
  BY <1>1, <1>3 DEF CoveredVouched, TailKnown, Matches
<1>4. a.lines <= Len(k.lines) \/ a.lines > Len(k.lines)
  BY <1>1
<1> QED
  BY <1>2, <1>3, <1>4, Zenon

\* A line garbled, or changed to one whose digest is new: nothing after it is believed.
LEMMA LineChanged ==
  ASSUME NEW s \in Nat, NEW j, NEW k \in Journals, NEW a, NEW c,
         JournalOK(j, s), AuthorityOK(a, s),
         CoveredVouched(j, a, c), TailKnown(j, a, FALSE),
         NEW i \in 1 .. Len(j.lines), Len(k.lines) = Len(j.lines),
         \A l \in 1 .. Len(j.lines) : l # i => k.lines[l] = j.lines[l],
         \/ k.lines[i].what = "garbage"
         \/ /\ k.lines[i].d > s /\ k.lines[i].what = j.lines[i].what
            /\ k.lines[i].prev = j.lines[i].prev /\ k.lines[i].voids = j.lines[i].voids
  PROVE  CoveredVouched(k, a, c) /\ TailKnown(k, a, TRUE)
<1> DEFINE n == Len(j.lines)
           garbled == k.lines[i].what = "garbage"
<1>1. /\ j \in Journals /\ a \in Authorities /\ a.lines \in Nat /\ a.last \in Nat /\ a.last <= s
      /\ n \in Nat /\ Len(k.lines) = n /\ i \in Nat /\ i >= 1 /\ i <= n
  BY AuthorityFields, JournalFields DEF JournalOK, AuthorityOK
<1>2. garbled => ~Follows(k, i)
  BY DEF Follows
<1>3. ~garbled /\ i < n => ~Follows(k, i + 1)
  <2> SUFFICES ASSUME ~garbled, i < n PROVE ~Follows(k, i + 1)
    OBVIOUS
  <2>1. i + 1 \in 1 .. n /\ i + 1 # i /\ (i + 1) - 1 = i /\ i # 0
    BY <1>1
  <2>2. k.lines[i + 1].prev <= s /\ k.lines[i + 1].prev \in Nat
    BY <1>1, <2>1, JournalFields DEF JournalOK
  <2>3. DigestAt(k, i) > s /\ DigestAt(k, i) \in Nat
    BY <1>1, <2>1, JournalFields DEF DigestAt
  <2> QED
    BY <2>1, <2>2, <2>3 DEF Follows
<1>4. CASE i <= a.lines
  <2>1. CASE garbled
    <3>1. i \in 1 .. a.lines /\ ~Follows(k, i)
      BY <1>1, <1>2, <1>4, <2>1
    <3> QED
      BY <1>1, <3>1, Broken
  <2>2. CASE ~garbled /\ i < a.lines /\ a.lines <= n
    <3>1. i + 1 \in 1 .. a.lines /\ ~Follows(k, i + 1)
      BY <1>1, <1>3, <2>2
    <3> QED
      BY <1>1, <3>1, Broken
  <2>3. CASE ~garbled /\ i = a.lines
    <3>1. ~Matches(k, a)
      BY <1>1, <2>3 DEF Matches, DigestAt
    <3> QED
      BY <3>1 DEF CoveredVouched, TailKnown
  <2>4. CASE a.lines > n
    BY <1>1, <2>4 DEF CoveredVouched, TailKnown, Matches
  <2>5. garbled \/ (~garbled /\ i < a.lines /\ a.lines <= n) \/ (~garbled /\ i = a.lines) \/ a.lines > n
    BY <1>1, <1>4
  <2> QED
    BY <2>1, <2>2, <2>3, <2>4, <2>5, Zenon
<1>5. CASE i > a.lines
  <2>0. i - 1 \in Nat /\ i - 1 <= n /\ a.lines <= i - 1 /\ \A l \in 1 .. i - 1 : k.lines[l] = j.lines[l]
    <3>1. i - 1 \in Nat /\ i - 1 <= n /\ a.lines <= i - 1
      BY <1>1, <1>5
    <3>2. \A l \in 1 .. i - 1 : l \in 1 .. n /\ l # i
      BY <1>1
    <3> QED
      BY <3>1, <3>2
  <2>1. /\ Matches(k, a) <=> Matches(j, a)
        /\ CoveredVouched(k, a, c) <=> CoveredVouched(j, a, c)
    BY <1>1, <2>0, PrefixKept
  <2>2. /\ \A l \in 0 .. i - 1 : DigestAt(k, l) = DigestAt(j, l)
        /\ \A l \in 1 .. i - 1 : Follows(k, l) <=> Follows(j, l)
        /\ \A l \in 0 .. i - 1 : Sound(k, l) <=> Sound(j, l)
    BY <2>0, SamePrefix, Zenon
  <2>3. ASSUME NEW l \in 1 .. n, Sound(k, l)
        PROVE  l <= i /\ (l = i => ~garbled) /\ Sound(j, l)
    <3>1. l <= i
      <4> SUFFICES ASSUME l > i PROVE FALSE
        BY <1>1
      <4>1. i \in 1 .. l /\ i + 1 \in 1 .. l /\ i < n
        BY <1>1
      <4> QED
        BY <1>2, <1>3, <2>3, <4>1 DEF Sound
    <3>2. l = i => ~garbled
      BY <1>1, <1>2, <2>3 DEF Sound
    <3>3. ASSUME l < i PROVE Sound(j, l)
      BY <1>1, <2>2, <2>3, <3>3
    <3>4. ASSUME l = i PROVE Sound(j, l)
      <4>1. Sound(k, i - 1)
        BY <1>1, <2>3, <3>4 DEF Sound
      <4>2. Sound(j, i - 1)
        BY <2>0, <2>2, <4>1
      <4>3. Follows(j, i)
        <5>1. Follows(k, i)
          BY <1>1, <2>3, <3>4 DEF Sound
        <5>2. DigestAt(k, i - 1) = DigestAt(j, i - 1)
          BY <2>0, <2>2
        <5> QED
          BY <3>2, <3>4, <5>1, <5>2 DEF Follows
      <4>4. \A b \in 1 .. i : b \in 1 .. i - 1 \/ b = i
        BY <1>1
      <4> QED
        BY <3>4, <4>2, <4>3, <4>4 DEF Sound
    <3>5. l < i \/ l = i
      BY <1>1, <3>1
    <3> QED
      BY <3>1, <3>2, <3>3, <3>4, <3>5
  <2>4. ASSUME NEW l \in 1 .. n, Sound(k, l)
        PROVE  k.lines[l].voids = j.lines[l].voids /\ k.lines[l].what = j.lines[l].what
    BY <1>1, <2>3, <2>4
  <2>5. ASSUME Matches(j, a), a.lines < n, Sound(k, a.lines + 1)
        PROVE  k.lines[a.lines + 1].voids = 0
    <3>1. a.lines + 1 \in 1 .. n
      BY <1>1, <2>5
    <3> QED
      BY <2>3, <2>4, <2>5, <3>1 DEF TailKnown
  <2>6. ASSUME Matches(j, a), NEW l \in a.lines + 2 .. n, Sound(k, l)
        PROVE  Discards(k, a, l)
    <3>1. l \in 1 .. n
      BY <1>1
    <3>2. Sound(j, l) /\ l <= i
      BY <2>3, <2>6, <3>1
    <3>3. Discards(j, a, l)
      BY <2>6, <3>2 DEF TailKnown
    <3>4. a.lines + 1 \in 0 .. i - 1
      BY <1>1, <3>1, <3>2
    <3>5. DigestAt(k, a.lines + 1) = DigestAt(j, a.lines + 1)
      BY <2>2, <3>4
    <3> QED
      BY <2>4, <2>6, <3>1, <3>3, <3>5 DEF Discards
  <2> QED
    BY <1>1, <2>1, <2>5, <2>6 DEF TailKnown
<1>6. i <= a.lines \/ i > a.lines
  BY <1>1
<1> QED
  BY <1>4, <1>5, <1>6, Zenon

\* A grant added by hand: it is the last line, and not the one intended.
LEMMA Lengthened ==
  ASSUME NEW s \in Nat, NEW j, NEW k \in Journals, NEW a, NEW c,
         JournalOK(j, s), AuthorityOK(a, s),
         CoveredVouched(j, a, c), TailKnown(j, a, FALSE),
         a.intended.position <= Len(j.lines) + 1,
         Len(k.lines) = Len(j.lines) + 1, \A l \in 1 .. Len(j.lines) : k.lines[l] = j.lines[l],
         k.lines[Len(j.lines) + 1].d = s + 1, k.lines[Len(j.lines) + 1].voids = 0
  PROVE  CoveredVouched(k, a, c) /\ TailKnown(k, a, TRUE)
<1> DEFINE n == Len(j.lines)
<1>1. /\ j \in Journals /\ a \in Authorities /\ a.lines \in Nat /\ a.last \in Nat /\ a.last <= s
      /\ a.intended.d <= s /\ a.intended.d \in Nat
      /\ n \in Nat /\ Len(k.lines) = n + 1
  BY AuthorityFields, JournalFields DEF JournalOK, AuthorityOK
<1>2. CASE a.lines > n
  <2>1. ~Matches(k, a)
    BY <1>1, <1>2 DEF Matches, DigestAt
  <2> QED
    BY <2>1 DEF CoveredVouched, TailKnown
<1>3. CASE a.lines <= n
  <2>1. /\ Matches(k, a) <=> Matches(j, a)
        /\ CoveredVouched(k, a, c) <=> CoveredVouched(j, a, c)
    <3>1. a.lines <= n /\ n <= Len(j.lines) /\ n <= Len(k.lines)
          /\ \A l \in 1 .. n : k.lines[l] = j.lines[l]
      BY <1>1, <1>3
    <3> HIDE DEF n
    <3> QED
      BY <1>1, <3>1, PrefixKept
  <2>2. /\ \A l \in 0 .. n : DigestAt(k, l) = DigestAt(j, l)
        /\ \A l \in 0 .. n : Sound(k, l) <=> Sound(j, l)
    BY <1>1, SamePrefix, Zenon
  <2>3. ASSUME Matches(j, a), Sound(k, a.lines + 1)
        PROVE  k.lines[a.lines + 1].voids = 0
    <3>1. CASE a.lines = n
      BY <3>1
    <3>2. CASE a.lines < n
      <4>1. a.lines + 1 \in 0 .. n /\ a.lines + 1 \in 1 .. n
        BY <1>1, <3>2
      <4>2. Sound(j, a.lines + 1)
        BY <2>2, <2>3, <4>1
      <4> QED
        BY <2>3, <3>2, <4>1, <4>2 DEF TailKnown
    <3> QED
      BY <1>1, <1>3, <3>1, <3>2
  <2>4. ASSUME Matches(j, a), NEW l \in a.lines + 2 .. n + 1, Sound(k, l)
        PROVE  Discards(k, a, l) \/ (l = n + 1 /\ NotIntended(k, a, l))
    <3>1. CASE l = n + 1
      <4>1. k.lines[l].d = s + 1
        BY <3>1
      <4>2. a.intended.position <= l /\ a.intended.d # k.lines[l].d
        BY <1>1, <3>1, <4>1
      <4> QED
        BY <3>1, <4>2 DEF NotIntended
    <3>2. CASE l # n + 1
      <4>1. l \in 0 .. n /\ l \in 1 .. n /\ a.lines + 1 \in 0 .. n /\ l \in a.lines + 2 .. n
        <5>1. l \in Nat /\ l <= n + 1 /\ l >= a.lines + 2
          BY <1>1
        <5>2. l <= n
          BY <1>1, <3>2, <5>1
        <5> DEFINE b == a.lines
        <5>3. n \in Nat /\ b \in Nat
          BY <1>1
        <5> HIDE DEF n, b
        <5>4. l <= n /\ l >= b + 2
          BY <5>1, <5>2 DEF b
        <5>5. l \in 0 .. n /\ l \in 1 .. n
          BY <5>1, <5>3, <5>4
        <5>6. b + 1 \in 0 .. n /\ l \in b + 2 .. n
          BY <5>1, <5>3, <5>4
        <5> QED
          BY <5>5, <5>6 DEF b
      <4>2. Sound(j, l) /\ DigestAt(k, a.lines + 1) = DigestAt(j, a.lines + 1)
        BY <2>2, <2>4, <4>1
      <4>3. Discards(j, a, l)
        BY <2>4, <4>1, <4>2 DEF TailKnown
      <4> QED
        BY <4>1, <4>2, <4>3 DEF Discards
    <3> QED
      BY <3>1, <3>2
  <2> QED
    BY <1>1, <2>1, <2>3, <2>4 DEF TailKnown
<1>4. a.lines > n \/ a.lines <= n
  BY <1>1
<1> QED
  BY <1>2, <1>3, <1>4, Zenon

\* New lines in a journal leave the rest of it.
LEMMA SameFields ==
  ASSUME NEW j \in Journals, NEW s \in Seq(Lines), NEW k, k = [j EXCEPT !.lines = s]
  PROVE  k \in Journals /\ k.lines = s /\ k.exists = j.exists /\ k.torn = j.torn
BY DEF Journals

\* A journal made of lines of another, or of lines that parse no more, is one.
LEMMA FewerLines ==
  ASSUME NEW s \in Nat, NEW j, JournalOK(j, s), Distinct(j), NEW k \in Journals,
         (k.exists = j.exists /\ k.torn = j.torn) \/ k = NoJournal,
         Len(k.lines) <= Len(j.lines),
         \A l \in 1 .. Len(k.lines) : k.lines[l] = j.lines[l] \/ k.lines[l] = GarbledLine
  PROVE  JournalOK(k, s) /\ Distinct(k)
<1>1. j \in Journals /\ Len(j.lines) \in Nat /\ Len(k.lines) \in Nat
  BY JournalFields DEF JournalOK
<1>2. GarbledLine.d = 0 /\ GarbledLine.prev = 0 /\ GarbledLine.what = "garbage"
  BY DEF GarbledLine, NoLine
<1>3. \A l \in 1 .. Len(k.lines) : l \in 1 .. Len(j.lines)
  BY <1>1
<1>4. ASSUME NEW l \in 1 .. Len(k.lines)
      PROVE  /\ k.lines[l].d <= s /\ k.lines[l].prev <= s
             /\ k.lines[l].what # "garbage" =>
                  k.lines[l] = j.lines[l] /\ k.lines[l].d # 0
             /\ k.lines[l].what = "grant" => k.lines[l].spec \in Specs
  BY <1>2, <1>3 DEF JournalOK
<1>5. ~k.exists => k.lines = <<>> /\ k.torn = FALSE
  <2> SUFFICES ASSUME ~k.exists PROVE k.lines = <<>> /\ k.torn = FALSE
    OBVIOUS
  <2>1. CASE k.exists = j.exists /\ k.torn = j.torn
    <3>1. j.lines = <<>> /\ j.torn = FALSE
      BY <2>1 DEF JournalOK
    <3>2. Len(k.lines) = 0 /\ k.lines \in Seq(Lines)
      BY <1>1, <3>1, JournalFields
    <3> QED
      BY <2>1, <3>1, <3>2
  <2>2. CASE k = NoJournal
    BY <2>2 DEF NoJournal
  <2> QED
    BY <2>1, <2>2
<1>6. JournalOK(k, s)
  BY <1>4, <1>5 DEF JournalOK
<1>7. ASSUME NEW l \in 1 .. Len(k.lines), NEW m \in 1 .. Len(k.lines),
             k.lines[l].what # "garbage", k.lines[m].d = k.lines[l].d
      PROVE  l = m
  <2>1. k.lines[l] = j.lines[l] /\ k.lines[l].d # 0
    BY <1>4, <1>7
  <2>2. k.lines[m] = j.lines[m]
    BY <1>2, <1>7, <2>1
  <2> QED
    BY <1>3, <1>7, <2>1, <2>2 DEF Distinct
<1> QED
  BY <1>6, <1>7 DEF Distinct

\* A file restored, garbled or removed by hand keeps the invariant.
LEMMA EditFilesKeeps ==
  ASSUME JournalInv, EditFiles
  PROVE  JournalInv'
<1>1. serial' = serial /\ serial \in Nat /\ Length \in Nat
  BY FilesFields DEF EditFiles, JournalInv
<1>2. /\ journal \in Journals /\ authority \in Authorities /\ journal.lines \in Seq(Lines)
      /\ JournalOK(journal, serial) /\ Distinct(journal) /\ AuthorityOK(authority, serial)
  BY JournalFields DEF JournalInv, FilesOK, JournalOK, AuthorityOK
<1>3. NoJournal \in Journals /\ NoJournal.lines = <<>> /\ Len(NoJournal.lines) = 0
  BY DEF NoJournal, Journals
<1>4. CASE \E n \in 0 .. Len(journal.lines) - 1 : Edit(WithLines(SubSeq(journal.lines, 1, n)), authority)
  <2>1. PICK n \in 0 .. Len(journal.lines) - 1 : Edit(WithLines(SubSeq(journal.lines, 1, n)), authority)
    BY <1>4
  <2> DEFINE s == SubSeq(journal.lines, 1, n)
             k == WithLines(s)
  <2>2. s \in Seq(Lines) /\ Len(s) = n /\ n <= Len(journal.lines)
        /\ \A l \in 1 .. n : s[l] = journal.lines[l]
    BY <1>1, <1>2 DEF Length
  <2> HIDE DEF s
  <2>3. k \in Journals /\ k.lines = s /\ k.exists = journal.exists /\ k.torn = journal.torn
    BY <1>2, <2>2, SameFields DEF WithLines
  <2> HIDE DEF k
  <2>4. JournalOK(k, serial) /\ Distinct(k)
    BY <1>1, <1>2, <2>2, <2>3, FewerLines
  <2>5. edits = 0 => CoveredVouched(k, authority, chosen) /\ TailKnown(k, authority, TRUE)
    <3> SUFFICES ASSUME edits = 0 PROVE CoveredVouched(k, authority, chosen)
    /\ TailKnown(k, authority, TRUE)
      OBVIOUS
    <3>1. CoveredVouched(journal, authority, chosen) /\ TailKnown(journal, authority, FALSE)
      BY <2>1, BeforeEdit DEF Edit
    <3> QED
      BY <1>2, <2>2, <2>3, <3>1, Shortened
  <2>6. Edit(k, authority)
    BY <2>1 DEF k, s
  <2> QED
    BY <1>1, <1>2, <2>4, <2>5, <2>6, EditKeeps
<1>5. CASE \E k \in DOMAIN journal.lines : Edit(WithLines([journal.lines EXCEPT ![k] = GarbledLine]), authority)
  <2>1. PICK i \in DOMAIN journal.lines : Edit(WithLines([journal.lines EXCEPT ![i] = GarbledLine]), authority)
    BY <1>5
  <2> DEFINE s == [journal.lines EXCEPT ![i] = GarbledLine]
             k == WithLines(s)
  <2>2. GarbledLine \in Lines /\ GarbledLine.what = "garbage"
    BY DEF GarbledLine, NoLine, Lines
  <2>3. /\ s \in Seq(Lines) /\ Len(s) = Len(journal.lines) /\ i \in 1 .. Len(journal.lines)
           /\ s[i] = GarbledLine
        /\ \A l \in 1 .. Len(journal.lines) : l # i => s[l] = journal.lines[l]
    BY <1>2, <2>2
  <2> HIDE DEF s
  <2>4. k \in Journals /\ k.lines = s /\ k.exists = journal.exists /\ k.torn = journal.torn
    BY <1>2, <2>3, SameFields DEF WithLines
  <2> HIDE DEF k
  <2>5. JournalOK(k, serial) /\ Distinct(k)
    <3>1. Len(k.lines) <= Len(journal.lines)
      BY <1>1, <2>3, <2>4 DEF Length
    <3>2. \A l \in 1 .. Len(k.lines) : k.lines[l] = journal.lines[l] \/ k.lines[l] = GarbledLine
      BY <2>3, <2>4
    <3> QED
      BY <1>1, <1>2, <2>4, <3>1, <3>2, FewerLines
  <2>6. edits = 0 => CoveredVouched(k, authority, chosen) /\ TailKnown(k, authority, TRUE)
    <3> SUFFICES ASSUME edits = 0 PROVE CoveredVouched(k, authority, chosen)
    /\ TailKnown(k, authority, TRUE)
      OBVIOUS
    <3>1. CoveredVouched(journal, authority, chosen) /\ TailKnown(journal, authority, FALSE)
      BY <2>1, BeforeEdit DEF Edit
    <3>2. k.lines[i].what = "garbage"
      BY <2>2, <2>3, <2>4
    <3> QED
      BY <1>1, <1>2, <2>3, <2>4, <3>1, <3>2, LineChanged
  <2>7. Edit(k, authority)
    BY <2>1 DEF k, s
  <2> QED
    BY <1>1, <1>2, <2>5, <2>6, <2>7, EditKeeps
<1>6. CASE Edit(NoJournal, authority)
  <2>1. JournalOK(NoJournal, serial) /\ Distinct(NoJournal)
    BY <1>1, <1>2, <1>3, FewerLines DEF Length
  <2>2. edits = 0 => CoveredVouched(NoJournal, authority, chosen)
        /\ TailKnown(NoJournal, authority, TRUE)
    <3> SUFFICES ASSUME edits = 0
                 PROVE  CoveredVouched(NoJournal, authority, chosen)
                        /\ TailKnown(NoJournal, authority, TRUE)
      OBVIOUS
    <3>1. CoveredVouched(journal, authority, chosen) /\ TailKnown(journal, authority, FALSE)
      BY <1>6, BeforeEdit DEF Edit
    <3>2. Len(NoJournal.lines) <= Len(journal.lines)
          /\ \A l \in 1 .. Len(NoJournal.lines) : NoJournal.lines[l] = journal.lines[l]
      BY <1>1, <1>3 DEF Length
    <3> QED
      BY <1>2, <1>3, <3>1, <3>2, Shortened
  <2> QED
    BY <1>1, <1>2, <1>6, <2>1, <2>2, EditKeeps
<1>7. NoIntent \in Intents /\ NoIntent.d = 0 /\ NoAuthority.intended = NoIntent
  BY DEF NoIntent, Intents, NoAuthority
<1>8. ASSUME NEW a, a.kind \in {"absent", "garbled"}, a \in Authorities, a.lines = 0, a.last = 0, a.intended = NoIntent,
             Edit(journal, a)
      PROVE  JournalInv'
  <2>1. AuthorityOK(a, serial)
    BY <1>1, <1>7, <1>8 DEF AuthorityOK
  <2>2. CoveredVouched(journal, a, chosen) /\ TailKnown(journal, a, TRUE)
    BY <1>8 DEF CoveredVouched, TailKnown, Matches
  <2> QED
    BY <1>1, <1>2, <1>8, <2>1, <2>2, EditKeeps
<1>9. CASE Edit(journal, NoAuthority)
  BY <1>7, <1>8, <1>9 DEF NoAuthority, Authorities
<1>10. CASE Edit(journal, [NoAuthority EXCEPT !.kind = "garbled"])
  <2>1. [NoAuthority EXCEPT !.kind = "garbled"] = [kind |-> "garbled", lines |-> 0, last |-> 0, intended |-> NoIntent]
    BY DEF NoAuthority
  <2> QED
    BY <1>7, <1>8, <1>10, <2>1 DEF Authorities
<1> QED
  BY <1>4, <1>5, <1>6, <1>9, <1>10 DEF EditFiles

\* A line with a new digest and spec, field by field.
LEMMA LineEdited ==
  ASSUME NEW l \in Lines, NEW d, NEW s
  PROVE  [l EXCEPT !.d = d, !.spec = s] =
         [d |-> d, prev |-> l.prev, what |-> l.what, spec |-> s, voids |-> l.voids]
<1> DEFINE a == l.d
           b == l.prev
           c == l.what
           e == l.spec
           f == l.voids
<1>1. l = [d |-> a, prev |-> b, what |-> c, spec |-> e, voids |-> f]
  BY DEF Lines
<1> HIDE DEF a, b, c, e, f
<1> DEFINE m == [d |-> d, prev |-> b, what |-> c, spec |-> e, voids |-> f]
<1>2. [l EXCEPT !.d = d] = m
  BY <1>1
<1>3. [m EXCEPT !.spec = s] = [d |-> d, prev |-> b, what |-> c, spec |-> s, voids |-> f]
  OBVIOUS
<1> HIDE DEF m
<1>4. [l EXCEPT !.d = d, !.spec = s] = [[l EXCEPT !.d = d] EXCEPT !.spec = s]
  OBVIOUS
<1> QED
  BY <1>2, <1>3, <1>4 DEF b, c, f

\* A line changed or added by hand keeps the invariant.
LEMMA EditLineKeeps ==
  ASSUME JournalInv, EditLine
  PROVE  JournalInv'
<1>1. serial' = serial + 1 /\ serial \in Nat /\ Length \in Nat
  BY FilesFields DEF EditLine, JournalInv
<1>2. /\ journal \in Journals /\ authority \in Authorities /\ journal.lines \in Seq(Lines)
      /\ JournalOK(journal, serial) /\ Distinct(journal) /\ AuthorityOK(authority, serial)
  BY JournalFields DEF JournalInv, FilesOK, JournalOK, AuthorityOK
<1>3. /\ JournalOK(journal, serial + 1) /\ AuthorityOK(authority, serial + 1)
      /\ \A l \in 1 .. Len(journal.lines) :
           /\ journal.lines[l] \in Lines
           /\ journal.lines[l].d \in Nat /\ journal.lines[l].d # serial + 1
  <2>1. \A l \in 1 .. Len(journal.lines) : journal.lines[l].d \in Nat /\ journal.lines[l].d <= serial
    BY <1>2, JournalFields DEF JournalOK
  <2>2. JournalOK(journal, serial + 1) /\ AuthorityOK(authority, serial + 1)
    BY <1>1, <1>2, LaterSerial
  <2>3. ASSUME NEW l \in 1 .. Len(journal.lines)
        PROVE  /\ journal.lines[l] \in Lines
               /\ journal.lines[l].d \in Nat /\ journal.lines[l].d # serial + 1
    <3>1. journal.lines[l] \in Lines
      BY <1>2
    <3>2. journal.lines[l].d \in Nat /\ journal.lines[l].d <= serial
      BY <2>1
    <3> QED
      BY <1>1, <3>1, <3>2
  <2> QED
    BY <2>2, <2>3
<1>4. ASSUME NEW i \in DOMAIN journal.lines, NEW s \in Specs,
             Edit(WithLines([journal.lines EXCEPT ![i].d = serial + 1, ![i].spec = s]), authority)
      PROVE  JournalInv'
  <2> DEFINE o == journal.lines[i]
             e == [d |-> serial + 1, prev |-> o.prev, what |-> o.what, spec |-> s, voids |-> o.voids]
             t == [journal.lines EXCEPT ![i].d = serial + 1, ![i].spec = s]
             k == WithLines(t)
  <2>1. i \in 1 .. Len(journal.lines) /\ journal.lines[i] \in Lines
    BY <1>2
  <2>2. /\ e \in Lines /\ e.d = serial + 1 /\ e.spec = s /\ e.what = journal.lines[i].what
        /\ e.prev = journal.lines[i].prev /\ e.voids = journal.lines[i].voids
    BY <1>1, <2>1 DEF Lines
  <2>3. t = [journal.lines EXCEPT ![i] = e]
    <3>1. e = [o EXCEPT !.d = serial + 1, !.spec = s]
      <4>1. o \in Lines
        BY <2>1
      <4> HIDE DEF o
      <4> QED
        BY <4>1, LineEdited
    <3>2. t = [journal.lines EXCEPT ![i] = [o EXCEPT !.d = serial + 1, !.spec = s]]
      BY <1>2, <2>1
    <3> QED
      BY <3>1, <3>2
  <2> HIDE DEF e, t
  <2>4. /\ t \in Seq(Lines) /\ Len(t) = Len(journal.lines) /\ t[i] = e
        /\ \A l \in 1 .. Len(journal.lines) : l # i => t[l] = journal.lines[l]
    BY <1>2, <2>1, <2>2, <2>3
  <2>5. k \in Journals /\ k.lines = t /\ k.exists = journal.exists /\ k.torn = journal.torn
    BY <1>2, <2>4, SameFields DEF WithLines
  <2> HIDE DEF k
  <2>6. JournalOK(k, serial + 1)
    <3>1. ASSUME NEW l \in 1 .. Len(journal.lines)
          PROVE  /\ t[l].d <= serial + 1 /\ t[l].prev <= serial + 1
                 /\ t[l].what # "garbage" => t[l].d # 0
                 /\ t[l].what = "grant" => t[l].spec \in Specs
      <4>1. CASE l = i
        BY <1>1, <1>3, <2>1, <2>2, <2>4, <4>1 DEF JournalOK
      <4>2. CASE l # i
        BY <1>3, <2>4, <4>2 DEF JournalOK
      <4> QED
        BY <4>1, <4>2
    <3>2. ~k.exists => k.lines = <<>> /\ k.torn = FALSE
      BY <1>2, <2>1, <2>5 DEF JournalOK
    <3> QED
      BY <2>4, <2>5, <3>1, <3>2 DEF JournalOK
  <2>7. Distinct(k)
    <3>1. ASSUME NEW l \in 1 .. Len(journal.lines), NEW m \in 1 .. Len(journal.lines),
                 t[l].what # "garbage", t[m].d = t[l].d
          PROVE  l = m
      <4>1. CASE l = i \/ m = i
        BY <1>3, <2>2, <2>4, <3>1, <4>1
      <4>2. CASE l # i /\ m # i
        BY <1>2, <2>4, <3>1, <4>2 DEF Distinct
      <4> QED
        BY <4>1, <4>2
    <3> QED
      BY <2>4, <2>5, <3>1 DEF Distinct
  <2>8. edits = 0 => CoveredVouched(k, authority, chosen) /\ TailKnown(k, authority, TRUE)
    <3> SUFFICES ASSUME edits = 0 PROVE CoveredVouched(k, authority, chosen)
    /\ TailKnown(k, authority, TRUE)
      OBVIOUS
    <3>1. CoveredVouched(journal, authority, chosen) /\ TailKnown(journal, authority, FALSE)
      BY <1>4, BeforeEdit DEF Edit
    <3>2. /\ k.lines[i].d > serial /\ k.lines[i].what = journal.lines[i].what
          /\ k.lines[i].prev = journal.lines[i].prev /\ k.lines[i].voids = journal.lines[i].voids
      BY <1>1, <2>2, <2>4, <2>5
    <3> QED
      BY <1>1, <1>2, <2>1, <2>4, <2>5, <3>1, <3>2, LineChanged
  <2>9. Edit(k, authority)
    BY <1>4 DEF k, t
  <2>10. serial' \in Nat /\ JournalOK(k, serial') /\ AuthorityOK(authority, serial')
    BY <1>1, <1>3, <2>6
  <2> QED
    BY <2>7, <2>8, <2>9, <2>10, EditKeeps
<1>5. ASSUME NEW s \in Specs, journal.exists,
             Edit(WithLines(Append(journal.lines,
                    LineOf("grant", s, DigestAt(journal, Len(journal.lines)), 0))), authority)
      PROVE  JournalInv'
  <2> DEFINE n == Len(journal.lines)
             e == LineOf("grant", s, DigestAt(journal, n), 0)
             t == Append(journal.lines, e)
             k == WithLines(t)
  <2>1. n \in Nat /\ n \in 0 .. n
    BY <1>1 DEF Length
  <2>2. DigestAt(journal, n) \in Nat /\ DigestAt(journal, n) <= serial
    BY <1>1, <1>2, <2>1, DigestsKnown
  <2>3. e \in Lines /\ e.d = serial + 1 /\ e.prev <= serial + 1 /\ e.spec = s /\ e.voids = 0
    BY <1>1, <2>2 DEF LineOf, Lines
  <2> HIDE DEF e
  <2>4. /\ t \in Seq(Lines) /\ Len(t) = n + 1 /\ t[n + 1] = e
        /\ \A l \in 1 .. n : t[l] = journal.lines[l]
    BY <1>2, <2>1, <2>3
  <2> HIDE DEF t
  <2>5. k \in Journals /\ k.lines = t /\ k.exists = journal.exists /\ k.torn = journal.torn
    BY <1>2, <2>4, SameFields DEF WithLines
  <2> HIDE DEF k
  <2>6. JournalOK(k, serial + 1)
    <3>1. ASSUME NEW l \in 1 .. n + 1
          PROVE  /\ t[l].d <= serial + 1 /\ t[l].prev <= serial + 1
                 /\ t[l].what # "garbage" => t[l].d # 0
                 /\ t[l].what = "grant" => t[l].spec \in Specs
      <4>1. CASE l = n + 1
        BY <1>1, <2>3, <2>4, <4>1
      <4>2. CASE l # n + 1
        <5>1. l \in 1 .. n
          BY <2>1, <4>2
        <5> QED
          BY <1>3, <2>4, <5>1 DEF JournalOK
      <4> QED
        BY <4>1, <4>2
    <3>2. k.exists
      BY <1>5, <2>4, <2>5 DEF JournalOK, Edit
    <3> QED
      BY <2>4, <2>5, <3>1, <3>2 DEF JournalOK
  <2>7. Distinct(k)
    <3>1. ASSUME NEW l \in 1 .. n + 1, NEW m \in 1 .. n + 1,
                 t[l].what # "garbage", t[m].d = t[l].d
          PROVE  l = m
      <4>0. (l \in 1 .. n \/ l = n + 1) /\ (m \in 1 .. n \/ m = n + 1)
        BY <2>1
      <4>1. CASE l = n + 1 \/ m = n + 1
        BY <1>3, <2>3, <2>4, <3>1, <4>0, <4>1
      <4>2. CASE l \in 1 .. n /\ m \in 1 .. n
        BY <1>2, <2>4, <3>1, <4>2 DEF Distinct
      <4> QED
        BY <4>0, <4>1, <4>2
    <3> QED
      BY <2>4, <2>5, <3>1 DEF Distinct
  <2>8. edits = 0 => CoveredVouched(k, authority, chosen) /\ TailKnown(k, authority, TRUE)
    <3> SUFFICES ASSUME edits = 0 PROVE CoveredVouched(k, authority, chosen)
    /\ TailKnown(k, authority, TRUE)
      OBVIOUS
    <3>1. /\ CoveredVouched(journal, authority, chosen) /\ TailKnown(journal, authority, FALSE)
          /\ authority.intended.position <= Len(journal.lines) + 1
      BY <1>5, BeforeEdit DEF Edit, Length
    <3>2. k.lines[n + 1].d = serial + 1 /\ k.lines[n + 1].voids = 0
      BY <2>3, <2>4, <2>5
    <3> QED
      BY <1>1, <1>2, <2>4, <2>5, <3>1, <3>2, Lengthened
  <2>9. Edit(k, authority)
    BY <1>5 DEF k, t, e
  <2>10. serial' \in Nat /\ JournalOK(k, serial') /\ AuthorityOK(authority, serial')
    BY <1>1, <1>3, <2>6
  <2> QED
    BY <2>7, <2>8, <2>9, <2>10, EditKeeps
<1> QED
  BY <1>4, <1>5 DEF EditLine
------------------------------------------------------------------------------
(* The invariant, and what it says of the lines in force.                  *)

\* The invariant holds of the files that do not exist yet,
LEMMA JournalInvInit == OJInit => JournalInv
<1> SUFFICES ASSUME OJInit PROVE JournalInv
  OBVIOUS
<1>1. /\ journal = NoJournal /\ authority = NoAuthority /\ pc = "free"
      /\ serial = 0 /\ edits = 0 /\ tail = FALSE
  BY DEF OJInit
<1>2. /\ journal \in Journals /\ journal.lines = <<>> /\ ~journal.exists /\ journal.torn = FALSE
      /\ Len(journal.lines) = 0
  BY <1>1 DEF NoJournal, Journals
<1>3. /\ authority \in Authorities /\ authority.kind = "absent" /\ authority.lines = 0
         /\ authority.last = 0
      /\ authority.intended = NoIntent /\ NoIntent.position = 0 /\ NoIntent.d = 0
  BY <1>1 DEF NoAuthority, Authorities, NoIntent, Intents
<1>4. FilesOK
  <2>1. JournalOK(journal, 0)
    BY <1>2 DEF JournalOK
  <2>2. AuthorityOK(authority, 0)
    BY <1>3 DEF AuthorityOK
  <2>3. Distinct(journal)
    BY <1>2 DEF Distinct
  <2>4. JournalOK(journal, serial) /\ AuthorityOK(authority, serial)
    BY <1>1, <2>1, <2>2
  <2>5. serial \in Nat /\ edits \in Nat /\ tail \in BOOLEAN
    BY <1>1
  <2>6. edits = 0 => authority.intended.position <= Length + 1
    BY <1>2, <1>3 DEF Length
  <2> QED
    BY <2>3, <2>4, <2>5, <2>6 DEF FilesOK
<1>5. WriterOK
  BY <1>1 DEF WriterOK
<1>6. TellsLines
  BY <1>3 DEF TellsLines, CoveredVouched, TailKnown, Matches
<1>7. OwnFiles
  BY <1>1, <1>2, <1>3 DEF OwnFiles, Untouched, Sound
<1> QED
  BY <1>4, <1>5, <1>6, <1>7 DEF JournalInv

\* every step of the product, of a kill and of a hand keeps it,
LEMMA JournalInvStep == JournalInv /\ [OJNext]_ojvars => JournalInv'
<1> SUFFICES ASSUME JournalInv, [OJNext]_ojvars PROVE JournalInv'
  OBVIOUS
<1>1. ASSUME NEW what \in {"grant", "revoke"}, NEW s \in Specs, Change(what, s) PROVE JournalInv'
  BY <1>1, ChangeKeeps
<1>2. CASE Recover
  BY <1>2, RecoverKeeps
<1>3. CASE BaselineAuthority
  BY <1>3, BaselineKeeps
<1>4. CASE IntendLine
  BY <1>4, IntendKeeps
<1>5. CASE CutTorn
  BY <1>5, CutKeeps
<1>6. CASE AppendLine
  BY <1>6, AppendKeeps
<1>7. CASE Acknowledge
  BY <1>7, AcknowledgeKeeps
<1>8. CASE Stops
  BY <1>8, KillKeeps
<1>9. CASE Tear
  BY <1>9, TearKeeps
<1>10. CASE EditFiles
  BY <1>10, EditFilesKeeps
<1>11. CASE EditLine
  BY <1>11, EditLineKeeps
<1>12. CASE UNCHANGED ojvars
  <2>1. /\ journal' = journal /\ authority' = authority /\ pc' = pc /\ write' = write
           /\ serial' = serial
        /\ edits' = edits /\ chosen' = chosen /\ tail' = tail
    BY <1>12 DEF ojvars, files, history
  <2>2. FilesOK' /\ Length' = Length
    BY <2>1 DEF JournalInv, FilesOK, Length
  <2>3. WriterOK'
    <3>1. LineOK' <=> LineOK
      BY <2>1 DEF LineOK
    <3>2. PlanOK' <=> PlanOK
      BY <2>1, <2>2 DEF PlanOK
    <3>3. WrittenOK' <=> WrittenOK
      BY <2>1, <2>2 DEF WrittenOK
    <3>4. AuthorityWritten' <=> AuthorityWritten
      BY <2>1 DEF AuthorityWritten
    <3> QED
      BY <2>1, <3>1, <3>2, <3>3, <3>4 DEF JournalInv, WriterOK
  <2>4. TellsLines' /\ OwnFiles'
    BY <2>1 DEF JournalInv, TellsLines, OwnFiles, Handled
  <2> QED
    BY <2>2, <2>3, <2>4 DEF JournalInv
<1> QED
  BY <1>1, <1>2, <1>3, <1>4, <1>5, <1>6, <1>7, <1>8, <1>9, <1>10, <1>11, <1>12 DEF OJNext

\* The lines read are those covered, when these verify.
LEMMA CoveredLines ==
  ASSUME NEW j \in Journals, NEW a \in Authorities, Matches(j, a), Sound(j, a.lines)
  PROVE  Covered(j, a) = a.lines
<1>1. a.lines \in Nat /\ Len(j.lines) \in Nat
  BY AuthorityFields, JournalFields
<1>2. a.lines <= Verified(j) /\ Verified(j) \in Nat
  BY <1>1, SoundVerifies, VerifiedPrefix DEF Matches
<1> QED
  BY <1>1, <1>2 DEF Covered, Matches

\* Without lines, none is read.
LEMMA NothingCovered ==
  ASSUME NEW j \in Journals, NEW a \in Authorities, Len(j.lines) = 0
  PROVE  Covered(j, a) = 0
<1>1. a.lines \in Nat
  BY AuthorityFields
<1>2. Verified(j) = 0
  BY VerifiedPrefix
<1> QED
  BY <1>1, <1>2 DEF Covered

\* With no line covered, or the covered ones vouched for, every grant in force was chosen.
LEMMA VouchedInForce ==
  ASSUME NEW c, Vouched(journal, Covered(journal, authority), c)
  PROVE  \A k \in GrantsInForce(journal, authority) : journal.lines[k].d \in c
<1> DEFINE m == Covered(journal, authority)
<1>1. ASSUME NEW k \in GrantsInForce(journal, authority) PROVE journal.lines[k].d \in c
  <2>1. /\ k \in 1 .. m /\ journal.lines[k].what = "grant"
        /\ journal.lines[k].d \notin {journal.lines[l].voids : l \in 1 .. m}
    BY <1>1 DEF GrantsInForce
  <2>2. \A l \in 1 .. m : journal.lines[l].voids # journal.lines[k].d
    BY <2>1
  <2> HIDE DEF m
  <2> QED
    BY <2>1, <2>2 DEF Vouched, m
<1> QED
  BY <1>1

\* and it says that stops are told from edits.
LEMMA JournalInvImplies == JournalInv => StopsAreTold
<1> SUFFICES ASSUME JournalInv PROVE StopsAreTold
  OBVIOUS
<1>1. FilesOK /\ journal \in Journals /\ authority \in Authorities /\ Length \in Nat
  BY FilesFields DEF JournalInv
<1>2. InForceWasChosen
  <2> SUFFICES ASSUME edits <= 1, Readable(State)
               PROVE  \A k \in GrantsInForce(journal, authority) : journal.lines[k].d \in chosen
    BY DEF InForceWasChosen
  <2>1. CASE journal.exists
    <3>1. Matches(journal, authority) /\ Sound(journal, Len(journal.lines))
      BY <1>1, <2>1, BelievedFiles DEF State, Readable, Believed
    <3>2. authority.lines \in 0 .. Len(journal.lines) /\ Len(journal.lines) \in Nat
      BY <1>1, <3>1, AuthorityFields DEF Matches, Length
    <3>3. Sound(journal, authority.lines)
      BY <3>1, <3>2, SoundPrefix
    <3>4. Vouched(journal, authority.lines, chosen)
      BY <3>1, <3>3 DEF JournalInv, TellsLines, CoveredVouched
    <3> QED
      BY <1>1, <3>1, <3>3, <3>4, CoveredLines, VouchedInForce
  <2>2. CASE ~journal.exists
    <3>1. Vouched(journal, 0, chosen)
      BY DEF Vouched
    <3>2. Len(journal.lines) = 0
      BY <1>1, <2>2, FilesFields DEF Length
    <3> QED
      BY <1>1, <3>1, <3>2, NothingCovered, VouchedInForce
  <2> QED
    BY <2>1, <2>2
<1>3. OwnWritesReadBack
  <2> SUFFICES ASSUME edits = 0, ~tail
               PROVE  State \in Believed
    BY DEF OwnWritesReadBack, Believed
  <2>1. tail = FALSE
    BY <1>1 DEF FilesOK
  <2> QED
    BY <1>1, <2>1, UntouchedStates DEF JournalInv, OwnFiles
<1> QED
  BY <1>2, <1>3 DEF StopsAreTold

\* A write that stopped anywhere is told from an edit: in force are only
\* grants that were acknowledged or chosen in a recovery, as long as the files
\* were edited at most once, and the product's own writes always read back.
THEOREM StopsAreToldHolds == OJSpec => []StopsAreTold
<1>1. OJSpec => []JournalInv
  BY JournalInvInit, JournalInvStep, PTL DEF OJSpec
<1> QED
  BY <1>1, JournalInvImplies, PTL

------------------------------------------------------------------------------
(* The set in force.                                                       *)

\* Line k is among the first n, and none of them voids it.
KeptAmong(j, n, k) == k \in 1 .. n /\ \A l \in 1 .. n : j.lines[l].voids # j.lines[k].d

\* Line k grants a spec, and no later line kept revokes it.
GrantAmong(j, n, k) ==
  /\ KeptAmong(j, n, k) /\ j.lines[k].what = "grant"
  /\ \A l \in 1 .. n : KeptAmong(j, n, l) /\ l > k =>
       ~(j.lines[l].what = "revoke" /\ j.lines[l].spec = j.lines[k].spec)

\* What the first n lines put in force.
ForceAmong(j, n) == {j.lines[k].spec : k \in {l \in 1 .. n : GrantAmong(j, n, l)}}

\* Believed files read the lines covered.
LEMMA BelievedForce ==
  ASSUME NEW j, NEW a, NEW s, JournalOK(j, s), AuthorityOK(a, s), Classify(j, a) \in Believed
  PROVE  /\ InForce(j, a) = ForceAmong(j, a.lines)
         /\ a.lines \in 0 .. Len(j.lines) /\ Sound(j, Len(j.lines))
         /\ a.kind = "doc" => Matches(j, a)
         /\ a.kind # "doc" => a.lines = 0
         /\ j.exists => a.kind = "doc"
         /\ ~j.exists => Len(j.lines) = 0
<1>1. j \in Journals /\ a \in Authorities /\ a.lines \in Nat /\ Len(j.lines) \in Nat
  BY JournalFields, AuthorityFields DEF JournalOK, AuthorityOK
<1>2. /\ Covered(j, a) = a.lines /\ Sound(j, Len(j.lines)) /\ a.lines <= Len(j.lines)
      /\ a.kind = "doc" => Matches(j, a)
      /\ j.exists => a.kind = "doc"
      /\ ~j.exists => Len(j.lines) = 0
  <2>1. CASE j.exists
    <3>1. Matches(j, a) /\ Sound(j, Len(j.lines)) /\ a.kind = "doc"
      BY <1>1, <2>1, BelievedFiles
    <3>2. a.lines <= Len(j.lines) /\ a.lines \in 0 .. Len(j.lines)
      BY <1>1, <3>1 DEF Matches
    <3>3. Sound(j, a.lines)
      BY <1>1, <3>1, <3>2, SoundPrefix
    <3> QED
      BY <1>1, <2>1, <3>1, <3>2, <3>3, CoveredLines
  <2>2. CASE ~j.exists
    <3>1. j.lines = <<>> /\ Len(j.lines) = 0
      BY <2>2 DEF JournalOK
    <3>2. a.lines = 0
      BY <1>1, <2>2, BelievedWithoutJournal DEF AuthorityOK
    <3>3. a.kind = "doc" => Matches(j, a)
      BY <3>1, <3>2 DEF Matches, DigestAt, AuthorityOK
    <3>4. Sound(j, Len(j.lines))
      BY <3>1 DEF Sound
    <3> QED
      BY <1>1, <2>2, <3>1, <3>2, <3>3, <3>4, NothingCovered
  <2> QED
    BY <2>1, <2>2
<1>3. a.lines \in 0 .. Len(j.lines)
  BY <1>1, <1>2
<1>4. InForce(j, a) = ForceAmong(j, a.lines)
  <2> DEFINE n == a.lines
             L == j.lines
             voided == {L[k].voids : k \in 1 .. n}
             kept == {k \in 1 .. n : L[k].d \notin voided}
  <2>1. GrantsInForce(j, a) =
          {k \in kept : /\ L[k].what = "grant"
                        /\ \A l \in kept : l > k => ~(L[l].what = "revoke" /\ L[l].spec = L[k].spec)}
    BY <1>2 DEF GrantsInForce
  <2>2. \A k : k \in kept <=> KeptAmong(j, n, k)
    BY DEF KeptAmong
  <2>3. \A k \in kept : k \in 1 .. n
    OBVIOUS
  <2> HIDE DEF kept
  <2>4. GrantsInForce(j, a) = {l \in 1 .. n : GrantAmong(j, n, l)}
    BY <2>1, <2>2, <2>3 DEF GrantAmong
  <2> QED
    BY <2>4 DEF InForce, ForceAmong
<1>5. a.kind # "doc" => a.lines = 0
  BY DEF AuthorityOK
<1> QED
  BY <1>2, <1>3, <1>4, <1>5

\* What is in force are specs.
LEMMA ForceOfSpecs ==
  ASSUME NEW j, NEW s, JournalOK(j, s), NEW n \in 0 .. Len(j.lines)
  PROVE  ForceAmong(j, n) \subseteq Specs
<1>1. Len(j.lines) \in Nat
  BY JournalFields DEF JournalOK
<1>2. ASSUME NEW k \in 1 .. n, GrantAmong(j, n, k) PROVE j.lines[k].spec \in Specs
  <2>1. k \in 1 .. Len(j.lines) /\ j.lines[k].what = "grant"
    BY <1>1, <1>2 DEF GrantAmong
  <2> QED
    BY <2>1 DEF JournalOK
<1> QED
  BY <1>2 DEF ForceAmong

\* What the first lines put in force depends on those lines alone.
LEMMA ForceSame ==
  ASSUME NEW j, NEW k, NEW n, \A l \in 1 .. n : k.lines[l] = j.lines[l]
  PROVE  ForceAmong(k, n) = ForceAmong(j, n)
<1>1. ASSUME NEW l \in 1 .. n PROVE KeptAmong(k, n, l) <=> KeptAmong(j, n, l)
  BY DEF KeptAmong
<1>2. ASSUME NEW l \in 1 .. n PROVE GrantAmong(k, n, l) <=> GrantAmong(j, n, l)
  BY <1>1 DEF GrantAmong
<1>3. {l \in 1 .. n : GrantAmong(k, n, l)} = {l \in 1 .. n : GrantAmong(j, n, l)}
  BY <1>2
<1> QED
  BY <1>3 DEF ForceAmong

\* One spec at most enters or leaves.
ByOne(s, t) == s = t \/ \E x \in Specs : t = s \cup {x} \/ t = s \ {x}

\* The lines after those covered change what is in force by one spec at most.
LEMMA TailForce ==
  ASSUME FilesOK, Matches(journal, authority), Sound(journal, Length), TailKnown(journal, authority, FALSE),
         NEW c, c = authority.lines
  PROVE  ByOne(ForceAmong(journal, c), ForceAmong(journal, Length))
<1> DEFINE n == Length
           L == journal.lines
<1>1. /\ journal \in Journals /\ authority \in Authorities /\ c \in Nat /\ n \in Nat /\ c <= n
      /\ JournalOK(journal, serial) /\ Distinct(journal)
  BY FilesFields, AuthorityFields DEF Matches, Length, FilesOK
<1>2. \A k \in 1 .. n : /\ L[k].what # "garbage" /\ L[k].d # 0
                        /\ L[k].what = "grant" => L[k].spec \in Specs
  BY <1>1 DEF Sound, Follows, JournalOK, Length
<1>3. \A k \in 1 .. n : \A l \in 1 .. n : L[k].d = L[l].d => k = l
  BY <1>1, <1>2 DEF Distinct, Length
<1>4. CASE c = n
  BY <1>4 DEF ByOne
<1>5. CASE c < n
  <2>1. c + 1 \in 1 .. n /\ L[c + 1].voids = 0
    <3>1. c + 1 \in 1 .. n /\ c + 1 \in 0 .. n
      BY <1>1, <1>5
    <3>2. Sound(journal, c + 1)
      BY <1>1, <3>1, SoundPrefix
    <3> QED
      BY <1>5, <3>1, <3>2 DEF TailKnown, Length
  <2>2. \A k \in c + 2 .. n : L[k].what = "recover" /\ L[k].voids = L[c + 1].d
    <3> SUFFICES ASSUME NEW k \in c + 2 .. n PROVE L[k].what = "recover" /\ L[k].voids = L[c + 1].d
      OBVIOUS
    <3>1. Sound(journal, k)
      BY <1>1, SoundPrefix
    <3>2. Discards(journal, authority, k)
      BY <3>1 DEF TailKnown, Length
    <3>3. c + 1 # 0
      BY <1>1
    <3> QED
      BY <3>2, <3>3 DEF Discards, DigestAt
  <2>3. \A k \in 1 .. n : k \in 1 .. c \/ k = c + 1 \/ k \in c + 2 .. n
    BY <1>1
  <2>4. \A k \in 1 .. c : k \in 1 .. n /\ k # c + 1 /\ ~(k > c + 1)
    BY <1>1, <1>5
  <2> HIDE DEF n, L
  <2>5. \A k \in 1 .. c : KeptAmong(journal, n, k) <=> KeptAmong(journal, c, k)
    <3> SUFFICES ASSUME NEW k \in 1 .. c PROVE KeptAmong(journal, n, k) <=> KeptAmong(journal, c, k)
      OBVIOUS
    <3>1. L[c + 1].voids # L[k].d
      BY <1>2, <2>1, <2>4
    <3>2. \A l \in c + 2 .. n : L[l].voids # L[k].d
      BY <1>3, <2>1, <2>2, <2>4
    <3>3. KeptAmong(journal, c, k) => KeptAmong(journal, n, k)
      BY <2>3, <2>4, <3>1, <3>2 DEF KeptAmong, L
    <3>4. KeptAmong(journal, n, k) => KeptAmong(journal, c, k)
      BY <2>4 DEF KeptAmong
    <3> QED
      BY <3>3, <3>4
  <2>6. \A k \in c + 2 .. n : ~GrantAmong(journal, n, k)
    BY <2>2 DEF GrantAmong, L
  <2> DEFINE e == L[c + 1]
             here == KeptAmong(journal, n, c + 1)
  <2>7. ASSUME NEW k \in 1 .. c
        PROVE  GrantAmong(journal, n, k) <=>
                 GrantAmong(journal, c, k) /\ ~(here /\ e.what = "revoke" /\ e.spec = L[k].spec)
    <3>1. \A l \in c + 2 .. n : L[l].what # "revoke"
      BY <2>2
    <3>2. c + 1 > k
      BY <1>1
    <3>3. ASSUME GrantAmong(journal, n, k)
          PROVE  GrantAmong(journal, c, k) /\ ~(here /\ e.what = "revoke" /\ e.spec = L[k].spec)
      BY <2>1, <2>4, <2>5, <3>2, <3>3 DEF GrantAmong, L
    <3>4. ASSUME GrantAmong(journal, c, k), ~(here /\ e.what = "revoke" /\ e.spec = L[k].spec)
          PROVE  GrantAmong(journal, n, k)
      BY <2>3, <2>5, <3>1, <3>4 DEF GrantAmong, L
    <3> QED
      BY <3>3, <3>4
  <2>8. GrantAmong(journal, n, c + 1) <=> here /\ e.what = "grant"
    <3>1. \A l \in 1 .. n : l > c + 1 => L[l].what # "revoke"
      BY <2>2, <2>3, <2>4
    <3> QED
      BY <2>1, <3>1 DEF GrantAmong, L
  <2> HIDE DEF here, e
  <2> DEFINE F == ForceAmong(journal, c)
             G == ForceAmong(journal, n)
  <2>9. \A x : x \in F <=> \E k \in 1 .. c : GrantAmong(journal, c, k) /\ L[k].spec = x
    BY DEF ForceAmong, L
  <2>10. \A x : x \in G <=> \E k \in 1 .. n : GrantAmong(journal, n, k) /\ L[k].spec = x
    BY DEF ForceAmong, L
  <2> HIDE DEF F, G
  <2>11. \A x : x \in G <=> \/ x \in F /\ ~(here /\ e.what = "revoke" /\ e.spec = x)
                            \/ here /\ e.what = "grant" /\ e.spec = x
    <3>1. ASSUME NEW x, x \in G
          PROVE  \/ x \in F /\ ~(here /\ e.what = "revoke" /\ e.spec = x)
                 \/ here /\ e.what = "grant" /\ e.spec = x
      <4>1. PICK k \in 1 .. n : GrantAmong(journal, n, k) /\ L[k].spec = x
        BY <2>10, <3>1
      <4>2. CASE k \in 1 .. c
        BY <2>7, <2>9, <4>1, <4>2
      <4>3. CASE k = c + 1
        BY <2>8, <4>1, <4>3 DEF e
      <4> QED
        BY <2>3, <2>6, <4>1, <4>2, <4>3
    <3>2. ASSUME NEW x, x \in F, ~(here /\ e.what = "revoke" /\ e.spec = x)
          PROVE  x \in G
      BY <2>4, <2>7, <2>9, <2>10, <3>2
    <3>3. ASSUME NEW x, here, e.what = "grant", e.spec = x
          PROVE  x \in G
      BY <2>1, <2>8, <2>10, <3>3 DEF e
    <3> QED
      BY <3>1, <3>2, <3>3
  <2>12. CASE here /\ e.what = "grant"
    <3>1. e.spec \in Specs
      BY <1>2, <2>1, <2>12 DEF e
    <3>2. G = F \cup {e.spec}
      BY <2>11, <2>12
    <3> QED
      BY <3>1, <3>2 DEF ByOne, F, G, n
  <2>13. CASE here /\ e.what = "revoke"
    <3>1. G = F \ {e.spec}
      BY <2>11, <2>13
    <3>2. CASE e.spec \in Specs
      BY <3>1, <3>2 DEF ByOne, F, G, n
    <3>3. CASE e.spec \notin Specs
      <4>1. F \subseteq Specs
        <5>1. c \in 0 .. Len(journal.lines)
          BY <1>1 DEF n, Length
        <5> QED
          BY <1>1, <5>1, ForceOfSpecs DEF F
      <4>2. G = F
        BY <3>1, <3>3, <4>1
      <4> QED
        BY <4>2 DEF ByOne, F, G, n
    <3> QED
      BY <3>2, <3>3
  <2>14. CASE ~(here /\ e.what = "grant") /\ ~(here /\ e.what = "revoke")
    <3>1. G = F
      BY <2>11, <2>14
    <3> QED
      BY <3>1 DEF ByOne, F, G, n
  <2> QED
    BY <2>12, <2>13, <2>14
<1> QED
  BY <1>1, <1>4, <1>5
------------------------------------------------------------------------------
(* The set in force, step by step.                                         *)

\* Believed files that cover the same lines have the same in force.
LEMMA SameForce ==
  ASSUME NEW j, NEW a, NEW s, JournalOK(j, s), AuthorityOK(a, s), Classify(j, a) \in Believed,
         NEW k, NEW b, NEW t, JournalOK(k, t), AuthorityOK(b, t), Classify(k, b) \in Believed,
         b.lines = a.lines, \A l \in 1 .. a.lines : k.lines[l] = j.lines[l]
  PROVE  ByOne(InForce(j, a), InForce(k, b))
<1>1. InForce(j, a) = ForceAmong(j, a.lines) /\ InForce(k, b) = ForceAmong(k, a.lines)
  BY BelievedForce
<1>2. ForceAmong(k, a.lines) = ForceAmong(j, a.lines)
  BY ForceSame
<1> QED
  BY <1>1, <1>2 DEF ByOne

\* What the steps below have in common.
BelievedStep ==
  /\ JournalInv /\ JournalInv' /\ edits' \in Nat /\ edits' <= 1
  /\ State \in Believed /\ State' \in Believed

\* What the files are before and after such a step.
LEMMA StepFacts ==
  ASSUME BelievedStep
  PROVE  /\ JournalOK(journal, serial) /\ AuthorityOK(authority, serial)
         /\ JournalOK(journal', serial') /\ AuthorityOK(authority', serial')
         /\ Classify(journal, authority) \in Believed /\ Classify(journal', authority') \in Believed
         /\ Current = InForce(journal, authority) /\ Current' = InForce(journal', authority')
         /\ journal \in Journals /\ authority \in Authorities
         /\ serial \in Nat /\ Len(journal.lines) \in Nat /\ Len(journal'.lines) \in Nat
         /\ authority.lines \in 0 .. Len(journal.lines) /\ authority'.lines \in 0 .. Len(journal'.lines)
<1>1. /\ JournalOK(journal, serial) /\ AuthorityOK(authority, serial) /\ serial \in Nat
      /\ JournalOK(journal', serial') /\ AuthorityOK(authority', serial')
  BY DEF BelievedStep, JournalInv, FilesOK
<1>2. /\ Classify(journal, authority) \in Believed /\ Classify(journal', authority') \in Believed
      /\ Current = InForce(journal, authority) /\ Current' = InForce(journal', authority')
  BY DEF BelievedStep, State, Current
<1>3. journal \in Journals /\ authority \in Authorities /\ journal' \in Journals
  BY <1>1 DEF JournalOK, AuthorityOK
<1>4. authority.lines \in 0 .. Len(journal.lines)
  BY <1>1, <1>2, BelievedForce
<1>5. authority'.lines \in 0 .. Len(journal'.lines)
  BY <1>1, <1>2, BelievedForce
<1> QED
  BY <1>1, <1>2, <1>3, <1>4, <1>5, JournalFields

\* A step that leaves the covered lines alone leaves the set alone.
LEMMA CoveredLeftAlone ==
  ASSUME BelievedStep, authority'.lines = authority.lines,
         \A l \in 1 .. authority.lines : journal'.lines[l] = journal.lines[l]
  PROVE  ByOne(Current, Current')
BY StepFacts, SameForce

\* A count raised to the whole journal brings its last change into force.
LEMMA TailCovered ==
  ASSUME BelievedStep, journal' = journal, authority'.lines = Length, authority.kind = "doc",
         NEW h \in BOOLEAN, TailKnown(journal, authority, h)
  PROVE  ByOne(Current, Current')
<1>1. /\ Current = ForceAmong(journal, authority.lines)
         /\ Current' = ForceAmong(journal', authority'.lines)
      /\ Matches(journal, authority) /\ Sound(journal, Length)
  BY StepFacts, BelievedForce DEF Length
<1>2. TailKnown(journal, authority, FALSE)
  <2>1. ~journal.exists => journal.lines = <<>>
    BY StepFacts DEF JournalOK
  <2> QED
    BY <2>1, StepFacts, BelievedTail
<1>3. FilesOK
  BY DEF BelievedStep, JournalInv
<1> QED
  BY <1>1, <1>2, <1>3, TailForce

\* Step 1 completes a pending line, or changes nothing.
LEMMA BaselineForce ==
  ASSUME BelievedStep, BaselineAuthority
  PROVE  ByOne(Current, Current')
<1>1. /\ pc = "step1" /\ journal' = journal /\ edits' = edits
      /\ authority' = Document(write.lines, write.last, NoIntent)
  BY DEF BaselineAuthority, Step
<1>2. LineOK /\ AuthorityWritten /\ PlanOK
  BY <1>1 DEF BelievedStep, JournalInv, WriterOK
<1>3. /\ authority'.lines = write.lines /\ write.lines \in Nat /\ write.lines <= Length
         /\ Length \in Nat
      /\ write.step1 /\ write.replace \in BOOLEAN
  BY <1>1, <1>2, StepFacts DEF Document, LineOK, AuthorityWritten, PlanOK, Length
<1>4. Sound(journal, Length)
  BY StepFacts, BelievedForce DEF Length
<1>5. ~write.replace
  <2> SUFFICES ASSUME write.replace PROVE FALSE
    OBVIOUS
  <2>1. write.lines < Length /\ ~Follows(journal, write.lines + 1)
    BY <1>2 DEF PlanOK
  <2>2. write.lines + 1 \in 1 .. Length
    BY <1>3, <2>1
  <2> QED
    BY <1>4, <2>1, <2>2 DEF Sound
<1>6. authority'.lines = Length
  BY <1>2, <1>3, <1>5 DEF PlanOK
<1>7. CASE authority.kind = "doc"
  <2>1. Handled \in BOOLEAN /\ TailKnown(journal, authority, Handled)
    BY <1>1 DEF BelievedStep, JournalInv, TellsLines, Handled
  <2> QED
    BY <1>1, <1>6, <1>7, <2>1, TailCovered
<1>8. CASE authority.kind # "doc"
  <2>1. authority.lines = 0 /\ Length = 0
    BY <1>8, StepFacts, BelievedForce DEF Length
  <2> QED
    BY <1>1, <1>6, <2>1, CoveredLeftAlone
<1> QED
  BY <1>7, <1>8

\* Step 2 changes nothing.
LEMMA IntendForce ==
  ASSUME BelievedStep, IntendLine
  PROVE  ByOne(Current, Current')
<1>1. /\ pc = "step2" /\ journal' = journal
      /\ authority' = Document(write.alines, write.alast, [position |-> write.lines + 1, d |-> write.line.d])
  BY DEF IntendLine, Step
<1>2. authority.lines = write.alines
  BY <1>1 DEF BelievedStep, JournalInv, WriterOK, AuthorityWritten
<1>3. authority'.lines = write.alines
  BY <1>1 DEF Document
<1> QED
  BY <1>1, <1>2, <1>3, CoveredLeftAlone

\* The cut of a torn line changes nothing.
LEMMA CutForce ==
  ASSUME BelievedStep, CutTorn
  PROVE  ByOne(Current, Current')
<1>1. authority' = authority /\ journal' = [journal EXCEPT !.torn = FALSE]
  BY DEF CutTorn
<1>2. journal'.lines = journal.lines
  BY <1>1, StepFacts DEF Journals
<1> QED
  BY <1>1, <1>2, CoveredLeftAlone

\* A torn append changes nothing.
LEMMA TearForce ==
  ASSUME BelievedStep, Tear
  PROVE  ByOne(Current, Current')
<1>1. authority' = authority /\ journal' = [journal EXCEPT !.exists = TRUE, !.torn = TRUE]
  BY DEF Tear
<1>2. journal'.lines = journal.lines
  BY <1>1, StepFacts DEF Journals
<1> QED
  BY <1>1, <1>2, CoveredLeftAlone

\* Step 3 changes nothing: the line is not covered yet.
LEMMA AppendForce ==
  ASSUME BelievedStep, AppendLine
  PROVE  ByOne(Current, Current')
<1>1. pc = "append" /\ authority' = authority
  BY DEF AppendLine, Step
<1>2. LineOK /\ PlanOK
  BY <1>1 DEF BelievedStep, JournalInv, WriterOK
<1>3. Length \in Nat /\ write.lines \in Nat /\ Sound(journal, Length)
  BY <1>2, StepFacts, BelievedForce DEF LineOK, Length
<1>4. ~write.replace
  <2> SUFFICES ASSUME write.replace PROVE FALSE
    OBVIOUS
  <2>1. write.lines < Length /\ ~Follows(journal, write.lines + 1)
    BY <1>2 DEF PlanOK
  <2>2. write.lines + 1 \in 1 .. Length
    BY <1>3, <2>1
  <2> QED
    BY <1>3, <2>1, <2>2 DEF Sound
<1>5. \A l \in 1 .. Length : journal'.lines[l] = journal.lines[l]
  <2>1. JournalInv
    BY DEF BelievedStep
  <2> QED
    BY <1>4, <2>1, AppendFacts
<1>6. \A l \in 1 .. authority.lines : journal'.lines[l] = journal.lines[l]
  BY <1>5, StepFacts DEF Length
<1> QED
  BY <1>1, <1>6, CoveredLeftAlone

\* Step 4 brings the line written into force.
LEMMA AcknowledgeForce ==
  ASSUME BelievedStep, Acknowledge
  PROVE  ByOne(Current, Current')
<1>1. /\ pc = "step4" /\ journal' = journal /\ edits' = edits
      /\ authority' = Document(write.lines + 1, write.line.d, NoIntent)
  BY DEF Acknowledge, Step
<1>2. LineOK /\ AuthorityWritten /\ WrittenOK
  BY <1>1 DEF BelievedStep, JournalInv, WriterOK
<1>3. /\ authority'.kind = "doc" /\ authority'.lines = write.lines + 1 /\ authority'.last = serial
      /\ write.lines \in Nat /\ write.lines < Length /\ Length \in Nat /\ authority.kind = "doc"
  BY <1>1, <1>2, StepFacts DEF Document, LineOK, AuthorityWritten, WrittenOK, Length
<1>4. serial = DigestAt(journal, write.lines + 1)
  <2>1. Matches(journal', authority')
    BY <1>3, StepFacts, BelievedForce
  <2> QED
    BY <1>1, <1>3, <2>1 DEF Matches
<1>5. write.lines + 1 = Length
  <2> SUFFICES ASSUME write.lines + 1 < Length PROVE FALSE
    BY <1>3
  <2>1. write.lines + 1 \in 1 .. Length - 1 /\ write.lines + 1 # 0
        /\ write.lines + 1 \in 1 .. Len(journal.lines)
    BY <1>3 DEF Length
  <2>2. journal.lines[write.lines + 1].d < serial /\ journal.lines[write.lines + 1].d \in Nat
    BY <1>2, <2>1, StepFacts, JournalFields DEF WrittenOK
  <2> QED
    BY <1>4, <2>1, <2>2, StepFacts DEF DigestAt
<1>6. Handled = FALSE /\ TailKnown(journal, authority, Handled)
  BY <1>1 DEF BelievedStep, JournalInv, TellsLines, Handled
<1> QED
  BY <1>1, <1>3, <1>5, <1>6, TailCovered

\* Files restored, garbled or removed that are still believed have the same in force.
LEMMA EditFilesForce ==
  ASSUME BelievedStep, EditFiles
  PROVE  ByOne(Current, Current')
<1>0. /\ Sound(journal', Len(journal'.lines))
      /\ journal'.exists => authority'.kind = "doc"
      /\ ~journal.exists => Len(journal.lines) = 0
  BY StepFacts, BelievedForce
<1>1. CASE \E n \in 0 .. Len(journal.lines) - 1 : Edit(WithLines(SubSeq(journal.lines, 1, n)), authority)
  <2>1. PICK n \in 0 .. Len(journal.lines) - 1 : Edit(WithLines(SubSeq(journal.lines, 1, n)), authority)
    BY <1>1
  <2>2. /\ SubSeq(journal.lines, 1, n) \in Seq(Lines) /\ Len(SubSeq(journal.lines, 1, n)) = n
        /\ \A l \in 1 .. n : SubSeq(journal.lines, 1, n)[l] = journal.lines[l]
    BY StepFacts, JournalFields
  <2>3. authority' = authority /\ journal' = WithLines(SubSeq(journal.lines, 1, n))
    BY <2>1 DEF Edit
  <2>4. journal'.lines = SubSeq(journal.lines, 1, n)
    BY <2>2, <2>3, StepFacts, SameFields DEF WithLines
  <2>5. authority.lines \in 0 .. n
    BY <2>2, <2>3, <2>4, StepFacts
  <2>6. \A l \in 1 .. authority.lines : journal'.lines[l] = journal.lines[l]
    BY <2>2, <2>4, <2>5
  <2> QED
    BY <2>3, <2>6, CoveredLeftAlone
<1>2. CASE \E i \in DOMAIN journal.lines : Edit(WithLines([journal.lines EXCEPT ![i] = GarbledLine]), authority)
  <2>1. PICK i \in DOMAIN journal.lines : Edit(WithLines([journal.lines EXCEPT ![i] = GarbledLine]), authority)
    BY <1>2
  <2> DEFINE s == [journal.lines EXCEPT ![i] = GarbledLine]
  <2>2. GarbledLine \in Lines /\ GarbledLine.what = "garbage"
    BY DEF GarbledLine, NoLine, Lines
  <2>3. journal.lines \in Seq(Lines) /\ i \in 1 .. Len(journal.lines)
    BY StepFacts, JournalFields
  <2>4. s \in Seq(Lines) /\ Len(s) = Len(journal.lines) /\ s[i] = GarbledLine
    BY <2>2, <2>3
  <2>5. journal' = WithLines(s)
    BY <2>1 DEF Edit
  <2> HIDE DEF s
  <2>6. journal'.lines = s
    BY <2>4, <2>5, StepFacts, SameFields DEF WithLines
  <2>7. ~Follows(journal', i)
    BY <2>2, <2>4, <2>6 DEF Follows
  <2> QED
    BY <1>0, <2>4, <2>6, <2>7, <2>3 DEF Sound
<1>3. CASE Edit(NoJournal, authority)
  <2>1. authority' = authority /\ Len(journal'.lines) = 0
    BY <1>3 DEF Edit, NoJournal
  <2>2. authority.lines = 0
    BY <2>1, StepFacts
  <2> QED
    BY <2>1, <2>2, CoveredLeftAlone
<1>4. CASE \E b : Edit(journal, b) /\ b.kind # "doc" /\ b.lines = 0
  <2>1. PICK b : Edit(journal, b) /\ b.kind # "doc" /\ b.lines = 0
    BY <1>4
  <2>2. journal' = journal /\ authority' = b
    BY <2>1 DEF Edit
  <2>3. authority.lines = 0
    BY <1>0, <2>1, <2>2, StepFacts
  <2> QED
    BY <2>1, <2>2, <2>3, CoveredLeftAlone
<1>5. /\ NoAuthority.kind # "doc" /\ NoAuthority.lines = 0
      /\ [NoAuthority EXCEPT !.kind = "garbled"].kind # "doc"
      /\ [NoAuthority EXCEPT !.kind = "garbled"].lines = 0
  BY DEF NoAuthority
<1> QED
  BY <1>1, <1>2, <1>3, <1>4, <1>5 DEF EditFiles

\* Files with a line changed or added that are still believed have the same in force.
LEMMA EditLineForce ==
  ASSUME BelievedStep, EditLine
  PROVE  ByOne(Current, Current')
<1>0. /\ Sound(journal', Len(journal'.lines))
      /\ journal.exists => authority.kind = "doc"
      /\ ~journal.exists => Len(journal.lines) = 0
      /\ authority'.kind = "doc" => Matches(journal', authority')
      /\ journal.lines \in Seq(Lines) /\ authority.last \in Nat /\ authority.last <= serial
  BY StepFacts, BelievedForce, JournalFields, AuthorityFields DEF AuthorityOK
<1>1. ASSUME NEW i \in DOMAIN journal.lines, NEW s \in Specs,
             Edit(WithLines([journal.lines EXCEPT ![i].d = serial + 1, ![i].spec = s]), authority)
      PROVE  ByOne(Current, Current')
  <2> DEFINE n == Len(journal.lines)
             e == [journal.lines[i] EXCEPT !.d = serial + 1, !.spec = s]
             t == [journal.lines EXCEPT ![i] = e]
  <2>1. i \in 1 .. n /\ n \in Nat /\ journal.lines[i] \in Lines
    BY <1>0, StepFacts, JournalFields
  <2>2. e = [d |-> serial + 1, prev |-> journal.lines[i].prev, what |-> journal.lines[i].what,
             spec |-> s, voids |-> journal.lines[i].voids]
    BY <2>1, LineEdited
  <2>3. e \in Lines /\ e.d = serial + 1
    BY <1>1, <2>1, <2>2, StepFacts DEF Lines
  <2>4. [journal.lines EXCEPT ![i].d = serial + 1, ![i].spec = s] = t
    BY <1>0, <2>1
  <2> HIDE DEF e
  <2>5. t \in Seq(Lines) /\ Len(t) = n /\ t[i] = e /\ \A l \in 1 .. n : l # i => t[l] = journal.lines[l]
    BY <1>0, <2>1, <2>3
  <2>6. journal' = WithLines(t) /\ authority' = authority
    BY <1>1, <2>4 DEF Edit
  <2> HIDE DEF t
  <2>7. journal'.lines = t /\ Len(journal'.lines) = n
    BY <2>5, <2>6, StepFacts, SameFields DEF WithLines
  <2>8. DigestAt(journal', i) = serial + 1 /\ i # 0
    BY <2>1, <2>3, <2>5, <2>7 DEF DigestAt
  <2>9. i = n
    <3> SUFFICES ASSUME i < n PROVE FALSE
      BY <2>1
    <3>1. i + 1 \in 1 .. n /\ i + 1 # i /\ (i + 1) - 1 = i
      BY <2>1
    <3>2. Follows(journal', i + 1)
      BY <1>0, <2>7, <3>1 DEF Sound
    <3>3. journal.lines[i + 1].prev = serial + 1
      BY <2>5, <2>7, <2>8, <3>1, <3>2 DEF Follows
    <3>4. journal.lines[i + 1].prev <= serial
      BY <3>1, StepFacts DEF JournalOK
    <3> QED
      BY <3>3, <3>4, StepFacts
  <2>10. authority.lines # n
    <3> SUFFICES ASSUME authority.lines = n PROVE FALSE
      OBVIOUS
    <3>1. authority'.kind = "doc"
      BY <1>0, <2>1, <2>6
    <3>2. authority.last = serial + 1
      BY <1>0, <2>6, <2>8, <2>9, <3>1 DEF Matches
    <3> QED
      BY <1>0, <3>2, StepFacts
  <2>11. \A l \in 1 .. authority.lines : l \in 1 .. n /\ l # i
    BY <2>1, <2>9, <2>10, StepFacts
  <2>12. \A l \in 1 .. authority.lines : journal'.lines[l] = journal.lines[l]
    BY <2>5, <2>7, <2>11
  <2> QED
    BY <2>6, <2>12, CoveredLeftAlone
<1>2. ASSUME NEW s \in Specs,
             Edit(WithLines(Append(journal.lines,
                    LineOf("grant", s, DigestAt(journal, Len(journal.lines)), 0))), authority)
      PROVE  ByOne(Current, Current')
  <2> DEFINE e == LineOf("grant", s, DigestAt(journal, Len(journal.lines)), 0)
             t == Append(journal.lines, e)
  <2>1. DigestAt(journal, Len(journal.lines)) \in Nat
    <3>1. Len(journal.lines) \in 0 .. Len(journal.lines)
      BY StepFacts
    <3> QED
      BY <3>1, StepFacts, JournalFields
  <2>2. e \in Lines
    BY <1>2, <2>1, StepFacts DEF LineOf, Lines
  <2>3. journal' = WithLines(t) /\ authority' = authority
    BY <1>2 DEF Edit
  <2> HIDE DEF e
  <2>4. t \in Seq(Lines) /\ \A l \in 1 .. Len(journal.lines) : t[l] = journal.lines[l]
    BY <1>0, <2>2
  <2> HIDE DEF t
  <2>5. journal'.lines = t
    BY <2>3, <2>4, StepFacts, SameFields DEF WithLines
  <2>6. \A l \in 1 .. authority.lines : journal'.lines[l] = journal.lines[l]
    BY <2>4, <2>5, StepFacts
  <2> QED
    BY <2>3, <2>6, CoveredLeftAlone
<1> QED
  BY <1>1, <1>2 DEF EditLine

\* In every step between two believed states one spec, at most, enters or leaves.
LEMMA ForceStep ==
  ASSUME BelievedStep, [OJNext]_ojvars
  PROVE  ByOne(Current, Current')
<1>1. ASSUME journal' = journal, authority' = authority PROVE ByOne(Current, Current')
  BY <1>1, CoveredLeftAlone
<1>2. ASSUME NEW what \in {"grant", "revoke"}, NEW s \in Specs, Change(what, s)
      PROVE  ByOne(Current, Current')
  <2>1. journal' = journal /\ authority' = authority
    BY <1>2 DEF Change, Begin, files
  <2> QED
    BY <1>1, <2>1
<1>3. CASE Recover
  <2>1. journal' = journal /\ authority' = authority
    BY <1>3 DEF Recover, RecoverTo, DiscardPending, Begin, files
  <2> QED
    BY <1>1, <2>1
<1>4. CASE Stops
  BY <1>1, <1>4 DEF Stops, files
<1>5. CASE UNCHANGED ojvars
  BY <1>1, <1>5 DEF ojvars, files
<1>6. CASE BaselineAuthority
  BY <1>6, BaselineForce
<1>7. CASE IntendLine
  BY <1>7, IntendForce
<1>8. CASE CutTorn
  BY <1>8, CutForce
<1>9. CASE AppendLine
  BY <1>9, AppendForce
<1>10. CASE Acknowledge
  BY <1>10, AcknowledgeForce
<1>11. CASE Tear
  BY <1>11, TearForce
<1>12. CASE EditFiles
  BY <1>12, EditFilesForce
<1>13. CASE EditLine
  BY <1>13, EditLineForce
<1> QED
  BY <1>2, <1>3, <1>4, <1>5, <1>6, <1>7, <1>8, <1>9, <1>10, <1>11, <1>12, <1>13 DEF OJNext

\* The journal's state as the set of specs sees it.
promised == <<believed, IF believed THEN Current ELSE {}>>

\* Files that do not exist yet are the empty set.
LEMMA PromiseInit == OJInit => Promise!Init
<1> SUFFICES ASSUME OJInit PROVE Promise!Init
  OBVIOUS
<1>1. journal = NoJournal /\ authority = NoAuthority
  BY DEF OJInit
<1>2. State = "empty"
  BY <1>1 DEF State, Classify, WithoutAuthority, NoJournal, NoAuthority
<1>3. FilesOK
  BY JournalInvInit DEF JournalInv
<1>4. Current = {}
  <2>1. JournalOK(journal, serial) /\ AuthorityOK(authority, serial)
        /\ Classify(journal, authority) \in Believed
    BY <1>2, <1>3 DEF FilesOK, State, Believed
  <2>2. Current = ForceAmong(journal, authority.lines) /\ authority.lines = 0
    BY <1>1, <2>1, BelievedForce DEF Current, NoAuthority
  <2> QED
    BY <2>2 DEF ForceAmong
<1>5. believed = TRUE
  BY <1>2 DEF believed, Readable
<1> QED
  BY <1>4, <1>5 DEF Promise!Init

\* Every step of files edited once at most is a step of the promise, or none.
LEMMA PromiseStep ==
  ASSUME JournalInv, JournalInv', edits' <= 1, [OJNext]_ojvars
  PROVE  [Promise!Next]_promised
<1>1. (believed <=> State \in Believed) /\ (believed' <=> State' \in Believed)
  BY DEF believed, Readable, Believed
<1>2. believed \in BOOLEAN /\ believed' \in BOOLEAN
  BY DEF believed, Readable
<1>3. edits' \in Nat
  BY DEF JournalInv, FilesOK
<1>4. ASSUME State' \in Believed PROVE Current' \subseteq Specs
  <2>1. JournalOK(journal', serial') /\ AuthorityOK(authority', serial')
        /\ Classify(journal', authority') \in Believed
    BY <1>4 DEF JournalInv, FilesOK, State
  <2>2. Current' = ForceAmong(journal', authority'.lines)
        /\ authority'.lines \in 0 .. Len(journal'.lines)
    BY <2>1, BelievedForce DEF Current
  <2> QED
    BY <2>1, <2>2, ForceOfSpecs
<1>5. CASE believed /\ believed'
  <2>1. BelievedStep
    BY <1>1, <1>3, <1>5 DEF BelievedStep
  <2>2. ByOne(Current, Current')
    BY <2>1, ForceStep
  <2>3. ASSUME Current' = Current PROVE UNCHANGED promised
    BY <1>2, <1>5, <2>3 DEF promised
  <2>4. ASSUME NEW x \in Specs, Current' = Current \cup {x}, Current' # Current PROVE Promise!Next
    <3>1. Promise!Grant(x)
      BY <1>2, <1>5, <2>4 DEF Promise!Grant
    <3> QED
      BY <3>1 DEF Promise!Next
  <2>5. ASSUME NEW x \in Specs, Current' = Current \ {x}, Current' # Current PROVE Promise!Next
    <3>1. Promise!Revoke(x)
      BY <1>2, <1>5, <2>5 DEF Promise!Revoke
    <3> QED
      BY <3>1 DEF Promise!Next
  <2> QED
    BY <2>2, <2>3, <2>4, <2>5 DEF ByOne
<1>6. CASE believed /\ ~believed'
  BY <1>2, <1>6 DEF Promise!Next, Promise!Doubt
<1>7. CASE ~believed /\ believed'
  BY <1>1, <1>2, <1>4, <1>7 DEF Promise!Next, Promise!Believe
<1>8. CASE ~believed /\ ~believed'
  BY <1>2, <1>8 DEF promised
<1> QED
  BY <1>5, <1>6, <1>7, <1>8

\* The journal keeps its promise, whatever stops its writes, in every
\* behaviour in which its files were edited once at most: with more edits, a
\* line put in by hand can be made to pass for the product's.
THEOREM OverrideSetImplemented == OJSpec /\ [](edits <= 1) => ImplementsOverrideSet
<1>1. OJSpec => []JournalInv
  BY JournalInvInit, JournalInvStep, PTL DEF OJSpec
<1>2. JournalInv /\ JournalInv' /\ (edits <= 1)' /\ [OJNext]_ojvars => [Promise!Next]_promised
  BY PromiseStep
<1> QED
  BY <1>1, <1>2, PromiseInit, PTL DEF OJSpec, ImplementsOverrideSet, Promise!Spec, promised

------------------------------------------------------------------------------
(* The observation chain: what its fold and a writer's list may hold.      *)

PLStates == {"none", "open", "stale", "superseded", "acknowledged", "dismissed", "admitting", "admitted"}

PLLedgers ==
  [last : Inputs \cup {NoObservation}, lastRef : Refs \cup {NoRef}, calls : Seq(Proposals),
   base : [Corpus -> Rows], written : SUBSET Proposals, state : [Proposals -> PLStates],
   ref : [Proposals -> Refs \cup {NoRef}]]

\* Entries about one proposal, and observations.
Dispositions ==
  {"proposed", "recurred", "superseded", "released", "stale", "dismissed", "acknowledged", "admitting", "admitted"}

About == [entry : Dispositions, proposal : Proposals, ref : Refs \cup {NoRef}]
Observations == [entry : {"observed"}, input : Inputs, ref : Refs, calls : Seq(Proposals)]

\* A proposal says what the input says; a notice says nothing of a contract.
Fitting(p, input) == p.kind = "run" => ~Differs(p, input)

KnownTo(l) == {p \in Proposals : l.state[p] # "none"}

\* A fold that the run record, n, does not contradict.
LedgerOK(l, n) ==
  /\ l \in PLLedgers /\ IsFiniteSet(KnownTo(l))
  /\ l.last # NoObservation => l.lastRef \in Refs
  /\ \A i \in DOMAIN l.calls : l.last # NoObservation /\ Fitting(l.calls[i], l.last)
  /\ \A p \in Proposals : l.state[p] # "none" => l.ref[p] \in Refs
  /\ \A p \in Proposals : n[p] > 0 => l.state[p] \in {"admitting", "admitted"}

\* An entry that may follow a fold.
Rightful(l, e, n) ==
  \/ e \in Observations /\ \A i \in DOMAIN e.calls : Fitting(e.calls[i], e.input)
  \/ /\ e \in About
     /\ e.entry = "proposed" <=> l.state[e.proposal] = "none"
     /\ e.entry \in {"proposed", "recurred"} => e.ref \in Refs
     /\ e.entry \in {"superseded", "dismissed", "acknowledged", "admitting"} => l.state[e.proposal] = "open"
     /\ e.entry = "stale" => l.state[e.proposal] \in {"open", "superseded"}
     /\ e.entry = "released" => n[e.proposal] = 0
     /\ e.entry = "admitted" => n[e.proposal] > 0

\* The entries of a list follow a fold one by one, and lead to another.
Leads(l, s, m, n) ==
  \E f \in [0 .. Len(s) -> PLLedgers] :
    /\ f[0] = l /\ f[Len(s)] = m
    /\ \A k \in 1 .. Len(s) : Rightful(f[k - 1], s[k], n) /\ f[k] = Apply(f[k - 1], s[k])

\* Of one spec at most one run is open or being admitted.
Live(l, p) == p.kind = "run" /\ l.state[p] \in {"open", "admitting"}
OneLive(l) == \A p, q \in Proposals : Live(l, p) /\ Live(l, q) /\ p.spec = q.spec => p = q

------------------------------------------------------------------------------
(* What a writer knows.                                                    *)

\* What a list still calls for.
Called(s) == {s[i].proposal : i \in {j \in DOMAIN s : s[j].entry \in {"proposed", "recurred"}}}

\* A planned entry opens what fits the input, and supersedes what does not.
ForInput(e, input) ==
  /\ e \in About
  /\ \/ e.entry \in {"proposed", "recurred"} /\ Fitting(e.proposal, input)
     \/ e.entry = "superseded" /\ ~Fitting(e.proposal, input)

AllForInput(s, input) == \A i \in DOMAIN s : ForInput(s[i], input)

\* The observation is in the chain, or the next entry.
Observing(l, x) ==
  /\ x.read \in Inputs
  /\ \/ /\ l.last = x.read /\ AllForInput(x.todo, x.read)
        /\ Range(l.calls) \subseteq l.written \cup Called(x.todo)
     \/ /\ x.todo # <<>> /\ Head(x.todo) \in Observations /\ Head(x.todo).input = x.read
        /\ AllForInput(Tail(x.todo), x.read) /\ Range(Head(x.todo).calls) \subseteq Called(Tail(x.todo))

Writers ==
  [verb : {"none", "observe", "close", "admit"},
   at : {"free", "recovering", "observed", "closed", "admitting", "entered", "disposed"},
   todo : Seq(About \cup Observations), target : Refs \cup {NoRef} \cup Proposals,
   read : Inputs \cup {NoObservation}]

Standing(x) ==
  \/ x = Free
  \/ x.verb = "observe" /\ x.at \in {"recovering", "observed"} /\ x.target \in Refs
  \/ x.verb = "close" /\ x.at \in {"recovering", "closed"} /\ x.target \in Proposals
  \/ /\ x.verb = "admit" /\ x.at \in {"recovering", "observed", "admitting", "entered", "disposed"}
     /\ x.target \in Proposals

\* Only an observation plans; the other entries are about one proposal and open none anew.
Settling(s) == \A i \in DOMAIN s : s[i] \in About /\ s[i].entry \notin {"proposed", "recurred", "superseded"}

\* An admission knows its proposal to be open, unless its own observation superseded it,
Admits(l, x) ==
  /\ x.target.kind = "run"
  /\ \/ l.state[x.target] = "open"
     \/ l.state[x.target] = "superseded" /\ Differs(x.target, x.read)

\* and then to be held, for what the proposal was made of.
Holds(l, x) ==
  /\ x.target.kind = "run" /\ ~Differs(x.target, x.read)
  /\ \/ x.todo = <<>> /\ l.state[x.target] = "admitting"
     \/ x.at = "admitting" /\ x.todo = <<Entry("admitting", x.target, NoRef)>> /\ l.state[x.target] = "open"

\* Once the list is in the chain, one run of a spec is live, and none is held but the writer's own.
EndsWell(m, x) ==
  /\ OneLive(m)
  /\ \A p \in Proposals : m.state[p] = "admitting" => x.at \in {"admitting", "entered"} /\ p = x.target

WriterFits(l, x, n, d, c) ==
  /\ x \in Writers /\ Standing(x)
  /\ x.at # "observed" => Settling(x.todo) /\ (~c => Range(l.calls) \subseteq l.written)
  /\ x.at = "observed" => Observing(l, x)
  /\ x.at = "observed" /\ x.verb = "admit" => Admits(l, x)
  /\ x.at \in {"admitting", "entered"} => Holds(l, x)
  /\ x.at = "admitting" => n[x.target] = 0
  /\ \E m \in PLLedgers : Leads(l, x.todo, m, n) /\ (d = 0 => EndsWell(m, x))

\* The inductive invariant of observation and proposals.
ProposalInv ==
  /\ world \in [Refs -> Inputs] /\ intents \in [Proposals -> 0 .. 1]
  /\ deaths \in Nat /\ interrupted \in BOOLEAN
  /\ LedgerOK(ledger, intents)
  /\ WriterFits(ledger, writer, intents, deaths, interrupted)

------------------------------------------------------------------------------
(* Lemmas about one entry.                                                 *)

\* A run proposal is its spec and its contract.
LEMMA RunIs ==
  ASSUME NEW p \in Proposals, p.kind = "run"
  PROVE  p = Run(p.spec, p.after) /\ p.spec \in Corpus /\ p.after \in Contracts
BY DEF Proposals, Run

\* What a fold is made of.
LEMMA LedgerFields ==
  ASSUME NEW l \in PLLedgers
  PROVE  /\ l.last \in Inputs \cup {NoObservation} /\ l.lastRef \in Refs \cup {NoRef}
         /\ l.calls \in Seq(Proposals) /\ l.base \in [Corpus -> Rows]
         /\ l.written \subseteq Proposals /\ l.state \in [Proposals -> PLStates]
         /\ l.ref \in [Proposals -> Refs \cup {NoRef}]
         /\ l = [last |-> l.last, lastRef |-> l.lastRef, calls |-> l.calls, base |-> l.base,
                 written |-> l.written, state |-> l.state, ref |-> l.ref]
BY DEF PLLedgers

\* A fold with new states, written out.
LEMMA StateRecord ==
  ASSUME NEW l \in PLLedgers, NEW x
  PROVE  [l EXCEPT !.state = x]
         = [last |-> l.last, lastRef |-> l.lastRef, calls |-> l.calls, base |-> l.base,
            written |-> l.written, state |-> x, ref |-> l.ref]
<1>1. l = [last |-> l.last, lastRef |-> l.lastRef, calls |-> l.calls, base |-> l.base,
           written |-> l.written, state |-> l.state, ref |-> l.ref]
  BY LedgerFields
<1> QED
  BY <1>1

\* An input names the rows of every spec, and is never the absence of one.
LEMMA InputFields ==
  ASSUME NEW i \in Inputs
  PROVE  /\ i # NoObservation /\ i.rows \in [Corpus -> Rows]
         /\ i.corpus \in Refusals \cup {"answered"}
<1>1. DOMAIN NoObservation = {"corpus"}
  BY DEF NoObservation
<1>2. "doc" \in DOMAIN i
  BY DEF Inputs
<1>3. i # NoObservation
  BY <1>1, <1>2
<1>4. "absent" \in Rows
  BY DEF Rows
<1> QED
  BY <1>3, <1>4 DEF Inputs

\* What an observation leaves of the fold.
LEMMA ApplyObserved ==
  ASSUME NEW l \in PLLedgers, NEW e \in Observations
  PROVE  /\ Apply(l, e) \in PLLedgers
         /\ Apply(l, e).last = e.input /\ Apply(l, e).lastRef = e.ref /\ Apply(l, e).calls = e.calls
         /\ Apply(l, e).written = {} /\ Apply(l, e).state = l.state /\ Apply(l, e).ref = l.ref
<1> DEFINE b == IF Answered(e.input) THEN e.input.rows ELSE l.base
           m == [last |-> e.input, lastRef |-> e.ref, calls |-> e.calls, base |-> b,
                 written |-> {}, state |-> l.state, ref |-> l.ref]
<1>1. e.entry = "observed" /\ e.input \in Inputs /\ e.ref \in Refs /\ e.calls \in Seq(Proposals)
  BY DEF Observations
<1>2. b \in [Corpus -> Rows]
  BY <1>1, LedgerFields, InputFields
<1>3. Apply(l, e) = [l EXCEPT !.last = e.input, !.lastRef = e.ref, !.calls = e.calls, !.written = {}, !.base = b]
  BY <1>1 DEF Apply
<1> HIDE DEF b
<1> DEFINE l1 == [l EXCEPT !.last = e.input]
           l2 == [l1 EXCEPT !.lastRef = e.ref]
           l3 == [l2 EXCEPT !.calls = e.calls]
           l4 == [l3 EXCEPT !.written = {}]
           l5 == [l4 EXCEPT !.base = b]
<1>4. l5 = m
  <2>1. l = [last |-> l.last, lastRef |-> l.lastRef, calls |-> l.calls, base |-> l.base,
             written |-> l.written, state |-> l.state, ref |-> l.ref]
    BY LedgerFields
  <2>2. l1 = [last |-> e.input, lastRef |-> l.lastRef, calls |-> l.calls, base |-> l.base,
              written |-> l.written, state |-> l.state, ref |-> l.ref]
    BY <2>1
  <2> HIDE DEF l1
  <2>3. l2 = [last |-> e.input, lastRef |-> e.ref, calls |-> l.calls, base |-> l.base,
              written |-> l.written, state |-> l.state, ref |-> l.ref]
    BY <2>2
  <2> HIDE DEF l2
  <2>4. l3 = [last |-> e.input, lastRef |-> e.ref, calls |-> e.calls, base |-> l.base,
              written |-> l.written, state |-> l.state, ref |-> l.ref]
    BY <2>3
  <2> HIDE DEF l3
  <2>5. l4 = [last |-> e.input, lastRef |-> e.ref, calls |-> e.calls, base |-> l.base,
              written |-> {}, state |-> l.state, ref |-> l.ref]
    BY <2>4
  <2> HIDE DEF l4
  <2> QED
    BY <2>5
<1>6. Apply(l, e) = l5
  BY <1>3
<1> HIDE DEF l5
<1>5. m \in PLLedgers
  BY <1>1, <1>2, LedgerFields DEF PLLedgers
<1> QED
  BY <1>4, <1>5, <1>6

\* The state an entry leaves its proposal in.
NewState(l, e) ==
  CASE e.entry \in {"proposed", "released"} -> "open"
    [] e.entry = "recurred" -> IF Reopens(l.state[e.proposal]) THEN "open" ELSE l.state[e.proposal]
    [] OTHER -> e.entry

\* What an entry about a proposal leaves of the fold.
LEMMA ApplyAbout ==
  ASSUME NEW l \in PLLedgers, NEW e \in About
  PROVE  /\ Apply(l, e) \in PLLedgers
         /\ Apply(l, e).last = l.last /\ Apply(l, e).lastRef = l.lastRef /\ Apply(l, e).calls = l.calls
         /\ Apply(l, e).base = l.base
         /\ Apply(l, e).state = [l.state EXCEPT ![e.proposal] = NewState(l, e)]
         /\ Apply(l, e).written =
              IF e.entry \in {"proposed", "recurred"} THEN l.written \cup {e.proposal} ELSE l.written
         /\ Apply(l, e).ref =
              IF e.entry \in {"proposed", "recurred"} THEN [l.ref EXCEPT ![e.proposal] = e.ref] ELSE l.ref
<1> DEFINE wr == IF e.entry \in {"proposed", "recurred"} THEN l.written \cup {e.proposal} ELSE l.written
           rf == IF e.entry \in {"proposed", "recurred"} THEN [l.ref EXCEPT ![e.proposal] = e.ref] ELSE l.ref
           st == [l.state EXCEPT ![e.proposal] = NewState(l, e)]
           m == [last |-> l.last, lastRef |-> l.lastRef, calls |-> l.calls, base |-> l.base,
                 written |-> wr, state |-> st, ref |-> rf]
<1>1. e.entry \in Dispositions /\ e.proposal \in Proposals /\ e.ref \in Refs \cup {NoRef}
  BY DEF About
<1>2. l.state[e.proposal] \in PLStates
  BY <1>1, LedgerFields
<1>3. NewState(l, e) \in PLStates
  BY <1>1, <1>2 DEF NewState, Dispositions, PLStates
<1>4. st \in [Proposals -> PLStates] /\ rf \in [Proposals -> Refs \cup {NoRef}] /\ wr \subseteq Proposals
  BY <1>1, <1>3, LedgerFields
<1>5. Apply(l, e) = m
  <2> DEFINE p == e.proposal
  <2>0. l = [last |-> l.last, lastRef |-> l.lastRef, calls |-> l.calls, base |-> l.base,
             written |-> l.written, state |-> l.state, ref |-> l.ref]
    BY LedgerFields
  <2>1. CASE e.entry \in {"proposed", "recurred"}
    <3> DEFINE l1 == [l EXCEPT !.state[p] = NewState(l, e)]
               l2 == [l1 EXCEPT !.ref[p] = e.ref]
               l3 == [l2 EXCEPT !.written = l.written \cup {p}]
    <3>1. Apply(l, e) = [l EXCEPT !.state[p] = NewState(l, e), !.ref[p] = e.ref, !.written = @ \cup {p}]
      BY <2>1 DEF Apply, NewState
    <3>2. Apply(l, e) = l3
      BY <3>1
    <3>3. l1 = [last |-> l.last, lastRef |-> l.lastRef, calls |-> l.calls, base |-> l.base,
                written |-> l.written, state |-> st, ref |-> l.ref]
      BY <2>0
    <3> HIDE DEF l1
    <3>4. l2 = [last |-> l.last, lastRef |-> l.lastRef, calls |-> l.calls, base |-> l.base,
                written |-> l.written, state |-> st, ref |-> [l.ref EXCEPT ![p] = e.ref]]
      BY <3>3
    <3> HIDE DEF l2
    <3>5. l3 = [last |-> l.last, lastRef |-> l.lastRef, calls |-> l.calls, base |-> l.base,
                written |-> l.written \cup {p}, state |-> st, ref |-> [l.ref EXCEPT ![p] = e.ref]]
      BY <3>4
    <3> HIDE DEF l3
    <3> QED
      BY <2>1, <3>2, <3>5
  <2>2. CASE e.entry \in Dispositions \ {"proposed", "recurred"}
    <3>1. Apply(l, e) = [l EXCEPT !.state[p] = NewState(l, e)]
      BY <2>2 DEF Apply, NewState, Dispositions
    <3>2. Apply(l, e) = [last |-> l.last, lastRef |-> l.lastRef, calls |-> l.calls, base |-> l.base,
                         written |-> l.written, state |-> st, ref |-> l.ref]
      BY <2>0, <3>1
    <3> QED
      BY <2>2, <3>2
  <2> QED
    BY <1>1, <2>1, <2>2 DEF Dispositions
<1> HIDE DEF wr, rf, st
<1>6. m \in PLLedgers
  BY <1>4, LedgerFields DEF PLLedgers
<1>7. /\ m.last = l.last /\ m.lastRef = l.lastRef /\ m.calls = l.calls /\ m.base = l.base
      /\ m.state = st /\ m.written = wr /\ m.ref = rf
  OBVIOUS
<1> QED
  BY <1>5, <1>6, <1>7 DEF wr, rf, st

\* A rightful entry leaves a fold that the run record does not contradict.
LEMMA ApplyKeeps ==
  ASSUME NEW l, NEW n, NEW e, LedgerOK(l, n), Rightful(l, e, n)
  PROVE  LedgerOK(Apply(l, e), n)
<1> DEFINE m == Apply(l, e)
<1>0. l \in PLLedgers
  BY DEF LedgerOK
<1>1. CASE e \in Observations /\ \A i \in DOMAIN e.calls : Fitting(e.calls[i], e.input)
  <2>1. /\ m \in PLLedgers /\ m.last = e.input /\ m.lastRef = e.ref /\ m.calls = e.calls
        /\ m.state = l.state /\ m.ref = l.ref
    BY <1>0, <1>1, ApplyObserved
  <2>2. e.input \in Inputs /\ e.ref \in Refs
    BY <1>1 DEF Observations
  <2>3. m.last # NoObservation
    BY <2>1, <2>2, InputFields
  <2> HIDE DEF m
  <2>4. KnownTo(m) = KnownTo(l)
    BY <2>1 DEF KnownTo
  <2>5. LedgerOK(m, n)
    BY <1>1, <2>1, <2>2, <2>3, <2>4 DEF LedgerOK
  <2> QED
    BY <2>5 DEF m
<1>2. CASE /\ e \in About
           /\ e.entry = "proposed" <=> l.state[e.proposal] = "none"
           /\ e.entry \in {"proposed", "recurred"} => e.ref \in Refs
           /\ e.entry \in {"superseded", "dismissed", "acknowledged", "admitting"} => l.state[e.proposal] = "open"
           /\ e.entry = "stale" => l.state[e.proposal] \in {"open", "superseded"}
           /\ e.entry = "released" => n[e.proposal] = 0
           /\ e.entry = "admitted" => n[e.proposal] > 0
  <2> DEFINE p == e.proposal
  <2>1. /\ m \in PLLedgers /\ m.last = l.last /\ m.lastRef = l.lastRef /\ m.calls = l.calls
        /\ m.state = [l.state EXCEPT ![p] = NewState(l, e)]
        /\ m.ref = IF e.entry \in {"proposed", "recurred"} THEN [l.ref EXCEPT ![p] = e.ref] ELSE l.ref
    BY <1>0, <1>2, ApplyAbout
  <2>2. p \in Proposals /\ e.entry \in Dispositions
    BY <1>2 DEF About
  <2>3. l.state \in [Proposals -> PLStates] /\ l.ref \in [Proposals -> Refs \cup {NoRef}]
    BY <1>0, LedgerFields
  <2>4. /\ m.state[p] = NewState(l, e) /\ m.ref[p] = IF e.entry \in {"proposed", "recurred"} THEN e.ref ELSE l.ref[p]
        /\ \A q \in Proposals : q # p => m.state[q] = l.state[q] /\ m.ref[q] = l.ref[q]
    BY <2>1, <2>2, <2>3
  <2> HIDE DEF m
  <2>5. IsFiniteSet(KnownTo(m))
    <3>1. KnownTo(m) \subseteq KnownTo(l) \cup {p}
      BY <2>4 DEF KnownTo
    <3>2. IsFiniteSet(KnownTo(l) \cup {p})
      BY FS_AddElement DEF LedgerOK
    <3> QED
      BY <3>1, <3>2, FS_Subset
  <2>6. m.ref[p] \in Refs
    BY <1>2, <2>2, <2>4 DEF LedgerOK
  <2>7. n[p] > 0 => m.state[p] \in {"admitting", "admitted"}
    <3> SUFFICES ASSUME n[p] > 0 PROVE m.state[p] \in {"admitting", "admitted"}
      OBVIOUS
    <3>1. l.state[p] \in {"admitting", "admitted"}
      BY <2>2 DEF LedgerOK
    <3>2. e.entry \in {"recurred", "admitted"}
      BY <1>2, <2>2, <3>1 DEF Dispositions
    <3> QED
      BY <2>4, <3>1, <3>2 DEF NewState, Reopens
  <2>8. \A q \in Proposals : m.state[q] # "none" => m.ref[q] \in Refs
    BY <2>4, <2>6 DEF LedgerOK
  <2>9. \A q \in Proposals : n[q] > 0 => m.state[q] \in {"admitting", "admitted"}
    BY <2>4, <2>7 DEF LedgerOK
  <2>10. m.last # NoObservation => m.lastRef \in Refs
    BY <2>1 DEF LedgerOK
  <2>11. \A i \in DOMAIN m.calls : m.last # NoObservation /\ Fitting(m.calls[i], m.last)
    BY <2>1 DEF LedgerOK
  <2>12. LedgerOK(m, n)
    BY <2>1, <2>5, <2>8, <2>9, <2>10, <2>11 DEF LedgerOK
  <2> QED
    BY <2>12 DEF m
<1> QED
  BY <1>1, <1>2 DEF Rightful

------------------------------------------------------------------------------
(* Lemmas about lists of entries.                                          *)

\* No entry leads nowhere else.
LEMMA LeadsNowhere ==
  ASSUME NEW l \in PLLedgers, NEW n
  PROVE  /\ Leads(l, << >>, l, n)
         /\ \A m : Leads(l, << >>, m, n) => m = l
<1>1. Leads(l, << >>, l, n)
  <2> DEFINE f == [k \in 0 .. 0 |-> l]
  <2>1. f \in [0 .. Len(<< >>) -> PLLedgers] /\ f[0] = l /\ f[Len(<< >>)] = l
    OBVIOUS
  <2>2. \A k \in 1 .. Len(<< >>) : Rightful(f[k - 1], << >>[k], n) /\ f[k] = Apply(f[k - 1], << >>[k])
    OBVIOUS
  <2> QED
    BY <2>1, <2>2 DEF Leads
<1>2. ASSUME NEW m, Leads(l, << >>, m, n) PROVE m = l
  BY <1>2 DEF Leads
<1> QED
  BY <1>1, <1>2

\* One rightful entry leads to what it leaves.
LEMMA LeadsOne ==
  ASSUME NEW l \in PLLedgers, NEW n, NEW e, Rightful(l, e, n), Apply(l, e) \in PLLedgers
  PROVE  Leads(l, <<e>>, Apply(l, e), n)
<1> DEFINE m == Apply(l, e)
           f == [k \in 0 .. 1 |-> IF k = 0 THEN l ELSE m]
<1>1. Len(<<e>>) = 1 /\ <<e>>[1] = e
  OBVIOUS
<1> HIDE DEF m
<1>2. f \in [0 .. 1 -> PLLedgers] /\ f[0] = l /\ f[1] = m
  BY DEF m
<1> HIDE DEF f
<1>3. \A k \in 1 .. 1 : Rightful(f[k - 1], <<e>>[k], n) /\ f[k] = Apply(f[k - 1], <<e>>[k])
  BY <1>1, <1>2 DEF m
<1> QED
  BY <1>1, <1>2, <1>3 DEF Leads, m

\* Two lists in a row.
LEMMA LeadsOn ==
  ASSUME NEW l, NEW m, NEW k, NEW n, NEW S, NEW s \in Seq(S), NEW t \in Seq(S),
         Leads(l, s, m, n), Leads(m, t, k, n)
  PROVE  Leads(l, s \o t, k, n)
<1>1. PICK f \in [0 .. Len(s) -> PLLedgers] :
        /\ f[0] = l /\ f[Len(s)] = m
        /\ \A i \in 1 .. Len(s) : Rightful(f[i - 1], s[i], n) /\ f[i] = Apply(f[i - 1], s[i])
  BY DEF Leads
<1>2. PICK g \in [0 .. Len(t) -> PLLedgers] :
        /\ g[0] = m /\ g[Len(t)] = k
        /\ \A i \in 1 .. Len(t) : Rightful(g[i - 1], t[i], n) /\ g[i] = Apply(g[i - 1], t[i])
  BY DEF Leads
<1> DEFINE a == Len(s)
           b == Len(t)
           h == [i \in 0 .. a + b |-> IF i <= a THEN f[i] ELSE g[i - a]]
<1>3. a \in Nat /\ b \in Nat /\ Len(s \o t) = a + b
  OBVIOUS
<1>4. h \in [0 .. a + b -> PLLedgers]
  BY <1>3
<1>5. h[0] = l /\ h[a + b] = k
  <2>1. CASE b = 0
    BY <1>1, <1>2, <1>3, <2>1
  <2>2. CASE b # 0
    BY <1>1, <1>2, <1>3, <2>2
  <2> QED
    BY <2>1, <2>2
<1>6. ASSUME NEW i \in 1 .. a + b
      PROVE  Rightful(h[i - 1], (s \o t)[i], n) /\ h[i] = Apply(h[i - 1], (s \o t)[i])
  <2>1. CASE i <= a
    <3>1. h[i - 1] = f[i - 1] /\ h[i] = f[i] /\ (s \o t)[i] = s[i] /\ i \in 1 .. Len(s)
      BY <1>3, <2>1
    <3> QED
      BY <1>1, <3>1
  <2>2. CASE i > a
    <3> DEFINE j == i - a
    <3>1. j \in 1 .. Len(t) /\ (s \o t)[i] = t[j] /\ h[i] = g[j]
      BY <1>3, <2>2
    <3>2. h[i - 1] = g[j - 1]
      <4>1. CASE j = 1
        BY <1>1, <1>2, <1>3, <4>1
      <4>2. CASE j # 1
        BY <1>3, <3>1, <4>2
      <4> QED
        BY <4>1, <4>2
    <3> QED
      BY <1>2, <3>1, <3>2
  <2> QED
    BY <1>3, <2>1, <2>2
<1> HIDE DEF h
<1> QED
  BY <1>3, <1>4, <1>5, <1>6 DEF Leads

\* The first entry of a list is rightful, and the others follow it.
LEMMA LeadsTail ==
  ASSUME NEW l, NEW m, NEW n, NEW S, NEW s \in Seq(S), s # << >>, Leads(l, s, m, n)
  PROVE  Rightful(l, Head(s), n) /\ Leads(Apply(l, Head(s)), Tail(s), m, n)
<1>1. PICK f \in [0 .. Len(s) -> PLLedgers] :
        /\ f[0] = l /\ f[Len(s)] = m
        /\ \A i \in 1 .. Len(s) : Rightful(f[i - 1], s[i], n) /\ f[i] = Apply(f[i - 1], s[i])
  BY DEF Leads
<1> DEFINE b == Len(s) - 1
           g == [i \in 0 .. b |-> f[i + 1]]
<1>2. b \in Nat /\ Len(Tail(s)) = b /\ Head(s) = s[1] /\ 1 \in 1 .. Len(s) /\ Len(s) = b + 1
  OBVIOUS
<1>3. Rightful(f[0], s[1], n) /\ f[1] = Apply(f[0], s[1])
  <2>1. 1 - 1 = 0
    OBVIOUS
  <2> QED
    BY <1>1, <1>2, <2>1
<1>4. g \in [0 .. b -> PLLedgers] /\ g[0] = f[1] /\ g[b] = m
  BY <1>1, <1>2
<1>5. ASSUME NEW i \in 1 .. b
      PROVE  Rightful(g[i - 1], Tail(s)[i], n) /\ g[i] = Apply(g[i - 1], Tail(s)[i])
  <2>1. i + 1 \in 1 .. Len(s) /\ (i + 1) - 1 = i /\ (i - 1) + 1 = i /\ i - 1 \in 0 .. b /\ i \in 0 .. b
    BY <1>2
  <2>2. Tail(s)[i] = s[i + 1] /\ g[i] = f[i + 1] /\ g[i - 1] = f[i]
    BY <1>2, <2>1
  <2>3. Rightful(f[(i + 1) - 1], s[i + 1], n) /\ f[i + 1] = Apply(f[(i + 1) - 1], s[i + 1])
    BY <1>1, <2>1
  <2> QED
    BY <2>1, <2>2, <2>3
<1> HIDE DEF g
<1> QED
  BY <1>1, <1>2, <1>3, <1>4, <1>5 DEF Leads

WithState(l, st) == [l EXCEPT !.state = st]

\* A fold with new states is a fold.
LEMMA WithStates ==
  ASSUME NEW l \in PLLedgers, NEW st \in [Proposals -> PLStates], NEW m, m = WithState(l, st)
  PROVE  /\ m \in PLLedgers /\ m.state = st
         /\ m.last = l.last /\ m.lastRef = l.lastRef /\ m.calls = l.calls /\ m.base = l.base
         /\ m.written = l.written /\ m.ref = l.ref
<1>1. m = [last |-> l.last, lastRef |-> l.lastRef, calls |-> l.calls, base |-> l.base,
           written |-> l.written, state |-> st, ref |-> l.ref]
  BY StateRecord DEF WithState
<1>2. m \in PLLedgers
  BY <1>1, LedgerFields DEF PLLedgers
<1> QED
  BY <1>1, <1>2

\* Folds that agree in every field are one.
LEMMA SameLedger ==
  ASSUME NEW l \in PLLedgers, NEW m \in PLLedgers,
         l.last = m.last, l.lastRef = m.lastRef, l.calls = m.calls, l.base = m.base,
         l.written = m.written, l.state = m.state, l.ref = m.ref
  PROVE  l = m
<1>1. l = [last |-> l.last, lastRef |-> l.lastRef, calls |-> l.calls, base |-> l.base,
           written |-> l.written, state |-> l.state, ref |-> l.ref]
  BY LedgerFields
<1>2. m = [last |-> m.last, lastRef |-> m.lastRef, calls |-> m.calls, base |-> m.base,
           written |-> m.written, state |-> m.state, ref |-> m.ref]
  BY LedgerFields
<1> QED
  BY <1>1, <1>2

\* A finite set is listed, each of its elements once.
LEMMA Listed ==
  ASSUME NEW S, IsFiniteSet(S)
  PROVE  /\ SetToSeq(S) \in Seq(S)
         /\ \A i \in 1 .. Len(SetToSeq(S)) : SetToSeq(S)[i] \in S
         /\ \A i, j \in 1 .. Len(SetToSeq(S)) : SetToSeq(S)[i] = SetToSeq(S)[j] => i = j
         /\ \A x \in S : \E i \in 1 .. Len(SetToSeq(S)) : SetToSeq(S)[i] = x
<1> DEFINE c == Cardinality(S)
           s == SetToSeq(S)
<1>1. c \in Nat /\ \E f : f \in Bijection(1 .. c, S)
  BY FS_CardinalityType DEF ExistsBijection
<1>2. s \in [1 .. c -> S] /\ IsInjective(s)
  BY <1>1 DEF SetToSeq, Bijection, Injection
<1> HIDE DEF s
<1>3. s \in Seq(S) /\ Len(s) = c
  BY <1>1, <1>2
<1>4. \A i, j \in 1 .. c : s[i] = s[j] => i = j
  BY <1>1, <1>2 DEF IsInjective
<1>5. \A x \in S : \E i \in 1 .. c : s[i] = x
  <2> DEFINE T == {s[i] : i \in 1 .. c}
  <2>1. T \in SUBSET S
    BY <1>2
  <2>2. s \in Bijection(1 .. c, T)
    BY <1>2, <1>4 DEF Bijection, Injection, Surjection, IsInjective
  <2>3. Cardinality(T) = c
    BY <1>1, <2>2, FS_CountingElements DEF ExistsBijection
  <2>4. T = S
    BY <2>1, <2>3, FS_Subset
  <2> QED
    BY <2>4
<1>6. \A i \in 1 .. c : s[i] \in S
  BY <1>2
<1> QED
  BY <1>3, <1>4, <1>5, <1>6 DEF s

\* Entries that mark different proposals, by what each leaves its proposal in.
Marks(l, s, v, k) == [q \in Proposals |-> IF \E i \in 1 .. k : s[i].proposal = q THEN v[q] ELSE l.state[q]]

\* Such entries, each rightful at the start, stay rightful in any order.
LEMMA MarksLead ==
  ASSUME NEW l \in PLLedgers, NEW n, NEW s \in Seq(About), NEW v \in [Proposals -> PLStates],
         \A i \in 1 .. Len(s) : /\ s[i].entry \in {"superseded", "released", "admitted"}
                                /\ Rightful(l, s[i], n)
                                /\ v[s[i].proposal] = IF s[i].entry = "released" THEN "open" ELSE s[i].entry,
         \A i, j \in 1 .. Len(s) : s[i].proposal = s[j].proposal => i = j,
         NEW m, m = WithState(l, Marks(l, s, v, Len(s)))
  PROVE  m \in PLLedgers /\ Leads(l, s, m, n)
<1> DEFINE N == Len(s)
           f == [k \in 0 .. N |-> WithState(l, Marks(l, s, v, k))]
<1>1. N \in Nat /\ l.state \in [Proposals -> PLStates]
  BY LedgerFields
<1>2. \A i \in 1 .. N : s[i] \in About /\ s[i].proposal \in Proposals
  <2>1. \A e \in About : e.proposal \in Proposals
    BY DEF About
  <2>2. \A i \in 1 .. N : s[i] \in About
    OBVIOUS
  <2> QED
    BY <2>1, <2>2
<1>3. ASSUME NEW k \in 0 .. N
      PROVE  /\ f[k] \in PLLedgers /\ f[k].state = Marks(l, s, v, k)
             /\ f[k].last = l.last /\ f[k].lastRef = l.lastRef /\ f[k].calls = l.calls /\ f[k].base = l.base
             /\ f[k].written = l.written /\ f[k].ref = l.ref
  <2>1. Marks(l, s, v, k) \in [Proposals -> PLStates]
    BY <1>1 DEF Marks
  <2>2. f[k] = WithState(l, Marks(l, s, v, k))
    OBVIOUS
  <2> HIDE DEF f
  <2> QED
    BY <2>1, <2>2, WithStates
<1>4. f[N] = m /\ DOMAIN f = 0 .. N /\ f = [k \in 0 .. N |-> f[k]]
  BY <1>1
<1> HIDE DEF f
<1>5. f \in [0 .. N -> PLLedgers]
  BY <1>3, <1>4
<1>6. f[0] = l
  <2>1. Marks(l, s, v, 0) = l.state
    BY <1>1 DEF Marks
  <2>2. 0 \in 0 .. N
    BY <1>1
  <2> QED
    BY <1>3, <2>1, <2>2, SameLedger
<1>7. ASSUME NEW k \in 1 .. N
      PROVE  Rightful(f[k - 1], s[k], n) /\ f[k] = Apply(f[k - 1], s[k])
  <2> DEFINE g == f[k - 1]
             p == s[k].proposal
             a == Apply(g, s[k])
  <2>1. k - 1 \in 0 .. N /\ k \in 0 .. N /\ k \in Nat /\ k - 1 \in Nat
    BY <1>1
  <2>2. /\ g \in PLLedgers /\ g.state = Marks(l, s, v, k - 1)
        /\ g.last = l.last /\ g.lastRef = l.lastRef /\ g.calls = l.calls /\ g.base = l.base
        /\ g.written = l.written /\ g.ref = l.ref
    BY <1>3, <2>1
  <2> HIDE DEF g
  <2>3. p \in Proposals /\ s[k] \in About
    BY <1>2
  <2>4. g.state[p] = l.state[p]
    <3>1. ~ \E i \in 1 .. k - 1 : s[i].proposal = p
      BY <1>1, <2>1
    <3> QED
      BY <2>2, <2>3, <3>1 DEF Marks
  <2>5. Rightful(g, s[k], n)
    <3>1. Rightful(l, s[k], n) /\ s[k].entry \in {"superseded", "released", "admitted"}
      OBVIOUS
    <3>2. s[k] \notin Observations
      BY <3>1 DEF Observations
    <3> QED
      BY <2>3, <2>4, <3>1, <3>2 DEF Rightful
  <2>6. /\ a \in PLLedgers /\ a.last = g.last /\ a.lastRef = g.lastRef /\ a.calls = g.calls /\ a.base = g.base
        /\ a.state = [g.state EXCEPT ![p] = NewState(g, s[k])] /\ a.written = g.written /\ a.ref = g.ref
    <3>1. s[k].entry \notin {"proposed", "recurred"}
      OBVIOUS
    <3> QED
      BY <2>2, <2>3, <3>1, ApplyAbout
  <2>7. NewState(g, s[k]) = v[p]
    BY DEF NewState
  <2>8. a.state = Marks(l, s, v, k)
    <3>1. \A q \in Proposals : q # p =>
            ((\E i \in 1 .. k : s[i].proposal = q) <=> (\E i \in 1 .. k - 1 : s[i].proposal = q))
      BY <2>1
    <3>2. \E i \in 1 .. k : s[i].proposal = p
      BY <2>1
    <3>3. Marks(l, s, v, k - 1) \in [Proposals -> PLStates] /\ Marks(l, s, v, k) \in [Proposals -> PLStates]
      BY <1>1 DEF Marks
    <3>4. \A q \in Proposals : a.state[q] = Marks(l, s, v, k)[q]
      <4> TAKE q \in Proposals
      <4>1. CASE q = p
        <5>1. Marks(l, s, v, k)[p] = v[p]
          BY <2>3, <3>2 DEF Marks
        <5> QED
          BY <2>2, <2>3, <2>6, <2>7, <3>3, <4>1, <5>1
      <4>2. CASE q # p
        <5>1. a.state[q] = Marks(l, s, v, k - 1)[q]
          BY <2>2, <2>3, <2>6, <3>3, <4>2
        <5> QED
          BY <3>1, <4>2, <5>1 DEF Marks
      <4> QED
        BY <4>1, <4>2
    <3>5. a.state \in [Proposals -> PLStates]
      BY <2>6, LedgerFields
    <3> QED
      BY <3>3, <3>4, <3>5
  <2>9. f[k] \in PLLedgers /\ f[k].state = Marks(l, s, v, k)
        /\ f[k].last = l.last /\ f[k].lastRef = l.lastRef /\ f[k].calls = l.calls /\ f[k].base = l.base
        /\ f[k].written = l.written /\ f[k].ref = l.ref
    BY <1>3, <2>1
  <2>10. f[k] = a
    BY <2>2, <2>6, <2>8, <2>9, SameLedger
  <2> QED
    BY <2>5, <2>10 DEF g
<1>8. m \in PLLedgers
  <2>1. N \in 0 .. N
    BY <1>1
  <2> QED
    BY <1>3, <1>4, <2>1
<1>9. Leads(l, s, m, n)
  <2>1. f[0] = l /\ f[Len(s)] = m
    BY <1>4, <1>6
  <2> QED
    BY <1>5, <1>7, <2>1 DEF Leads
<1> QED
  BY <1>8, <1>9

------------------------------------------------------------------------------
(* Lemmas about a plan.                                                    *)

\* Of one spec one run is open, and none is held.
Calm(l) == OneLive(l) /\ \A p \in Proposals : l.state[p] # "admitting"

\* What two lists call for the list of both calls for, and it is for an input that both are for.
LEMMA Joined ==
  ASSUME NEW s \in Seq(About), NEW t \in Seq(About), NEW input
  PROVE  /\ Called(s) \subseteq Called(s \o t) /\ Called(t) \subseteq Called(s \o t)
         /\ AllForInput(s, input) /\ AllForInput(t, input) => AllForInput(s \o t, input)
<1> DEFINE a == Len(s)
           b == Len(t)
           u == s \o t
<1>1. /\ a \in Nat /\ b \in Nat /\ DOMAIN s = 1 .. a /\ DOMAIN t = 1 .. b /\ DOMAIN u = 1 .. a + b
      /\ \A i \in 1 .. a + b : u[i] = IF i <= a THEN s[i] ELSE t[i - a]
  OBVIOUS
<1> HIDE DEF a, b, u
<1>2. \A j \in 1 .. a : j \in 1 .. a + b /\ u[j] = s[j]
  BY <1>1
<1>3. \A j \in 1 .. b : a + j \in 1 .. a + b /\ u[a + j] = t[j]
  <2> TAKE j \in 1 .. b
  <2>1. a + j \in 1 .. a + b /\ ~(a + j <= a) /\ (a + j) - a = j
    BY <1>1
  <2>2. u[a + j] = IF a + j <= a THEN s[a + j] ELSE t[(a + j) - a]
    BY <1>1, <2>1
  <2> QED
    BY <2>1, <2>2
<1>4. \A i \in 1 .. a + b : (i \in 1 .. a /\ u[i] = s[i]) \/ (i - a \in 1 .. b /\ u[i] = t[i - a])
  BY <1>1
<1>5. Called(s) \subseteq Called(u)
  BY <1>1, <1>2 DEF Called
<1>6. Called(t) \subseteq Called(u)
  <2> SUFFICES ASSUME NEW j \in 1 .. b, t[j].entry \in {"proposed", "recurred"}
               PROVE  t[j].proposal \in Called(u)
    BY <1>1 DEF Called
  <2>1. a + j \in DOMAIN u /\ u[a + j] = t[j]
    BY <1>1, <1>3
  <2> QED
    BY <2>1 DEF Called
<1>7. AllForInput(s, input) /\ AllForInput(t, input) => AllForInput(u, input)
  BY <1>1, <1>4 DEF AllForInput
<1> QED
  BY <1>5, <1>6, <1>7 DEF u

\* What a candidate opens is rightful, and so is every supersession of another.
LEMMA FirstEntry ==
  ASSUME NEW l, NEW n, LedgerOK(l, n), NEW p \in Proposals, NEW ref \in Refs, NEW e,
         e = Entry(IF l.state[p] = "none" THEN "proposed" ELSE "recurred", p, ref)
  PROVE  /\ e \in About /\ Rightful(l, e, n) /\ e.proposal = p /\ e.entry \in {"proposed", "recurred"}
         /\ Calm(l) => \A q \in Proposals : Apply(l, e).state[q] # "admitting"
         /\ \A q \in Proposals : q # p => Apply(l, e).state[q] = l.state[q]
         /\ Apply(l, e).state[p] # "open" => l.state[p] # "open"
<1>1. /\ e.proposal = p /\ e.ref = ref /\ e.entry \in {"proposed", "recurred"}
      /\ e.entry = "proposed" <=> l.state[p] = "none"
  BY DEF Entry
<1>2. e \in About
  BY DEF Entry, About, Dispositions
<1>3. Rightful(l, e, n)
  BY <1>1, <1>2 DEF Rightful
<1>4. l \in PLLedgers /\ l.state \in [Proposals -> PLStates]
  BY LedgerFields DEF LedgerOK
<1>5. Apply(l, e).state = [l.state EXCEPT ![p] = NewState(l, e)]
  <2>1. Apply(l, e).state = [l.state EXCEPT ![e.proposal] = NewState(l, e)]
    BY <1>2, <1>4, ApplyAbout
  <2> QED
    BY <1>1, <2>1
<1>6. NewState(l, e) = "open" \/ NewState(l, e) = l.state[p]
  BY <1>1 DEF NewState
<1>7. Calm(l) => \A q \in Proposals : Apply(l, e).state[q] # "admitting"
  BY <1>4, <1>5, <1>6 DEF Calm
<1> QED
  BY <1>1, <1>2, <1>3, <1>4, <1>5, <1>6, <1>7

SupersedeAll(old) == SetToSeq({Entry("superseded", q, NoRef) : q \in old})
Without(l, old) == WithState(l, [q \in Proposals |-> IF q \in old THEN "superseded" ELSE l.state[q]])

\* A finite set of open proposals is superseded, one entry each.
LEMMA Supersede ==
  ASSUME NEW l, NEW n, LedgerOK(l, n), NEW old, old \in SUBSET Proposals,
         \A q \in old : l.state[q] = "open"
  PROVE  /\ SupersedeAll(old) \in Seq(About) /\ Leads(l, SupersedeAll(old), Without(l, old), n)
         /\ LedgerOK(Without(l, old), n)
         /\ \A q \in Proposals : Without(l, old).state[q] = IF q \in old THEN "superseded" ELSE l.state[q]
         /\ \A i \in DOMAIN SupersedeAll(old) :
              SupersedeAll(old)[i].entry = "superseded" /\ SupersedeAll(old)[i].proposal \in old
<1> DEFINE s == SupersedeAll(old)
           m == Without(l, old)
           S == {Entry("superseded", q, NoRef) : q \in old}
           v == [q \in Proposals |-> "superseded"]
<1>1. l \in PLLedgers /\ l.state \in [Proposals -> PLStates]
  BY LedgerFields DEF LedgerOK
<1>0. s = SetToSeq(S) /\ m = WithState(l, [q \in Proposals |-> IF q \in old THEN "superseded" ELSE l.state[q]])
  BY DEF SupersedeAll, Without
<1> HIDE DEF s, m
<1>2. IsFiniteSet(S)
  <2>1. old \subseteq KnownTo(l) /\ IsFiniteSet(KnownTo(l))
    BY DEF KnownTo, LedgerOK
  <2>2. IsFiniteSet(old)
    BY <2>1, FS_Subset
  <2> DEFINE g == [q \in old |-> Entry("superseded", q, NoRef)]
  <2>3. g \in Surjection(old, S)
    BY DEF Surjection
  <2> QED
    BY <2>2, <2>3, FS_Surjection DEF ExistsSurjection
<1>3. \A e \in S : /\ e \in About /\ e.entry = "superseded" /\ e.proposal \in old
                   /\ e = Entry("superseded", e.proposal, NoRef)
  BY DEF Entry, About, Dispositions
<1>19. \A q \in old : Entry("superseded", q, NoRef) \in S
  OBVIOUS
<1>20. s = SetToSeq(S)
  BY <1>0
<1> HIDE DEF S
<1>4. s \in Seq(S) /\ \A i \in 1 .. Len(s) : s[i] \in S
  BY <1>2, <1>20, Listed
<1>5. \A i, j \in 1 .. Len(s) : s[i] = s[j] => i = j
  BY <1>2, <1>20, Listed
<1>6. \A q \in old : \E i \in 1 .. Len(s) : s[i] = Entry("superseded", q, NoRef)
  <2>1. \A x \in S : \E i \in 1 .. Len(s) : s[i] = x
    BY <1>2, <1>20, Listed
  <2> QED
    BY <1>19, <2>1
<1>7. s \in Seq(About)
  BY <1>3, <1>4, SeqMonotonic
<1>8. \A i \in 1 .. Len(s) : s[i].entry = "superseded" /\ s[i].proposal \in old
  BY <1>3, <1>4
<1>9. \A i, j \in 1 .. Len(s) : s[i].proposal = s[j].proposal => i = j
  BY <1>3, <1>4, <1>5
<1>10. \A i \in 1 .. Len(s) : Rightful(l, s[i], n)
  <2> TAKE i \in 1 .. Len(s)
  <2>1. s[i] \in About /\ s[i].entry = "superseded" /\ l.state[s[i].proposal] = "open"
    BY <1>3, <1>4
  <2> QED
    BY <2>1 DEF Rightful
<1>11. Marks(l, s, v, Len(s)) = [q \in Proposals |-> IF q \in old THEN "superseded" ELSE l.state[q]]
  <2>1. \A q \in Proposals : (\E i \in 1 .. Len(s) : s[i].proposal = q) <=> q \in old
    <3>1. \A q : Entry("superseded", q, NoRef).proposal = q
      BY DEF Entry
    <3>2. \A q \in old : \E i \in 1 .. Len(s) : s[i].proposal = q
      <4> TAKE q \in old
      <4>1. PICK i \in 1 .. Len(s) : s[i] = Entry("superseded", q, NoRef)
        BY <1>6
      <4>2. s[i].proposal = q
        BY <3>1, <4>1
      <4> QED
        BY <4>2
    <3> QED
      BY <1>8, <3>2
  <2> QED
    BY <2>1 DEF Marks
<1>12. m = WithState(l, Marks(l, s, v, Len(s)))
  BY <1>0, <1>11
<1>13. v \in [Proposals -> PLStates]
  BY DEF PLStates
<1>14. m \in PLLedgers /\ Leads(l, s, m, n)
  <2>1. \A i \in 1 .. Len(s) : /\ s[i].entry \in {"superseded", "released", "admitted"}
                               /\ Rightful(l, s[i], n)
                               /\ v[s[i].proposal] = IF s[i].entry = "released" THEN "open" ELSE s[i].entry
    BY <1>8, <1>10
  <2> HIDE DEF v
  <2> QED
    BY <1>1, <1>7, <1>9, <1>12, <1>13, <2>1, MarksLead
<1>15. /\ m.state = [q \in Proposals |-> IF q \in old THEN "superseded" ELSE l.state[q]]
       /\ m.last = l.last /\ m.lastRef = l.lastRef /\ m.calls = l.calls /\ m.ref = l.ref
  <2> DEFINE st == [q \in Proposals |-> IF q \in old THEN "superseded" ELSE l.state[q]]
  <2>1. st \in [Proposals -> PLStates] /\ m = WithState(l, st)
    BY <1>1, <1>11, <1>12 DEF PLStates
  <2> HIDE DEF st
  <2>2. /\ m.state = st /\ m.last = l.last /\ m.lastRef = l.lastRef /\ m.calls = l.calls /\ m.ref = l.ref
    BY <1>1, <2>1, WithStates
  <2> QED
    BY <2>2 DEF st
<1>16. LedgerOK(m, n)
  <2>1. \A q \in Proposals : m.state[q] = IF q \in old THEN "superseded" ELSE l.state[q]
    BY <1>15
  <2>2. KnownTo(m) = KnownTo(l)
    BY <2>1 DEF KnownTo
  <2>3. \A q \in Proposals : n[q] > 0 => m.state[q] \in {"admitting", "admitted"}
    BY <2>1 DEF LedgerOK
  <2>4. \A q \in Proposals : m.state[q] # "none" => m.ref[q] \in Refs
    BY <1>15, <2>1 DEF LedgerOK
  <2> QED
    BY <1>14, <1>15, <2>2, <2>3, <2>4 DEF LedgerOK
<1>17. \A q \in Proposals : m.state[q] = IF q \in old THEN "superseded" ELSE l.state[q]
  BY <1>15
<1>18. \A i \in DOMAIN s : s[i].entry = "superseded" /\ s[i].proposal \in old
  BY <1>7, <1>8
<1> QED
  BY <1>7, <1>14, <1>16, <1>17, <1>18 DEF s, m

\* One more candidate is planned.
LEMMA PlannedKeeps ==
  ASSUME NEW plan, NEW p \in Proposals, NEW ref \in Refs, NEW n, NEW input,
         LedgerOK(plan.l, n), plan.out \in Seq(About), AllForInput(plan.out, input), Fitting(p, input),
         NEW next, next = Planned(plan, p, ref)
  PROVE  /\ LedgerOK(next.l, n) /\ next.out \in Seq(About) /\ AllForInput(next.out, input)
         /\ Called(plan.out) \subseteq Called(next.out) /\ p \in Called(next.out)
         /\ \A l : Leads(l, plan.out, plan.l, n) => Leads(l, next.out, next.l, n)
         /\ Calm(plan.l) => Calm(next.l)
<1> DEFINE e == Entry(IF plan.l.state[p] = "none" THEN "proposed" ELSE "recurred", p, ref)
           m == Apply(plan.l, e)
           old == Superseded(m, p)
           gone == SupersedeAll(old)
           k == Without(m, old)
           o1 == plan.out \o <<e>>
           o2 == o1 \o gone
<1>1. next.l = k /\ next.out = o2
  BY DEF Planned, WithState, Without, SupersedeAll
<1>2. plan.l \in PLLedgers
  BY DEF LedgerOK
<1>3. /\ e \in About /\ Rightful(plan.l, e, n) /\ e.proposal = p /\ e.entry \in {"proposed", "recurred"}
      /\ Calm(plan.l) => \A q \in Proposals : m.state[q] # "admitting"
      /\ \A q \in Proposals : q # p => m.state[q] = plan.l.state[q]
      /\ m.state[p] # "open" => plan.l.state[p] # "open"
  BY FirstEntry
<1> HIDE DEF e
<1>4. LedgerOK(m, n) /\ m \in PLLedgers
  BY <1>3, ApplyKeeps DEF LedgerOK
<1>5. Leads(plan.l, <<e>>, m, n)
  BY <1>2, <1>3, <1>4, LeadsOne
<1> HIDE DEF m
<1>6. /\ old \in SUBSET Proposals
      /\ \A q \in old : m.state[q] = "open" /\ q.kind = "run" /\ q.spec = p.spec /\ q # p /\ p.kind = "run"
  BY DEF Superseded
<1>7. p.kind = "run" /\ m.state[p] = "open" =>
        \A q \in Proposals : q.kind = "run" /\ q.spec = p.spec /\ q # p /\ m.state[q] = "open" => q \in old
  BY DEF Superseded
<1> HIDE DEF old
<1>8. /\ gone \in Seq(About) /\ Leads(m, gone, k, n) /\ LedgerOK(k, n)
      /\ \A q \in Proposals : k.state[q] = IF q \in old THEN "superseded" ELSE m.state[q]
      /\ \A i \in DOMAIN gone : gone[i].entry = "superseded" /\ gone[i].proposal \in old
  BY <1>4, <1>6, Supersede
<1> HIDE DEF gone, k
<1>9. <<e>> \in Seq(About) /\ o1 \in Seq(About) /\ o2 \in Seq(About)
  BY <1>3, <1>8
<1>10. AllForInput(<<e>>, input) /\ p \in Called(<<e>>)
  <2>1. DOMAIN <<e>> = {1} /\ <<e>>[1] = e
    OBVIOUS
  <2>2. AllForInput(<<e>>, input)
    BY <1>3, <2>1 DEF AllForInput, ForInput
  <2>3. <<e>>[1].proposal = p /\ <<e>>[1].entry \in {"proposed", "recurred"} /\ 1 \in DOMAIN <<e>>
    BY <1>3, <2>1
  <2> QED
    BY <2>2, <2>3 DEF Called
<1>11. AllForInput(gone, input)
  <2>1. ASSUME NEW q \in old PROVE ~Fitting(q, input)
    <3>1. /\ q \in Proposals /\ q.kind = "run" /\ p.kind = "run" /\ q.spec = p.spec /\ q # p
      BY <1>6, <2>1
    <3>2. q.after # p.after
      BY <3>1, RunIs
    <3>3. ~Differs(p, input)
      BY <3>1 DEF Fitting
    <3> QED
      BY <3>1, <3>2, <3>3 DEF Fitting, Differs
  <2>2. \A i \in DOMAIN gone : gone[i] \in About
    BY <1>8
  <2> QED
    BY <1>8, <2>1, <2>2 DEF AllForInput, ForInput
<1>12. /\ AllForInput(o1, input) /\ Called(plan.out) \subseteq Called(o1) /\ p \in Called(o1)
  BY <1>9, <1>10, Joined
<1> HIDE DEF o1
<1>13. AllForInput(o2, input) /\ Called(o1) \subseteq Called(o2)
  BY <1>8, <1>9, <1>11, <1>12, Joined
<1>14. ASSUME NEW l, Leads(l, plan.out, plan.l, n) PROVE Leads(l, o2, k, n)
  <2>1. Leads(l, o1, m, n)
    BY <1>5, <1>9, <1>14, LeadsOn DEF o1
  <2> QED
    BY <1>8, <1>9, <2>1, LeadsOn
<1>15. ASSUME Calm(plan.l) PROVE Calm(k)
  <2>1. \A q \in Proposals : k.state[q] = IF q \in old THEN "superseded" ELSE m.state[q]
    BY <1>8
  <2>2. \A q \in Proposals : k.state[q] # "admitting"
    BY <1>3, <1>15, <2>1
  <2>3. ASSUME NEW q \in Proposals, NEW r \in Proposals, Live(k, q), Live(k, r), q.spec = r.spec PROVE q = r
    <3>1. /\ q.kind = "run" /\ r.kind = "run" /\ k.state[q] = "open" /\ k.state[r] = "open"
          /\ q \notin old /\ r \notin old /\ m.state[q] = "open" /\ m.state[r] = "open"
      BY <2>1, <2>2, <2>3 DEF Live
    <3>2. CASE q # p /\ r # p
      <4>1. plan.l.state[q] = "open" /\ plan.l.state[r] = "open"
        BY <1>3, <3>1, <3>2
      <4> QED
        BY <1>15, <2>3, <3>1, <4>1 DEF Calm, OneLive, Live
    <3>3. CASE q = p
      BY <1>7, <2>3, <3>1, <3>3
    <3>4. CASE r = p
      BY <1>7, <2>3, <3>1, <3>4
    <3> QED
      BY <3>2, <3>3, <3>4
  <2> QED
    BY <2>2, <2>3 DEF Calm, OneLive
<1> QED
  BY <1>1, <1>8, <1>9, <1>12, <1>13, <1>14, <1>15

\* The entries planned so far, as a function of how many candidates were.
PlansBy(f, l, ref, c, N) ==
  f = [k \in 0 .. N |-> IF k = 0 THEN [l |-> l, out |-> <<>>] ELSE Planned(f[k - 1], c[k], ref)]

\* There is such a function, so the recursion in Plan is one.
LEMMA PlanFunction ==
  ASSUME NEW l, NEW ref, NEW c, NEW N \in Nat
  PROVE  \E f : PlansBy(f, l, ref, c, N)
<1> DEFINE base == [l |-> l, out |-> << >>]
           Has(m) == \E f : f = [k \in 0 .. m |-> IF k = 0 THEN base ELSE Planned(f[k - 1], c[k], ref)]
           Lacking == {m \in 0 .. N : ~Has(m)}
<1> HIDE DEF base
<1>1. Has(0)
  <2> DEFINE f == [k \in 0 .. 0 |-> base]
  <2>1. f = [k \in 0 .. 0 |-> IF k = 0 THEN base ELSE Planned(f[k - 1], c[k], ref)]
    OBVIOUS
  <2> QED
    BY <2>1
<1>2. ASSUME NEW m \in 0 .. N, m # 0, Has(m - 1) PROVE Has(m)
  <2>1. PICK f : f = [k \in 0 .. m - 1 |-> IF k = 0 THEN base ELSE Planned(f[k - 1], c[k], ref)]
    BY <1>2
  <2> DEFINE g == [k \in 0 .. m |-> IF k = m THEN Planned(f[m - 1], c[m], ref) ELSE f[k]]
  <2>2. m \in Nat /\ m - 1 \in 0 .. m - 1 /\ m - 1 \in 0 .. m /\ m - 1 # m
    BY <1>2
  <2>3. \A k \in 0 .. m - 1 : k \in 0 .. m /\ k # m /\ g[k] = f[k]
    BY <2>2
  <2>4. g[m] = Planned(g[m - 1], c[m], ref)
    BY <2>2, <2>3
  <2>5. \A k \in 0 .. m - 1 : g[k] = IF k = 0 THEN base ELSE Planned(g[k - 1], c[k], ref)
    <3> TAKE k \in 0 .. m - 1
    <3>1. f[k] = IF k = 0 THEN base ELSE Planned(f[k - 1], c[k], ref)
      BY <2>1
    <3>2. k # 0 => k - 1 \in 0 .. m - 1
      BY <2>2
    <3> QED
      BY <2>3, <3>1, <3>2
  <2>6. DOMAIN g = 0 .. m /\ g = [k \in 0 .. m |-> g[k]]
    OBVIOUS
  <2> HIDE DEF g
  <2>7. \A k \in 0 .. m : g[k] = IF k = 0 THEN base ELSE Planned(g[k - 1], c[k], ref)
    <3>1. \A k \in 0 .. m : k \in 0 .. m - 1 \/ k = m
      BY <2>2
    <3> QED
      BY <1>2, <2>4, <2>5, <3>1
  <2>8. g = [k \in 0 .. m |-> IF k = 0 THEN base ELSE Planned(g[k - 1], c[k], ref)]
    BY <2>6, <2>7
  <2> QED
    BY <2>8
<1>3. Lacking = {}
  <2> SUFFICES ASSUME Lacking # {} PROVE FALSE
    OBVIOUS
  <2>1. Lacking \subseteq Nat
    OBVIOUS
  <2>2. PICK m \in Lacking : \A j \in Lacking : m <= j
    BY <2>1, FirstOf
  <2> HIDE DEF Has
  <2>3. m \in 0 .. N /\ ~Has(m) /\ m # 0
    BY <1>1, <2>2
  <2>4. m - 1 \in 0 .. N /\ ~(m <= m - 1)
    BY <2>3
  <2>5. Has(m - 1)
    BY <2>2, <2>4
  <2> QED
    BY <1>2, <2>3, <2>5
<1>4. N \in 0 .. N
  OBVIOUS
<1>5. Has(N)
  <2> HIDE DEF Has
  <2> QED
    BY <1>3, <1>4
<1> QED
  BY <1>5 DEF base, PlansBy

\* A plan is for its input, calls for every candidate, and leads to a calm fold.
LEMMA PlanLeads ==
  ASSUME NEW l, NEW n, LedgerOK(l, n), NEW ref \in Refs, NEW c \in Seq(Proposals), NEW input,
         \A i \in DOMAIN c : Fitting(c[i], input)
  PROVE  /\ Plan(l, ref, c) \in Seq(About) /\ AllForInput(Plan(l, ref, c), input)
         /\ Range(c) \subseteq Called(Plan(l, ref, c))
         /\ \E m \in PLLedgers : Leads(l, Plan(l, ref, c), m, n) /\ LedgerOK(m, n) /\ (Calm(l) => Calm(m))
<1> DEFINE N == Len(c)
           f == CHOOSE f : PlansBy(f, l, ref, c, N)
<1>1. N \in Nat /\ DOMAIN c = 1 .. N /\ \A k \in 1 .. N : c[k] \in Proposals /\ Fitting(c[k], input)
  OBVIOUS
<1>2. PlansBy(f, l, ref, c, N)
  BY <1>1, PlanFunction
<1>3. Plan(l, ref, c) = f[N].out
  BY DEF Plan, PlansBy
<1> HIDE DEF f
<1>4. /\ f[0] = [l |-> l, out |-> <<>>]
      /\ \A k \in 1 .. N : f[k] = Planned(f[k - 1], c[k], ref)
  <2>1. 0 \in 0 .. N /\ \A k \in 1 .. N : k \in 0 .. N /\ k # 0
    BY <1>1
  <2> QED
    BY <1>2, <2>1 DEF PlansBy
<1> DEFINE Good(k) == /\ LedgerOK(f[k].l, n) /\ f[k].out \in Seq(About) /\ AllForInput(f[k].out, input)
                      /\ Leads(l, f[k].out, f[k].l, n)
                      /\ \A i \in 1 .. k : c[i] \in Called(f[k].out)
                      /\ Calm(l) => Calm(f[k].l)
           Bad == {k \in 0 .. N : ~Good(k)}
<1>5. Good(0)
  <2>1. f[0].l = l /\ f[0].out = << >>
    BY <1>4
  <2>2. l \in PLLedgers
    BY DEF LedgerOK
  <2>3. AllForInput(<< >>, input)
    BY DEF AllForInput
  <2> QED
    BY <2>1, <2>2, <2>3, LeadsNowhere
<1>6. ASSUME NEW k \in 1 .. N, Good(k - 1) PROVE Good(k)
  <2> DEFINE g == f[k - 1]
  <2>1. f[k] = Planned(g, c[k], ref) /\ c[k] \in Proposals /\ Fitting(c[k], input)
    BY <1>1, <1>4
  <2>2. /\ LedgerOK(g.l, n) /\ g.out \in Seq(About) /\ AllForInput(g.out, input) /\ Leads(l, g.out, g.l, n)
        /\ \A i \in 1 .. k - 1 : c[i] \in Called(g.out)
        /\ Calm(l) => Calm(g.l)
    BY <1>6
  <2> HIDE DEF g
  <2> DEFINE h == f[k]
  <2>3. /\ LedgerOK(h.l, n) /\ h.out \in Seq(About) /\ AllForInput(h.out, input)
        /\ Called(g.out) \subseteq Called(h.out) /\ c[k] \in Called(h.out)
        /\ \A q : Leads(q, g.out, g.l, n) => Leads(q, h.out, h.l, n)
        /\ Calm(g.l) => Calm(h.l)
    BY <2>1, <2>2, PlannedKeeps
  <2> HIDE DEF h
  <2>4. \A i \in 1 .. k : i \in 1 .. k - 1 \/ i = k
    BY <1>1
  <2>5. \A i \in 1 .. k : c[i] \in Called(h.out)
    BY <2>2, <2>3, <2>4
  <2> QED
    BY <2>2, <2>3, <2>5 DEF h
<1>7. Bad = {}
  <2> SUFFICES ASSUME Bad # {} PROVE FALSE
    OBVIOUS
  <2>1. Bad \subseteq Nat
    OBVIOUS
  <2>2. PICK k \in Bad : \A j \in Bad : k <= j
    BY <2>1, FirstOf
  <2> HIDE DEF Good
  <2>3. k \in 1 .. N /\ ~Good(k)
    BY <1>5, <2>2
  <2>4. k - 1 \in 0 .. N /\ ~(k <= k - 1)
    BY <2>3
  <2>5. Good(k - 1)
    BY <2>2, <2>4
  <2> QED
    BY <1>6, <2>3, <2>5
<1>8. Good(N)
  <2> HIDE DEF Good
  <2>1. N \in 0 .. N
    BY <1>1
  <2> QED
    BY <1>7, <2>1
<1>9. f[N].l \in PLLedgers
  BY <1>8 DEF LedgerOK
<1>10. Range(c) \subseteq Called(f[N].out)
  BY <1>1, <1>8 DEF Range
<1> QED
  BY <1>3, <1>8, <1>9, <1>10

------------------------------------------------------------------------------
(* What an observation calls for.                                          *)

\* What two lists in a row hold.
LEMMA JoinedRange ==
  ASSUME NEW S, NEW s \in Seq(S), NEW t \in Seq(S)
  PROVE  s \o t \in Seq(S) /\ \A x : x \in Range(s \o t) <=> x \in Range(s) \/ x \in Range(t)
<1> DEFINE a == Len(s)
           b == Len(t)
           u == s \o t
<1>1. /\ a \in Nat /\ b \in Nat /\ DOMAIN s = 1 .. a /\ DOMAIN t = 1 .. b /\ DOMAIN u = 1 .. a + b
      /\ \A i \in 1 .. a + b : u[i] = IF i <= a THEN s[i] ELSE t[i - a]
      /\ u \in Seq(S)
  OBVIOUS
<1> HIDE DEF a, b, u
<1>2. \A j \in 1 .. a : j \in 1 .. a + b /\ u[j] = s[j]
  BY <1>1
<1>3. \A j \in 1 .. b : a + j \in 1 .. a + b /\ u[a + j] = t[j]
  <2> TAKE j \in 1 .. b
  <2>1. a + j \in 1 .. a + b /\ ~(a + j <= a) /\ (a + j) - a = j
    BY <1>1
  <2>2. u[a + j] = IF a + j <= a THEN s[a + j] ELSE t[(a + j) - a]
    BY <1>1, <2>1
  <2> QED
    BY <2>1, <2>2
<1>4. \A i \in 1 .. a + b : (i \in 1 .. a /\ u[i] = s[i]) \/ (i - a \in 1 .. b /\ u[i] = t[i - a])
  BY <1>1
<1>5. ASSUME NEW x, x \in Range(u) PROVE x \in Range(s) \/ x \in Range(t)
  BY <1>1, <1>4, <1>5 DEF Range
<1>6. ASSUME NEW x, x \in Range(s) PROVE x \in Range(u)
  BY <1>1, <1>2, <1>6 DEF Range
<1>7. ASSUME NEW x, x \in Range(t) PROVE x \in Range(u)
  <2>1. PICK j \in 1 .. b : x = t[j]
    BY <1>1, <1>7 DEF Range
  <2>2. a + j \in DOMAIN u /\ u[a + j] = x
    BY <1>1, <1>3, <2>1
  <2> QED
    BY <2>2 DEF Range
<1> QED
  BY <1>1, <1>5, <1>6, <1>7 DEF u

\* A list of lists, put in a row.
LEMMA Flattened ==
  ASSUME NEW S, NEW s, NEW N \in Nat, s \in [1 .. N -> Seq(S)]
  PROVE  /\ FlattenSeq(s) \in Seq(S)
         /\ \A x : x \in Range(FlattenSeq(s)) <=> \E i \in 1 .. N : x \in Range(s[i])
<1>1. s \in Seq(Seq(S)) /\ Len(s) = N
  OBVIOUS
<1>2. CASE N = 0
  <2>1. FlattenSeq(s) = << >>
    BY <1>1, <1>2 DEF FlattenSeq
  <2>2. Range(<< >>) = {}
    BY DEF Range
  <2> QED
    BY <1>2, <2>1, <2>2
<1>3. CASE N # 0
  <2> DEFINE G(f, m) == f = [i \in 1 .. m |-> IF i = 1 THEN s[i] ELSE f[i - 1] \o s[i]]
             Has(m) == \E f : G(f, m)
             Lacking == {m \in 1 .. N : ~Has(m)}
  <2>1. Has(1)
    <3> DEFINE f == [i \in 1 .. 1 |-> s[i]]
    <3>1. G(f, 1)
      OBVIOUS
    <3> QED
      BY <3>1
  <2>2. ASSUME NEW m \in 2 .. N, Has(m - 1) PROVE Has(m)
    <3>1. PICK f : G(f, m - 1)
      BY <2>2
    <3> DEFINE g == [i \in 1 .. m |-> IF i = m THEN f[m - 1] \o s[m] ELSE f[i]]
    <3>2. m \in Nat /\ m - 1 \in 1 .. m - 1 /\ m - 1 \in 1 .. m /\ m - 1 # m /\ m # 1 /\ m \in 1 .. m
      BY <2>2
    <3>3. \A i \in 1 .. m - 1 : i \in 1 .. m /\ i # m /\ g[i] = f[i]
      BY <3>2
    <3>4. g[m] = g[m - 1] \o s[m]
      BY <3>2, <3>3
    <3>5. \A i \in 1 .. m - 1 : g[i] = IF i = 1 THEN s[i] ELSE g[i - 1] \o s[i]
      <4> TAKE i \in 1 .. m - 1
      <4>1. f[i] = IF i = 1 THEN s[i] ELSE f[i - 1] \o s[i]
        BY <3>1
      <4>2. i # 1 => i - 1 \in 1 .. m - 1
        BY <3>2
      <4> QED
        BY <3>3, <4>1, <4>2
    <3>6. g = [i \in 1 .. m |-> g[i]]
      OBVIOUS
    <3> HIDE DEF g
    <3>7. \A i \in 1 .. m : g[i] = IF i = 1 THEN s[i] ELSE g[i - 1] \o s[i]
      <4>1. \A i \in 1 .. m : i \in 1 .. m - 1 \/ i = m
        BY <3>2
      <4> QED
        BY <3>2, <3>4, <3>5, <4>1
    <3>8. G(g, m)
      BY <3>6, <3>7
    <3> QED
      BY <3>8
  <2> HIDE DEF Has
  <2>3. Lacking = {}
    <3> SUFFICES ASSUME Lacking # {} PROVE FALSE
      OBVIOUS
    <3>1. Lacking \subseteq Nat
      OBVIOUS
    <3>2. PICK m \in Lacking : \A j \in Lacking : m <= j
      BY <3>1, FirstOf
    <3>3. m \in 2 .. N /\ ~Has(m)
      BY <2>1, <3>2
    <3>4. m - 1 \in 1 .. N /\ ~(m <= m - 1)
      BY <3>3
    <3>5. Has(m - 1)
      BY <3>2, <3>4
    <3> QED
      BY <2>2, <3>3, <3>5
  <2>4. Has(N)
    <3>1. N \in 1 .. N
      BY <1>3
    <3> QED
      BY <2>3, <3>1
  <2> DEFINE f == CHOOSE f : G(f, N)
  <2>5. G(f, N)
    <3>1. \E g : G(g, N)
      BY <2>4 DEF Has
    <3> HIDE DEF G
    <3> QED
      BY <3>1
  <2>6. FlattenSeq(s) = f[N]
    BY <1>1, <1>3 DEF FlattenSeq
  <2> HIDE DEF f
  <2>7. f[1] = s[1] /\ \A i \in 2 .. N : f[i] = f[i - 1] \o s[i]
    <3>1. 1 \in 1 .. N /\ \A i \in 2 .. N : i \in 1 .. N /\ i # 1
      BY <1>3
    <3> QED
      BY <2>5, <3>1
  <2> HIDE DEF G
  <2> DEFINE Good(m) == f[m] \in Seq(S) /\ \A x : x \in Range(f[m]) <=> \E i \in 1 .. m : x \in Range(s[i])
             Bad == {m \in 1 .. N : ~Good(m)}
  <2>8. Good(1)
    <3>1. f[1] = s[1] /\ s[1] \in Seq(S)
      BY <1>3, <2>7
    <3>2. \A i \in 1 .. 1 : i = 1
      OBVIOUS
    <3> QED
      BY <3>1, <3>2
  <2>9. ASSUME NEW m \in 2 .. N, Good(m - 1) PROVE Good(m)
    <3> DEFINE a == f[m - 1]
               b == s[m]
    <3>0. m \in 1 .. N
      BY <1>3
    <3>1. f[m] = a \o b /\ a \in Seq(S) /\ b \in Seq(S)
      <4>1. f[m] = f[m - 1] \o s[m]
        BY <2>7
      <4>2. f[m - 1] \in Seq(S)
        BY <2>9
      <4>3. s[m] \in Seq(S)
        BY <3>0
      <4> QED
        BY <4>1, <4>2, <4>3
    <3>2. \A x : x \in Range(a) <=> \E i \in 1 .. m - 1 : x \in Range(s[i])
      BY <2>9
    <3> HIDE DEF a
    <3>3. \A x : x \in Range(b) <=> x \in Range(s[m])
      OBVIOUS
    <3> HIDE DEF b
    <3>4. a \o b \in Seq(S) /\ \A x : x \in Range(a \o b) <=> x \in Range(a) \/ x \in Range(b)
      BY <3>1, JoinedRange
    <3>5. \A i : i \in 1 .. m <=> i \in 1 .. m - 1 \/ i = m
      OBVIOUS
    <3> QED
      BY <3>1, <3>2, <3>3, <3>4, <3>5
  <2> HIDE DEF Good
  <2>10. Bad = {}
    <3> SUFFICES ASSUME Bad # {} PROVE FALSE
      OBVIOUS
    <3>1. Bad \subseteq Nat
      OBVIOUS
    <3>2. PICK m \in Bad : \A j \in Bad : m <= j
      BY <3>1, FirstOf
    <3>3. m \in 2 .. N /\ ~Good(m)
      BY <2>8, <3>2
    <3>4. m - 1 \in 1 .. N /\ ~(m <= m - 1)
      BY <3>3
    <3>5. Good(m - 1)
      BY <3>2, <3>4
    <3> QED
      BY <2>9, <3>3, <3>5
  <2>11. Good(N)
    <3>1. N \in 1 .. N
      BY <1>3
    <3> QED
      BY <2>10, <3>1
  <2> QED
    BY <2>6, <2>11 DEF Good
<1> QED
  BY <1>2, <1>3

\* What a moved contract calls for are proposals, and a run among them fits the input.
LEMMA MovedCalls ==
  ASSUME NEW s \in Corpus, NEW before \in Rows, NEW input \in Inputs, Answered(input)
  PROVE  /\ ForMoved(s, before, input.rows[s]) \in Seq(Proposals)
         /\ \A p \in Range(ForMoved(s, before, input.rows[s])) : Fitting(p, input)
<1> DEFINE after == input.rows[s]
           a == IF Bound(after) THEN <<Run(s, after)>> ELSE << >>
           b == IF Bound(before) THEN <<Notice("moved-contract", s, before, after)>> ELSE << >>
<1>1. after \in Rows
  BY InputFields
<1>2. Run(s, after).spec = s /\ Run(s, after).after = after /\ Run(s, after).kind = "run"
  BY DEF Run
<1>3. Bound(after) => Run(s, after) \in Proposals /\ Fitting(Run(s, after), input)
  <2>1. Bound(after) => Run(s, after) \in Proposals
    BY DEF Bound, Run, Proposals
  <2>2. Fitting(Run(s, after), input)
    BY <1>2 DEF Fitting, Differs
  <2> QED
    BY <2>1, <2>2
<1>4. Bound(before) /\ Eligible(after) =>
        /\ Notice("moved-contract", s, before, after) \in Proposals
        /\ Fitting(Notice("moved-contract", s, before, after), input)
  BY DEF Bound, Eligible, Notice, Proposals, Fitting
<1> DEFINE run == Run(s, after)
           notice == Notice("moved-contract", s, before, after)
<1> HIDE DEF run, notice
<1>5. \A x : Range(<<x>>) = {x} /\ Range(<< >>) = {}
  BY DEF Range
<1>6. a \in Seq(Proposals) /\ \A p \in Range(a) : Fitting(p, input)
  BY <1>3, <1>5
<1>7. Eligible(after) => b \in Seq(Proposals) /\ \A p \in Range(b) : Fitting(p, input)
  BY <1>4, <1>5
<1> HIDE DEF a, b
<1>8. Eligible(after) => a \o b \in Seq(Proposals) /\ \A p \in Range(a \o b) : Fitting(p, input)
  BY <1>6, <1>7, JoinedRange
<1>9. ForMoved(s, before, after)
      = IF Eligible(before) /\ Eligible(after) /\ MovedTo(before, after) THEN a \o b ELSE << >>
  BY DEF ForMoved, a, b
<1> HIDE DEF after
<1>10. << >> \in Seq(Proposals) /\ Range(<< >>) = {}
  BY <1>5
<1>11. /\ ForMoved(s, before, after) \in Seq(Proposals)
       /\ \A p \in Range(ForMoved(s, before, after)) : Fitting(p, input)
  BY <1>8, <1>9, <1>10
<1> QED
  BY <1>11 DEF after

\* The same of what entered or left eligibility,
LEMMA WorkCalls ==
  ASSUME NEW s \in Corpus, NEW before \in Rows, NEW input \in Inputs, Answered(input)
  PROVE  /\ ForWork(s, before, input.rows[s]) \in Seq(Proposals)
         /\ \A p \in Range(ForWork(s, before, input.rows[s])) : Fitting(p, input)
<1> DEFINE after == input.rows[s]
           run == Run(s, after)
           notice == Notice("withdrawn-work", s, "eligible", after)
<1>1. after \in Rows
  BY InputFields
<1>2. Bound(after) => run \in Proposals
  BY DEF Bound, Run, Proposals
<1>3. Fitting(run, input)
  BY DEF Run, Fitting, Differs
<1>4. ~Eligible(after) => notice \in Proposals
  BY <1>1 DEF Eligible, Rows, Notice, Proposals
<1>5. Fitting(notice, input)
  BY DEF Notice, Fitting
<1>6. \/ ForWork(s, before, after) = <<run>> /\ Bound(after)
      \/ ForWork(s, before, after) = <<notice>> /\ ~Eligible(after)
      \/ ForWork(s, before, after) = << >>
  BY DEF ForWork
<1> HIDE DEF run, notice, after
<1>7. Range(<<run>>) = {run} /\ Range(<<notice>>) = {notice} /\ Range(<< >>) = {}
  <2>1. \A x : Range(<<x>>) = {x} /\ Range(<< >>) = {}
    BY DEF Range
  <2> QED
    BY <2>1
<1> DEFINE w == ForWork(s, before, after)
<1>8. w \in Seq(Proposals) /\ \A p \in Range(w) : Fitting(p, input)
  <2>1. CASE w = <<run>> /\ Bound(after)
    <3>1. <<run>> \in Seq(Proposals)
      BY <1>2, <2>1
    <3> QED
      BY <1>3, <1>7, <2>1, <3>1
  <2>2. CASE w = <<notice>> /\ ~Eligible(after)
    <3>1. <<notice>> \in Seq(Proposals)
      BY <1>4, <2>2
    <3> QED
      BY <1>5, <1>7, <2>2, <3>1
  <2>3. CASE w = << >>
    <3>1. << >> \in Seq(Proposals)
      OBVIOUS
    <3> QED
      BY <1>7, <2>3, <3>1
  <2> QED
    BY <1>6, <2>1, <2>2, <2>3
<1> QED
  BY <1>8 DEF after

\* and of a corpus that is refused.
LEMMA CorpusCalls ==
  ASSUME NEW last \in Refusals \cup {"answered", "none"}, NEW input \in Inputs
  PROVE  /\ ForCorpus(last, input.corpus) \in Seq(Proposals)
         /\ \A p \in Range(ForCorpus(last, input.corpus)) : Fitting(p, input)
<1> DEFINE notice == Notice("corpus-refusal", WholeCorpus, last, input.corpus)
<1>1. last # "none" /\ input.corpus \in Refusals => notice \in Proposals
  BY DEF Notice, Proposals
<1>2. Fitting(notice, input)
  BY DEF Notice, Fitting
<1>3. \/ ForCorpus(last, input.corpus) = <<notice>> /\ last # "none" /\ input.corpus \in Refusals
      \/ ForCorpus(last, input.corpus) = << >>
  BY DEF ForCorpus
<1> HIDE DEF notice
<1>4. Range(<<notice>>) = {notice} /\ Range(<< >>) = {}
  BY DEF Range
<1>5. CASE ForCorpus(last, input.corpus) = <<notice>> /\ last # "none" /\ input.corpus \in Refusals
  <2>1. <<notice>> \in Seq(Proposals)
    BY <1>1, <1>5
  <2> QED
    BY <1>2, <1>4, <1>5, <2>1
<1>6. CASE ForCorpus(last, input.corpus) = << >>
  <2>1. << >> \in Seq(Proposals)
    OBVIOUS
  <2> QED
    BY <1>4, <1>6, <2>1
<1> QED
  BY <1>3, <1>5, <1>6

\* What the change calls for fits the input it was read from.
LEMMA CandidatesFit ==
  ASSUME NEW last \in Refusals \cup {"answered", "none"}, NEW base \in [Corpus -> Rows], NEW input \in Inputs
  PROVE  /\ Candidates(last, base, input) \in Seq(Proposals)
         /\ \A i \in DOMAIN Candidates(last, base, input) : Fitting(Candidates(last, base, input)[i], input)
<1> DEFINE N == Len(SpecOrder)
           f == [i \in DOMAIN SpecOrder |-> ForMoved(SpecOrder[i], base[SpecOrder[i]], input.rows[SpecOrder[i]])]
           g == [i \in DOMAIN SpecOrder |-> ForWork(SpecOrder[i], base[SpecOrder[i]], input.rows[SpecOrder[i]])]
<1>1. N \in Nat /\ DOMAIN SpecOrder = 1 .. N /\ \A i \in 1 .. N : SpecOrder[i] \in Corpus
  <2>1. SpecOrder \in Seq(Corpus)
    BY ProposalLedgerAssumption DEF Corpus
  <2> QED
    BY <2>1
<1>2. \A i \in 1 .. N : base[SpecOrder[i]] \in Rows
  BY <1>1
<1>3. CASE Answered(input)
  <2>1. \A i \in 1 .. N : f[i] \in Seq(Proposals) /\ \A p \in Range(f[i]) : Fitting(p, input)
    BY <1>1, <1>2, <1>3, MovedCalls
  <2>2. \A i \in 1 .. N : g[i] \in Seq(Proposals) /\ \A p \in Range(g[i]) : Fitting(p, input)
    BY <1>1, <1>2, <1>3, WorkCalls
  <2>3. DOMAIN f = 1 .. N /\ DOMAIN g = 1 .. N /\ f = [i \in 1 .. N |-> f[i]] /\ g = [i \in 1 .. N |-> g[i]]
    BY <1>1
  <2>4. Candidates(last, base, input) = FlattenSeq(f) \o FlattenSeq(g)
    BY <1>3 DEF Candidates
  <2> HIDE DEF f, g, N
  <2>5. f \in [1 .. N -> Seq(Proposals)] /\ g \in [1 .. N -> Seq(Proposals)]
    BY <2>1, <2>2, <2>3
  <2>6. FlattenSeq(f) \in Seq(Proposals) /\ \A x : x \in Range(FlattenSeq(f)) <=> \E i \in 1 .. N : x \in Range(f[i])
    BY <1>1, <2>5, Flattened
  <2>7. FlattenSeq(g) \in Seq(Proposals) /\ \A x : x \in Range(FlattenSeq(g)) <=> \E i \in 1 .. N : x \in Range(g[i])
    BY <1>1, <2>5, Flattened
  <2> DEFINE c == FlattenSeq(f) \o FlattenSeq(g)
  <2>8. c \in Seq(Proposals) /\ \A x : x \in Range(c) <=> x \in Range(FlattenSeq(f)) \/ x \in Range(FlattenSeq(g))
    BY <2>6, <2>7, JoinedRange
  <2> HIDE DEF c
  <2>9. \A x \in Range(c) : Fitting(x, input)
    BY <2>1, <2>2, <2>6, <2>7, <2>8
  <2>10. \A i \in DOMAIN c : c[i] \in Range(c)
    BY DEF Range
  <2> QED
    BY <2>4, <2>8, <2>9, <2>10 DEF c
<1>4. CASE ~Answered(input)
  <2> DEFINE c == ForCorpus(last, input.corpus)
  <2>1. Candidates(last, base, input) = c
    BY <1>4 DEF Candidates
  <2>2. c \in Seq(Proposals) /\ \A p \in Range(c) : Fitting(p, input)
    BY CorpusCalls
  <2> HIDE DEF c
  <2>3. \A i \in DOMAIN c : c[i] \in Range(c)
    BY DEF Range
  <2> QED
    BY <2>1, <2>2, <2>3
<1> QED
  BY <1>3, <1>4

\* What was never appended of what the last observation called for, and nothing else.
LEMMA MissingFits ==
  ASSUME NEW n, LedgerOK(ledger, n)
  PROVE  /\ Missing \in Seq(Proposals)
         /\ Range(ledger.calls) \subseteq ledger.written \cup Range(Missing)
         /\ \A i \in DOMAIN Missing : Fitting(Missing[i], ledger.last)
<1> DEFINE c == ledger.calls
           N == Len(c)
           f == [i \in DOMAIN c |-> IF c[i] \in ledger.written THEN << >> ELSE <<c[i]>>]
<1>1. ledger \in PLLedgers /\ \A i \in DOMAIN ledger.calls : Fitting(ledger.calls[i], ledger.last)
  BY DEF LedgerOK
<1>2. c \in Seq(Proposals)
  BY <1>1, LedgerFields
<1>3. Missing = FlattenSeq(f)
  BY DEF Missing
<1>4. N \in Nat /\ DOMAIN c = 1 .. N /\ \A i \in 1 .. N : c[i] \in Proposals /\ Fitting(c[i], ledger.last)
  <2> HIDE DEF c
  <2>1. N \in Nat /\ DOMAIN c = 1 .. N /\ \A i \in 1 .. N : c[i] \in Proposals
    BY <1>2
  <2> QED
    BY <1>1, <2>1 DEF c
<1> HIDE DEF c, N
<1>5. f \in [1 .. N -> Seq(Proposals)]
  BY <1>4
<1>6. \A i \in 1 .. N : f[i] = IF c[i] \in ledger.written THEN << >> ELSE <<c[i]>>
  BY <1>4
<1> HIDE DEF f
<1>7. \A x : Range(<<x>>) = {x} /\ Range(<< >>) = {}
  BY DEF Range
<1>8. FlattenSeq(f) \in Seq(Proposals) /\ \A x : x \in Range(FlattenSeq(f)) <=> \E i \in 1 .. N : x \in Range(f[i])
  BY <1>4, <1>5, Flattened
<1>9. \A x \in Range(FlattenSeq(f)) : Fitting(x, ledger.last)
  <2>1. \A i \in 1 .. N : \A x \in Range(f[i]) : x = c[i]
    <3> TAKE i \in 1 .. N
    <3>1. Range(<<c[i]>>) = {c[i]}
      BY <1>7
    <3> QED
      BY <1>6, <1>7, <3>1
  <2> TAKE x \in Range(FlattenSeq(f))
  <2>2. PICK i \in 1 .. N : x \in Range(f[i])
    BY <1>8
  <2>3. x = c[i]
    BY <2>1, <2>2
  <2> QED
    BY <1>4, <2>3
<1>10. Range(c) \subseteq ledger.written \cup Range(FlattenSeq(f))
  <2> SUFFICES ASSUME NEW i \in 1 .. N, c[i] \notin ledger.written PROVE c[i] \in Range(FlattenSeq(f))
    BY <1>4 DEF Range
  <2>1. c[i] \in Range(f[i])
    BY <1>6, <1>7
  <2> QED
    BY <1>8, <2>1
<1>11. \A i \in DOMAIN FlattenSeq(f) : FlattenSeq(f)[i] \in Range(FlattenSeq(f))
  BY DEF Range
<1> QED
  BY <1>3, <1>8, <1>9, <1>10, <1>11 DEF c

\* The admissions dead writers left are settled, each by the run record.
LEMMA RecoveryLeads ==
  ASSUME intents \in [Proposals -> 0 .. 1], LedgerOK(ledger, intents)
  PROVE  /\ Recovery \in Seq(About) /\ Settling(Recovery)
         /\ \E m \in PLLedgers : Leads(ledger, Recovery, m, intents) /\ (OneLive(ledger) => Calm(m))
<1> DEFINE held == {q \in Proposals : ledger.state[q] = "admitting"}
           S == {Settled(p) : p \in held}
           s == Recovery
           v == [q \in Proposals |-> IF intents[q] > 0 THEN "admitted" ELSE "open"]
           m == WithState(ledger, Marks(ledger, s, v, Len(s)))
<1>1. ledger \in PLLedgers /\ ledger.state \in [Proposals -> PLStates]
  BY LedgerFields DEF LedgerOK
<1>2. s = SetToSeq(S)
  BY DEF Recovery
<1> HIDE DEF s
<1>3. IsFiniteSet(S)
  <2>1. held \subseteq KnownTo(ledger) /\ IsFiniteSet(KnownTo(ledger))
    BY DEF KnownTo, LedgerOK
  <2>2. IsFiniteSet(held)
    BY <2>1, FS_Subset
  <2> DEFINE g == [q \in held |-> Settled(q)]
  <2>3. g \in Surjection(held, S)
    BY DEF Surjection
  <2> QED
    BY <2>2, <2>3, FS_Surjection DEF ExistsSurjection
<1>4. \A q \in held : /\ Settled(q).proposal = q /\ Settled(q) \in About
                      /\ Settled(q).entry = IF intents[q] > 0 THEN "admitted" ELSE "released"
  BY DEF Settled, Entry, About, Dispositions
<1>5. \A e \in S : /\ e \in About /\ e.proposal \in held /\ e = Settled(e.proposal)
                   /\ e.entry = IF intents[e.proposal] > 0 THEN "admitted" ELSE "released"
  BY <1>4
<1>18. \A q \in held : Settled(q) \in S
  OBVIOUS
<1> HIDE DEF S
<1>6. s \in Seq(S) /\ \A i \in 1 .. Len(s) : s[i] \in S
  BY <1>2, <1>3, Listed
<1>7. \A i, j \in 1 .. Len(s) : s[i] = s[j] => i = j
  BY <1>2, <1>3, Listed
<1>8. \A q \in held : \E i \in 1 .. Len(s) : s[i] = Settled(q)
  <2>1. \A x \in S : \E i \in 1 .. Len(s) : s[i] = x
    BY <1>2, <1>3, Listed
  <2> QED
    BY <1>18, <2>1
<1>9. s \in Seq(About)
  BY <1>5, <1>6, SeqMonotonic
<1>10. \A i \in 1 .. Len(s) : /\ s[i] \in About /\ s[i].proposal \in held
                             /\ s[i].entry = IF intents[s[i].proposal] > 0 THEN "admitted" ELSE "released"
  BY <1>5, <1>6
<1>11. \A i, j \in 1 .. Len(s) : s[i].proposal = s[j].proposal => i = j
  <2> TAKE i, j \in 1 .. Len(s)
  <2>1. s[i] = Settled(s[i].proposal) /\ s[j] = Settled(s[j].proposal)
    BY <1>5, <1>6
  <2>2. s[i].proposal = s[j].proposal => s[i] = s[j]
    BY <2>1
  <2> QED
    BY <1>7, <2>2
<1>12. \A i \in 1 .. Len(s) : /\ s[i].entry \in {"superseded", "released", "admitted"}
                             /\ Rightful(ledger, s[i], intents)
                             /\ v[s[i].proposal] = IF s[i].entry = "released" THEN "open" ELSE s[i].entry
  <2> TAKE i \in 1 .. Len(s)
  <2> DEFINE e == s[i]
  <2>1. /\ e \in About /\ e.proposal \in Proposals /\ ledger.state[e.proposal] = "admitting"
        /\ e.entry = IF intents[e.proposal] > 0 THEN "admitted" ELSE "released"
    BY <1>10
  <2> HIDE DEF e
  <2>2. intents[e.proposal] \in 0 .. 1
    BY <2>1
  <2>3. Rightful(ledger, e, intents)
    BY <2>1, <2>2 DEF Rightful
  <2>4. v[e.proposal] = IF intents[e.proposal] > 0 THEN "admitted" ELSE "open"
    BY <2>1
  <2> HIDE DEF v
  <2>5. /\ e.entry \in {"superseded", "released", "admitted"}
        /\ v[e.proposal] = IF e.entry = "released" THEN "open" ELSE e.entry
    BY <2>1, <2>4
  <2> QED
    BY <2>3, <2>5 DEF e
<1>13. v \in [Proposals -> PLStates]
  BY DEF PLStates
<1> HIDE DEF m
<1>14. m \in PLLedgers /\ Leads(ledger, s, m, intents)
  <2> HIDE DEF v
  <2> QED
    BY <1>1, <1>9, <1>11, <1>12, <1>13, MarksLead DEF m
<1>15. \A q \in Proposals : m.state[q] = IF q \in held THEN v[q] ELSE ledger.state[q]
  <2>1. \A q \in Proposals : (\E i \in 1 .. Len(s) : s[i].proposal = q) <=> q \in held
    <3>1. \A q \in held : \E i \in 1 .. Len(s) : s[i].proposal = q
      BY <1>4, <1>8
    <3> QED
      BY <1>10, <3>1
  <2> DEFINE st == Marks(ledger, s, v, Len(s))
  <2> HIDE DEF v, held
  <2>2. st = [q \in Proposals |-> IF q \in held THEN v[q] ELSE ledger.state[q]]
    BY <2>1 DEF Marks
  <2>3. st \in [Proposals -> PLStates]
    BY <1>1, <1>13, <2>2
  <2>4. m = WithState(ledger, st)
    BY DEF m
  <2> HIDE DEF st
  <2>5. m.state = st
    BY <1>1, <2>3, <2>4, WithStates
  <2> QED
    BY <2>2, <2>5
<1>16. ASSUME OneLive(ledger) PROVE Calm(m)
  <2>1. \A q \in Proposals : /\ m.state[q] # "admitting"
                             /\ m.state[q] = "open" => ledger.state[q] \in {"open", "admitting"}
    BY <1>15
  <2> QED
    BY <1>16, <2>1 DEF Calm, OneLive, Live
<1>17. Settling(s)
  <2>1. DOMAIN s = 1 .. Len(s)
    BY <1>9
  <2> QED
    BY <1>10, <2>1 DEF Settling
<1> QED
  BY <1>9, <1>14, <1>16, <1>17 DEF s

------------------------------------------------------------------------------
(* Every step keeps the invariant.                                         *)

\* What a writer is made of.
LEMMA WriterFields ==
  ASSUME NEW x \in Writers
  PROVE  /\ x.verb \in {"none", "observe", "close", "admit"}
         /\ x.at \in {"free", "recovering", "observed", "closed", "admitting", "entered", "disposed"}
         /\ x.todo \in Seq(About \cup Observations) /\ x.target \in Refs \cup {NoRef} \cup Proposals
         /\ x.read \in Inputs \cup {NoObservation}
         /\ x = [verb |-> x.verb, at |-> x.at, todo |-> x.todo, target |-> x.target, read |-> x.read]
  BY DEF Writers

\* A list of entries that are about one proposal is a list a writer may hold.
LEMMA AboutLists ==
  ASSUME NEW s \in Seq(About)
  PROVE  s \in Seq(About \cup Observations)
  BY SeqMonotonic

\* What holds of the empty list.
LEMMA Nothing ==
  /\ << >> \in Seq(About) /\ Settling(<< >>) /\ Called(<< >>) = {} /\ \A input : AllForInput(<< >>, input)
  BY DEF Settling, Called, AllForInput

\* One entry that settles.
LEMMA OneSettles ==
  ASSUME NEW e \in About, e.entry \notin {"proposed", "recurred", "superseded"}
  PROVE  <<e>> \in Seq(About) /\ Settling(<<e>>)
<1>1. DOMAIN <<e>> = {1} /\ <<e>>[1] = e
  OBVIOUS
<1> QED
  BY <1>1 DEF Settling

\* What a writer that goes on keeps.
LEMMA GotoFields ==
  ASSUME writer \in Writers, NEW at, NEW todo, Goto(at, todo)
  PROVE  /\ writer'.verb = writer.verb /\ writer'.at = at /\ writer'.todo = todo
         /\ writer'.target = writer.target /\ writer'.read = writer.read
         /\ writer' = [verb |-> writer.verb, at |-> at, todo |-> todo, target |-> writer.target, read |-> writer.read]
<1>1. writer = [verb |-> writer.verb, at |-> writer.at, todo |-> writer.todo,
                target |-> writer.target, read |-> writer.read]
  BY WriterFields
<1>2. writer' = [[writer EXCEPT !.at = at] EXCEPT !.todo = todo]
  BY DEF Goto
<1>3. [writer EXCEPT !.at = at]
      = [verb |-> writer.verb, at |-> at, todo |-> writer.todo, target |-> writer.target, read |-> writer.read]
  BY <1>1
<1> DEFINE y == [writer EXCEPT !.at = at]
<1> HIDE DEF y
<1>4. writer' = [y EXCEPT !.todo = todo]
  BY <1>2 DEF y
<1>5. y = [verb |-> writer.verb, at |-> at, todo |-> writer.todo, target |-> writer.target, read |-> writer.read]
  BY <1>3 DEF y
<1>6. writer' = [verb |-> writer.verb, at |-> at, todo |-> todo, target |-> writer.target, read |-> writer.read]
  BY <1>4, <1>5
<1> QED
  BY <1>6

\* A writer whose list is written out leaves the chain as it is.
LEMMA NothingLeft ==
  ASSUME ProposalInv, writer.todo = << >>, deaths = 0
  PROVE  EndsWell(ledger, writer)
<1>1. PICK m \in PLLedgers : Leads(ledger, writer.todo, m, intents) /\ (deaths = 0 => EndsWell(m, writer))
  BY DEF ProposalInv, WriterFits
<1>2. m = ledger
  <2>1. ledger \in PLLedgers
    BY DEF ProposalInv, LedgerOK
  <2>2. Leads(ledger, << >>, m, intents)
    BY <1>1
  <2> QED
    BY <2>1, <2>2, LeadsNowhere
<1> QED
  BY <1>1, <1>2

\* A step of the writer that appends nothing.
LEMMA OnlyWrites ==
  ASSUME ProposalInv, UNCHANGED <<world, ledger, intents>>, deaths' \in Nat, interrupted' \in BOOLEAN,
         WriterFits(ledger, writer', intents, deaths', interrupted')
  PROVE  ProposalInv'
  BY DEF ProposalInv

\* The lock is free again.
LEMMA Frees ==
  ASSUME ProposalInv, UNCHANGED <<world, ledger, intents>>, deaths' \in Nat, interrupted' \in BOOLEAN,
         writer' = Free, ~interrupted' => Range(ledger.calls) \subseteq ledger.written,
         deaths' = 0 => Calm(ledger)
  PROVE  ProposalInv'
<1>1. Free \in Writers /\ Standing(Free) /\ Free.at = "free" /\ Free.todo = << >>
  <2>1. << >> \in Seq(About \cup Observations)
    OBVIOUS
  <2> QED
    BY <2>1 DEF Free, Writers, Standing
<1>2. ledger \in PLLedgers
  BY DEF ProposalInv, LedgerOK
<1>3. Leads(ledger, << >>, ledger, intents)
  BY <1>2, LeadsNowhere
<1>4. deaths' = 0 => EndsWell(ledger, Free)
  BY DEF Calm, EndsWell
<1>5. WriterFits(ledger, Free, intents, deaths', interrupted')
  BY <1>1, <1>2, <1>3, <1>4, Nothing DEF WriterFits
<1> QED
  BY <1>5, OnlyWrites

\* An answer is the last observation, and what it calls for is in the chain.
LEMMA ObservedOut ==
  ASSUME ProposalInv, writer.at = "observed", writer.todo = << >>
  PROVE  /\ ledger.last = writer.read /\ writer.read \in Inputs
         /\ Range(ledger.calls) \subseteq ledger.written
<1>1. Observing(ledger, writer)
  BY DEF ProposalInv, WriterFits
<1> QED
  BY <1>1, Nothing DEF Observing

\* The chain is calm whenever no admission is under way and nobody was killed.
LEMMA CalmNow ==
  ASSUME ProposalInv, writer.todo = << >>, writer.at \notin {"admitting", "entered"}, deaths = 0
  PROVE  Calm(ledger)
  BY NothingLeft DEF EndsWell, Calm

\* The empty chain, its lock free.
LEMMA PLInits ==
  ASSUME PLInit
  PROVE  ProposalInv
<1>1. ledger \in PLLedgers
  <2>1. << >> \in Seq(Proposals) /\ [s \in Corpus |-> "absent"] \in [Corpus -> Rows]
    BY DEF Rows
  <2>2. /\ [p \in Proposals |-> "none"] \in [Proposals -> PLStates]
        /\ [p \in Proposals |-> NoRef] \in [Proposals -> Refs \cup {NoRef}]
    BY DEF PLStates
  <2> QED
    BY <2>1, <2>2 DEF PLInit, EmptyLedger, PLLedgers
<1>2. /\ ledger.last = NoObservation /\ ledger.calls = << >> /\ \A p \in Proposals : ledger.state[p] = "none"
  BY DEF PLInit, EmptyLedger
<1>3. KnownTo(ledger) = {}
  BY <1>2 DEF KnownTo
<1>4. LedgerOK(ledger, intents)
  <2>1. \A p \in Proposals : ~(intents[p] > 0)
    BY DEF PLInit
  <2> QED
    BY <1>1, <1>2, <1>3, <2>1, FS_EmptySet DEF LedgerOK
<1>5. Calm(ledger)
  BY <1>2 DEF Calm, OneLive, Live
<1>6. Range(ledger.calls) \subseteq ledger.written
  BY <1>2 DEF Range
<1>7. Free \in Writers /\ Standing(Free) /\ Free.at = "free" /\ Free.todo = << >>
  <2>1. << >> \in Seq(About \cup Observations)
    OBVIOUS
  <2> QED
    BY <2>1 DEF Free, Writers, Standing
<1>8. Leads(ledger, << >>, ledger, intents)
  BY <1>1, LeadsNowhere
<1>9. EndsWell(ledger, Free)
  BY <1>5 DEF Calm, EndsWell
<1>10. WriterFits(ledger, Free, intents, deaths, interrupted)
  BY <1>1, <1>6, <1>7, <1>8, <1>9, Nothing DEF WriterFits
<1>11. intents \in [Proposals -> 0 .. 1] /\ world \in [Refs -> Inputs] /\ deaths \in Nat /\ interrupted \in BOOLEAN
  <2>1. [p \in Proposals |-> 0] \in [Proposals -> 0 .. 1]
    OBVIOUS
  <2>2. intents = [p \in Proposals |-> 0] /\ world \in [Refs -> Inputs] /\ deaths = 0 /\ interrupted = FALSE
    BY DEF PLInit
  <2> QED
    BY <2>1, <2>2
<1>12. writer = Free
  BY DEF PLInit
<1> QED
  BY <1>4, <1>10, <1>11, <1>12 DEF ProposalInv

\* A verb that begins knows that what it appends first settles what dead writers held.
LEMMA BeginsKeeps ==
  ASSUME ProposalInv, NEW verb, NEW target, Begins(verb, target),
         (verb = "observe" /\ target \in Refs) \/ (verb \in {"admit", "close"} /\ target \in Proposals)
  PROVE  ProposalInv'
<1>1. /\ intents \in [Proposals -> 0 .. 1] /\ deaths \in Nat /\ interrupted \in BOOLEAN
      /\ LedgerOK(ledger, intents) /\ WriterFits(ledger, writer, intents, deaths, interrupted)
  BY DEF ProposalInv
<1>2. writer = Free /\ UNCHANGED <<world, ledger, intents, deaths, interrupted>>
  BY DEF Begins
<1>3. writer' = [verb |-> verb, at |-> "recovering", todo |-> Recovery, target |-> target, read |-> NoObservation]
  BY DEF Begins, Free
<1>4. writer.at = "free" /\ writer.todo = << >>
  BY <1>2 DEF Free
<1>5. Recovery \in Seq(About) /\ Settling(Recovery)
  BY <1>1, RecoveryLeads
<1>6. PICK m \in PLLedgers : Leads(ledger, Recovery, m, intents) /\ (OneLive(ledger) => Calm(m))
  BY <1>1, RecoveryLeads
<1> DEFINE todo == Recovery
<1> HIDE DEF todo
<1>7. /\ writer'.verb = verb /\ writer'.at = "recovering" /\ writer'.todo = todo
      /\ writer'.target = target
  BY <1>3 DEF todo
<1>8. writer' \in Writers
  <2>1. todo \in Seq(About \cup Observations)
    BY <1>5, AboutLists DEF todo
  <2> QED
    BY <1>3, <2>1 DEF Writers, todo
<1>9. Standing(writer')
  BY <1>7 DEF Standing
<1>10. ~interrupted => Range(ledger.calls) \subseteq ledger.written
  BY <1>1, <1>4 DEF WriterFits
<1>11. deaths = 0 => EndsWell(m, writer')
  <2>1. deaths = 0 => OneLive(ledger)
    BY <1>4, CalmNow DEF Calm
  <2> QED
    BY <1>6, <1>7, <2>1 DEF Calm, EndsWell
<1>12. WriterFits(ledger, writer', intents, deaths, interrupted)
  BY <1>5, <1>6, <1>7, <1>8, <1>9, <1>10, <1>11 DEF WriterFits, todo
<1> QED
  BY <1>1, <1>2, <1>12, OnlyWrites

\* The next entry of the list: rightful where the chain is now, and the rest leads where it led.
LEMMA AppendsKeeps ==
  ASSUME ProposalInv, Appends
  PROVE  ProposalInv'
<1> DEFINE e == Head(writer.todo)
           l == ledger'
           rest == Tail(writer.todo)
<1>1. /\ intents \in [Proposals -> 0 .. 1] /\ deaths \in Nat /\ interrupted \in BOOLEAN /\ world \in [Refs -> Inputs]
      /\ LedgerOK(ledger, intents) /\ WriterFits(ledger, writer, intents, deaths, interrupted)
  BY DEF ProposalInv
<1>2. /\ writer.todo # << >> /\ l = Apply(ledger, e) /\ UNCHANGED <<world, intents, deaths, interrupted>>
  BY DEF Appends
<1>3. writer \in Writers /\ Standing(writer) /\ ledger \in PLLedgers
  BY <1>1 DEF WriterFits, LedgerOK
<1>4. writer' = [verb |-> writer.verb, at |-> writer.at, todo |-> rest, target |-> writer.target, read |-> writer.read]
  <2>1. writer = [verb |-> writer.verb, at |-> writer.at, todo |-> writer.todo,
                  target |-> writer.target, read |-> writer.read]
    BY <1>3, WriterFields
  <2>2. writer' = [writer EXCEPT !.todo = rest]
    BY DEF Appends
  <2> HIDE DEF rest
  <2> QED
    BY <2>1, <2>2
<1> HIDE DEF l
<1>5. writer.todo \in Seq(About \cup Observations)
  BY <1>3, WriterFields
<1>6. /\ e = writer.todo[1] /\ e \in About \cup Observations /\ rest \in Seq(About \cup Observations)
      /\ 1 \in DOMAIN writer.todo
      /\ \A i \in DOMAIN rest : i + 1 \in DOMAIN writer.todo /\ rest[i] = writer.todo[i + 1]
      /\ \A i \in DOMAIN writer.todo : i # 1 => i - 1 \in DOMAIN rest /\ rest[i - 1] = writer.todo[i]
  <2> DEFINE s == writer.todo
  <2>1. s \in Seq(About \cup Observations) /\ s # << >>
    BY <1>2, <1>5
  <2> HIDE DEF s
  <2> DEFINE b == Len(s) - 1
             r == Tail(s)
             h == Head(s)
  <2>2. /\ b \in Nat /\ DOMAIN s = 1 .. b + 1 /\ DOMAIN r = 1 .. b /\ \A i \in 1 .. b : r[i] = s[i + 1]
        /\ h = s[1] /\ r \in Seq(About \cup Observations) /\ h \in About \cup Observations
    BY <2>1
  <2> HIDE DEF b, r, h
  <2>3. /\ \A i \in 1 .. b : i + 1 \in 1 .. b + 1 /\ r[i] = s[i + 1]
        /\ 1 \in 1 .. b + 1
    BY <2>2
  <2>4. \A i \in 1 .. b + 1 : i # 1 => i - 1 \in 1 .. b /\ r[i - 1] = s[i]
    <3> TAKE i \in 1 .. b + 1
    <3>1. i # 1 => i - 1 \in 1 .. b /\ (i - 1) + 1 = i
      BY <2>2
    <3> QED
      BY <2>2, <3>1
  <2> QED
    BY <2>2, <2>3, <2>4 DEF s, r, h
<1>7. PICK m \in PLLedgers : Leads(ledger, writer.todo, m, intents) /\ (deaths = 0 => EndsWell(m, writer))
  BY <1>1 DEF WriterFits
<1>8. Rightful(ledger, e, intents) /\ Leads(l, rest, m, intents)
  BY <1>2, <1>5, <1>7, LeadsTail
<1> HIDE DEF e, rest
<1>9. LedgerOK(l, intents)
  BY <1>1, <1>2, <1>8, ApplyKeeps
<1>10. /\ writer'.verb = writer.verb /\ writer'.at = writer.at /\ writer'.todo = rest
       /\ writer'.target = writer.target /\ writer'.read = writer.read
  BY <1>4
<1>11. writer' \in Writers
  <2>1. /\ writer.verb \in {"none", "observe", "close", "admit"}
        /\ writer.at \in {"free", "recovering", "observed", "closed", "admitting", "entered", "disposed"}
        /\ writer.target \in Refs \cup {NoRef} \cup Proposals /\ writer.read \in Inputs \cup {NoObservation}
    BY <1>3, WriterFields
  <2> QED
    BY <1>4, <1>6, <2>1 DEF Writers
<1>12. Standing(writer')
  <2>1. writer # Free
    BY <1>2 DEF Free
  <2> QED
    BY <1>3, <1>10, <2>1 DEF Standing
<1>13. ASSUME writer.at # "observed"
       PROVE  Settling(rest) /\ (~interrupted => Range(l.calls) \subseteq l.written)
  <2>1. Settling(writer.todo) /\ (~interrupted => Range(ledger.calls) \subseteq ledger.written)
    BY <1>1, <1>13 DEF WriterFits
  <2>2. Settling(rest)
    BY <1>6, <2>1 DEF Settling
  <2>3. e \in About /\ e.entry \notin {"proposed", "recurred", "superseded"}
    BY <1>6, <2>1 DEF Settling
  <2>4. l.calls = ledger.calls /\ l.written = ledger.written
    BY <1>2, <1>3, <2>3, ApplyAbout
  <2> QED
    BY <2>1, <2>2, <2>4
<1>14. ASSUME writer.at = "observed" PROVE Observing(l, writer')
  <2>1. Observing(ledger, writer)
    BY <1>1, <1>14 DEF WriterFits
  <2>2. CASE /\ ledger.last = writer.read /\ AllForInput(writer.todo, writer.read)
             /\ Range(ledger.calls) \subseteq ledger.written \cup Called(writer.todo)
    <3>1. ForInput(e, writer.read) /\ AllForInput(rest, writer.read)
      BY <1>6, <2>2 DEF AllForInput
    <3>2. e \in About
      BY <3>1 DEF ForInput
    <3>3. l.last = ledger.last /\ l.calls = ledger.calls
      BY <1>2, <1>3, <3>2, ApplyAbout
    <3>4. l.written = IF e.entry \in {"proposed", "recurred"} THEN ledger.written \cup {e.proposal} ELSE ledger.written
      BY <1>2, <1>3, <3>2, ApplyAbout
    <3>5. Called(writer.todo) \subseteq Called(rest)
                                         \cup (IF e.entry \in {"proposed", "recurred"} THEN {e.proposal} ELSE {})
      <4> SUFFICES ASSUME NEW i \in DOMAIN writer.todo, writer.todo[i].entry \in {"proposed", "recurred"}
                   PROVE  writer.todo[i].proposal \in Called(rest)
                                         \cup (IF e.entry \in {"proposed", "recurred"} THEN {e.proposal} ELSE {})
        BY DEF Called
      <4>1. CASE i = 1
        BY <1>6, <4>1
      <4>2. CASE i # 1
        <5>1. i - 1 \in DOMAIN rest /\ rest[i - 1] = writer.todo[i]
          BY <1>6, <4>2
        <5>2. writer.todo[i].proposal \in Called(rest)
          BY <5>1 DEF Called
        <5> QED
          BY <5>2
      <4> QED
        BY <4>1, <4>2
    <3>6. Range(l.calls) \subseteq l.written \cup Called(rest)
      BY <2>2, <3>3, <3>4, <3>5
    <3> QED
      BY <1>10, <2>1, <2>2, <3>1, <3>3, <3>6 DEF Observing
  <2>3. CASE /\ e \in Observations /\ e.input = writer.read
             /\ AllForInput(rest, writer.read) /\ Range(e.calls) \subseteq Called(rest)
    <3>1. l.last = writer.read /\ l.calls = e.calls
      BY <1>2, <1>3, <2>3, ApplyObserved
    <3> QED
      BY <1>10, <2>1, <2>3, <3>1 DEF Observing
  <2> QED
    BY <2>1, <2>2, <2>3 DEF Observing, e, rest
<1>15. ASSUME writer.at = "observed", writer.verb = "admit" PROVE Admits(l, writer')
  <2>1. Admits(ledger, writer)
    BY <1>1, <1>15 DEF WriterFits
  <2>2. writer.target \in Proposals
    BY <1>3, <1>15 DEF Standing, Free
  <2>3. Observing(ledger, writer)
    BY <1>1, <1>15 DEF WriterFits
  <2>4. CASE e \in Observations
    <3>1. l.state = ledger.state
      BY <1>2, <1>3, <2>4, ApplyObserved
    <3> QED
      BY <1>10, <2>1, <3>1 DEF Admits
  <2>5. CASE ForInput(e, writer.read)
    <3>1. e \in About /\ e.proposal \in Proposals
      BY <2>5 DEF ForInput, About
    <3>2. /\ l.state = [ledger.state EXCEPT ![e.proposal] = NewState(ledger, e)]
          /\ ledger.state \in [Proposals -> PLStates]
      <4>1. ledger.state \in [Proposals -> PLStates]
        BY <1>3, LedgerFields
      <4>2. Apply(ledger, e).state = [ledger.state EXCEPT ![e.proposal] = NewState(ledger, e)]
        BY <1>3, <3>1, ApplyAbout
      <4> QED
        BY <1>2, <4>1, <4>2
    <3>3. CASE e.proposal # writer.target
      <4>1. l.state[writer.target] = ledger.state[writer.target]
        BY <2>2, <3>2, <3>3
      <4> QED
        BY <1>10, <2>1, <4>1 DEF Admits
    <3>4. CASE e.proposal = writer.target
      <4>1. l.state[writer.target] = NewState(ledger, e)
        BY <2>2, <3>2, <3>4
      <4>2. CASE e.entry \in {"proposed", "recurred"}
        <5>1. NewState(ledger, e) = "open"
          BY <2>1, <3>4, <4>2 DEF NewState, Admits, Reopens
        <5> QED
          BY <1>10, <2>1, <4>1, <5>1 DEF Admits
      <4>3. CASE e.entry = "superseded" /\ ~Fitting(e.proposal, writer.read)
        <5>1. NewState(ledger, e) = "superseded" /\ Differs(writer.target, writer.read)
          BY <3>4, <4>3 DEF NewState, Fitting
        <5> QED
          BY <1>10, <2>1, <4>1, <5>1 DEF Admits
      <4> QED
        BY <2>5, <4>2, <4>3 DEF ForInput
    <3> QED
      BY <3>3, <3>4
  <2>6. e \in Observations \/ ForInput(e, writer.read)
    BY <1>6, <2>3 DEF Observing, AllForInput, e
  <2> QED
    BY <2>4, <2>5, <2>6
<1>16. ASSUME writer.at \in {"admitting", "entered"} PROVE Holds(l, writer')
  <2>1. Holds(ledger, writer)
    BY <1>1, <1>16 DEF WriterFits
  <2>2. writer.target \in Proposals
    BY <1>3, <1>16 DEF Standing, Free
  <2>3. writer.at = "admitting" /\ writer.todo = <<Entry("admitting", writer.target, NoRef)>>
    BY <1>2, <2>1 DEF Holds
  <2>4. e = Entry("admitting", writer.target, NoRef) /\ rest = << >>
    BY <2>3 DEF e, rest
  <2>5. e \in About /\ e.proposal = writer.target /\ e.entry = "admitting"
    BY <2>2, <2>4 DEF Entry, About, Dispositions
  <2>6. /\ l.state = [ledger.state EXCEPT ![e.proposal] = NewState(ledger, e)]
        /\ ledger.state \in [Proposals -> PLStates]
    <3>1. ledger.state \in [Proposals -> PLStates]
      BY <1>3, LedgerFields
    <3>2. Apply(ledger, e).state = [ledger.state EXCEPT ![e.proposal] = NewState(ledger, e)]
      BY <1>3, <2>5, ApplyAbout
    <3> QED
      BY <1>2, <3>1, <3>2
  <2>7. l.state[writer.target] = "admitting"
    BY <2>2, <2>5, <2>6 DEF NewState
  <2> QED
    BY <1>10, <2>1, <2>4, <2>7 DEF Holds
<1>17. writer.at = "admitting" => intents[writer.target] = 0
  BY <1>1 DEF WriterFits
<1>18. deaths = 0 => EndsWell(m, writer')
  BY <1>7, <1>10 DEF EndsWell
<1>19. WriterFits(l, writer', intents, deaths, interrupted)
  BY <1>8, <1>10, <1>11, <1>12, <1>13, <1>14, <1>15, <1>16, <1>17, <1>18 DEF WriterFits
<1> QED
  BY <1>1, <1>2, <1>9, <1>19 DEF ProposalInv, l

\* A list after an observation.
LEMMA After ==
  ASSUME NEW e \in Observations, NEW s \in Seq(About)
  PROVE  /\ <<e>> \o s \in Seq(About \cup Observations) /\ <<e>> \o s # << >>
         /\ Head(<<e>> \o s) = e /\ Tail(<<e>> \o s) = s
<1> DEFINE S == About \cup Observations
<1>1. e \in S /\ s \in Seq(S)
  BY AboutLists
<1> HIDE DEF S
<1> DEFINE u == <<e>> \o s
           b == Len(s)
           r == Tail(u)
<1>2. /\ u \in Seq(S) /\ b \in Nat /\ Len(u) = b + 1 /\ u[1] = e
      /\ \A i \in 1 .. b + 1 : i # 1 => u[i] = s[i - 1]
  BY <1>1
<1> HIDE DEF u, b
<1>3. u # << >> /\ Head(u) = e
  BY <1>2
<1>4. /\ r \in Seq(S) /\ Len(r) = b /\ \A i \in 1 .. b : r[i] = u[i + 1]
  BY <1>2
<1> HIDE DEF r
<1>5. \A i \in 1 .. b : r[i] = s[i]
  <2> TAKE i \in 1 .. b
  <2>1. i + 1 \in 1 .. b + 1 /\ i + 1 # 1 /\ (i + 1) - 1 = i
    BY <1>2
  <2>2. u[i + 1] = s[(i + 1) - 1]
    BY <1>2, <2>1
  <2> QED
    BY <1>4, <2>1, <2>2
<1>6. r = s
  <2>1. Len(s) = b
    BY DEF b
  <2> QED
    BY <1>1, <1>4, <1>5, <2>1
<1> QED
  BY <1>2, <1>3, <1>6 DEF u, r, S

\* An observation plans for what it read: over the chain when it is the same again,
LEMMA SameAgain ==
  ASSUME ProposalInv, writer.todo = << >>, writer.at = "recovering", NEW ref \in Refs, world[ref] = ledger.last
  PROVE  LET todo == Plan(ledger, ledger.lastRef, Missing) IN
         /\ todo \in Seq(About) /\ AllForInput(todo, world[ref])
         /\ Range(ledger.calls) \subseteq ledger.written \cup Called(todo)
         /\ \E m \in PLLedgers : Leads(ledger, todo, m, intents) /\ (Calm(ledger) => Calm(m))
<1>1. LedgerOK(ledger, intents) /\ world[ref] \in Inputs
  BY DEF ProposalInv
<1>2. ledger.last # NoObservation
  BY <1>1, InputFields
<1>3. ledger.lastRef \in Refs
  BY <1>1, <1>2 DEF LedgerOK
<1>4. /\ Missing \in Seq(Proposals) /\ Range(ledger.calls) \subseteq ledger.written \cup Range(Missing)
      /\ \A i \in DOMAIN Missing : Fitting(Missing[i], world[ref])
  BY <1>1, MissingFits
<1> DEFINE todo == Plan(ledger, ledger.lastRef, Missing)
<1>5. /\ todo \in Seq(About) /\ AllForInput(todo, world[ref]) /\ Range(Missing) \subseteq Called(todo)
      /\ \E m \in PLLedgers : Leads(ledger, todo, m, intents) /\ LedgerOK(m, intents) /\ (Calm(ledger) => Calm(m))
  BY <1>1, <1>3, <1>4, PlanLeads
<1> HIDE DEF todo
<1>6. Range(ledger.calls) \subseteq ledger.written \cup Called(todo)
  BY <1>4, <1>5
<1> QED
  BY <1>5, <1>6 DEF todo

\* and over the chain with the new observation otherwise.
LEMMA ReadAnew ==
  ASSUME ProposalInv, NEW ref \in Refs, NEW calls, calls = Candidates(ledger.last.corpus, ledger.base, world[ref]),
         NEW e, e = Observes(world[ref], ref, calls)
  PROVE  LET plan == Plan(Apply(ledger, e), ref, calls) IN
         /\ e \in Observations /\ e.input = world[ref] /\ Range(e.calls) \subseteq Called(plan)
         /\ plan \in Seq(About) /\ AllForInput(plan, world[ref])
         /\ \E m \in PLLedgers : Leads(ledger, <<e>> \o plan, m, intents) /\ (Calm(ledger) => Calm(m))
<1> DEFINE l == Apply(ledger, e)
           plan == Plan(l, ref, calls)
<1>1. LedgerOK(ledger, intents) /\ world[ref] \in Inputs /\ ledger \in PLLedgers
  BY DEF ProposalInv, LedgerOK
<1>2. ledger.last.corpus \in Refusals \cup {"answered", "none"} /\ ledger.base \in [Corpus -> Rows]
  <2>1. ledger.last \in Inputs \cup {NoObservation} /\ ledger.base \in [Corpus -> Rows]
    BY <1>1, LedgerFields
  <2>2. NoObservation.corpus = "none"
    BY DEF NoObservation
  <2> QED
    BY <2>1, <2>2, InputFields
<1>3. calls \in Seq(Proposals) /\ \A i \in DOMAIN calls : Fitting(calls[i], world[ref])
  BY <1>1, <1>2, CandidatesFit
<1>4. e \in Observations /\ e.input = world[ref] /\ e.calls = calls
  BY <1>1, <1>3 DEF Observes, Observations
<1>5. Rightful(ledger, e, intents)
  BY <1>3, <1>4 DEF Rightful
<1>6. LedgerOK(l, intents) /\ l \in PLLedgers
  BY <1>1, <1>5, ApplyKeeps DEF LedgerOK
<1>7. Calm(ledger) => Calm(l)
  <2>1. l.state = ledger.state
    BY <1>1, <1>4, ApplyObserved
  <2> QED
    BY <2>1 DEF Calm, OneLive, Live
<1>8. Leads(ledger, <<e>>, l, intents)
  BY <1>1, <1>5, <1>6, LeadsOne
<1> HIDE DEF l
<1>9. /\ plan \in Seq(About) /\ AllForInput(plan, world[ref]) /\ Range(calls) \subseteq Called(plan)
      /\ \E m \in PLLedgers : Leads(l, plan, m, intents) /\ LedgerOK(m, intents) /\ (Calm(l) => Calm(m))
  BY <1>3, <1>6, PlanLeads
<1> HIDE DEF plan
<1>10. PICK m \in PLLedgers : Leads(l, plan, m, intents) /\ (Calm(l) => Calm(m))
  BY <1>9
<1>11. <<e>> \in Seq(About \cup Observations) /\ plan \in Seq(About \cup Observations)
  <2>1. plan \in Seq(About \cup Observations)
    BY <1>9, AboutLists
  <2>2. <<e>> \in Seq(About \cup Observations)
    BY <1>4
  <2> QED
    BY <2>1, <2>2
<1>12. Leads(ledger, <<e>> \o plan, m, intents)
  BY <1>8, <1>10, <1>11, LeadsOn
<1> QED
  BY <1>4, <1>7, <1>9, <1>10, <1>12 DEF plan, l

\* A read under the lock leaves a list that opens what fits it and nothing that was decided.
LEMMA Observes1Keeps ==
  ASSUME ProposalInv, NEW ref \in Refs, Observes1(ref), writer.todo = << >>, writer.at = "recovering",
         \/ writer.verb = "observe"
         \/ writer.verb = "admit" /\ writer.target.kind = "run" /\ ledger.state[writer.target] = "open"
  PROVE  ProposalInv'
<1> DEFINE input == world[ref]
           calls == Candidates(ledger.last.corpus, ledger.base, input)
           e == Observes(input, ref, calls)
           todo == writer'.todo
<1>1. /\ intents \in [Proposals -> 0 .. 1] /\ deaths \in Nat /\ interrupted \in BOOLEAN /\ world \in [Refs -> Inputs]
      /\ LedgerOK(ledger, intents) /\ WriterFits(ledger, writer, intents, deaths, interrupted)
  BY DEF ProposalInv
<1>2. writer \in Writers /\ Standing(writer) /\ input \in Inputs
  BY <1>1 DEF WriterFits
<1>3. UNCHANGED <<world, ledger, intents, deaths, interrupted>>
  BY DEF Observes1
<1>4. \E t : /\ writer' = [writer EXCEPT !.at = "observed", !.read = input, !.todo = t]
             /\ \/ input = ledger.last /\ t = Plan(ledger, ledger.lastRef, Missing)
                \/ t = <<e>> \o Plan(Apply(ledger, e), ref, calls)
  BY DEF Observes1
<1>5. /\ writer'.verb = writer.verb /\ writer'.at = "observed" /\ writer'.target = writer.target /\ writer'.read = input
      /\ writer' = [verb |-> writer.verb, at |-> "observed", todo |-> todo, target |-> writer.target, read |-> input]
      /\ \/ input = ledger.last /\ todo = Plan(ledger, ledger.lastRef, Missing)
         \/ todo = <<e>> \o Plan(Apply(ledger, e), ref, calls)
  <2>1. writer = [verb |-> writer.verb, at |-> writer.at, todo |-> writer.todo,
                  target |-> writer.target, read |-> writer.read]
    BY <1>2, WriterFields
  <2> HIDE DEF input, calls, e
  <2>2. PICK t : /\ writer' = [writer EXCEPT !.at = "observed", !.read = input, !.todo = t]
                 /\ \/ input = ledger.last /\ t = Plan(ledger, ledger.lastRef, Missing)
                    \/ t = <<e>> \o Plan(Apply(ledger, e), ref, calls)
    BY <1>4
  <2> DEFINE y == [writer EXCEPT !.at = "observed"]
             z == [y EXCEPT !.read = input]
  <2>3. writer' = [z EXCEPT !.todo = t]
    BY <2>2
  <2>4. y = [verb |-> writer.verb, at |-> "observed", todo |-> writer.todo, target |-> writer.target,
             read |-> writer.read]
    BY <2>1
  <2> HIDE DEF y
  <2>5. z = [verb |-> writer.verb, at |-> "observed", todo |-> writer.todo, target |-> writer.target, read |-> input]
    BY <2>4
  <2> HIDE DEF z
  <2>6. writer' = [verb |-> writer.verb, at |-> "observed", todo |-> t, target |-> writer.target, read |-> input]
    BY <2>3, <2>5
  <2>7. todo = t
    BY <2>6
  <2> QED
    BY <2>2, <2>6, <2>7
<1>6. /\ todo \in Seq(About \cup Observations) /\ Observing(ledger, writer')
      /\ \E m \in PLLedgers : Leads(ledger, todo, m, intents) /\ (Calm(ledger) => Calm(m))
  <2>1. CASE input = ledger.last /\ todo = Plan(ledger, ledger.lastRef, Missing)
    <3>1. /\ todo \in Seq(About) /\ AllForInput(todo, input)
          /\ Range(ledger.calls) \subseteq ledger.written \cup Called(todo)
          /\ \E m \in PLLedgers : Leads(ledger, todo, m, intents) /\ (Calm(ledger) => Calm(m))
      BY <2>1, SameAgain
    <3> QED
      BY <1>2, <1>5, <2>1, <3>1, AboutLists DEF Observing
  <2>2. CASE todo = <<e>> \o Plan(Apply(ledger, e), ref, calls)
    <3> DEFINE plan == Plan(Apply(ledger, e), ref, calls)
    <3>1. /\ e \in Observations /\ e.input = input /\ Range(e.calls) \subseteq Called(plan)
          /\ plan \in Seq(About) /\ AllForInput(plan, input)
          /\ \E m \in PLLedgers : Leads(ledger, <<e>> \o plan, m, intents) /\ (Calm(ledger) => Calm(m))
      BY ReadAnew
    <3> HIDE DEF plan, e
    <3>2. todo \in Seq(About \cup Observations) /\ todo # << >> /\ Head(todo) = e /\ Tail(todo) = plan
      <4>1. todo = <<e>> \o plan
        BY <2>2 DEF plan
      <4> QED
        BY <3>1, <4>1, After
    <3>3. Observing(ledger, writer')
      BY <1>2, <1>5, <3>1, <3>2 DEF Observing
    <3> QED
      BY <2>2, <3>1, <3>2, <3>3 DEF plan
  <2> QED
    BY <1>5, <2>1, <2>2
<1> HIDE DEF input, e, calls
<1>7. PICK m \in PLLedgers : Leads(ledger, todo, m, intents) /\ (Calm(ledger) => Calm(m))
  BY <1>6
<1> HIDE DEF todo
<1>8. writer' \in Writers
  <2>1. writer.verb \in {"none", "observe", "close", "admit"} /\ writer.target \in Refs \cup {NoRef} \cup Proposals
    BY <1>2, WriterFields
  <2> QED
    BY <1>2, <1>5, <1>6, <2>1 DEF Writers
<1>9. Standing(writer')
  <2>1. writer # Free
    BY DEF Free
  <2> QED
    BY <1>2, <1>5, <2>1 DEF Standing
<1>10. writer.verb = "admit" => Admits(ledger, writer')
  BY <1>5 DEF Admits
<1>11. deaths = 0 => EndsWell(m, writer')
  <2>1. deaths = 0 => Calm(ledger)
    BY CalmNow
  <2> QED
    BY <1>5, <1>7, <2>1 DEF EndsWell, Calm
<1>12. WriterFits(ledger, writer', intents, deaths, interrupted)
  <2>1. writer'.todo = todo
    BY DEF todo
  <2> QED
    BY <1>5, <1>6, <1>7, <1>8, <1>9, <1>10, <1>11, <2>1 DEF WriterFits
<1> QED
  BY <1>1, <1>3, <1>12, OnlyWrites

\* observe reads the ref it was given, an admission the one its proposal was last seen on.
LEMMA ReadsKeep ==
  ASSUME ProposalInv, ObserveReads \/ AdmitReads
  PROVE  ProposalInv'
<1>1. writer \in Writers /\ Standing(writer) /\ LedgerOK(ledger, intents)
  BY DEF ProposalInv, WriterFits
<1>2. CASE ObserveReads
  <2>1. writer.verb = "observe" /\ writer.at = "recovering" /\ writer.todo = << >> /\ Observes1(writer.target)
    BY <1>2 DEF ObserveReads, At
  <2>2. writer.target \in Refs
    BY <1>1, <2>1 DEF Standing, Free
  <2> QED
    BY <2>1, <2>2, Observes1Keeps
<1>3. CASE AdmitReads
  <2>1. /\ writer.verb = "admit" /\ writer.at = "recovering" /\ writer.todo = << >>
        /\ writer.target.kind = "run" /\ ledger.state[writer.target] = "open"
        /\ Observes1(ledger.ref[writer.target])
    BY <1>3 DEF AdmitReads, At
  <2>2. writer.target \in Proposals
    BY <1>1, <2>1 DEF Standing, Free
  <2>3. ledger.ref[writer.target] \in Refs
    BY <1>1, <2>1, <2>2 DEF LedgerOK
  <2> QED
    BY <2>1, <2>3, Observes1Keeps
<1> QED
  BY <1>2, <1>3

\* The steps that free the lock.
LEMMA EndsKeep ==
  ASSUME ProposalInv, ObserveEnds \/ CloseEnds \/ AdmitRefuses \/ AdmitEnds \/ Killed
  PROVE  ProposalInv'
<1>1. /\ intents \in [Proposals -> 0 .. 1] /\ deaths \in Nat /\ interrupted \in BOOLEAN
      /\ WriterFits(ledger, writer, intents, deaths, interrupted)
  BY DEF ProposalInv
<1>2. CASE ObserveEnds
  <2>1. /\ writer.at = "observed" /\ writer.todo = << >> /\ writer' = Free /\ interrupted' = FALSE
        /\ UNCHANGED <<world, ledger, intents, deaths>>
    BY <1>2 DEF ObserveEnds, At, Finishes
  <2>2. Range(ledger.calls) \subseteq ledger.written
    BY <2>1, ObservedOut
  <2>3. deaths = 0 => Calm(ledger)
    BY <2>1, CalmNow
  <2> QED
    BY <1>1, <2>1, <2>2, <2>3, Frees
<1>3. CASE CloseEnds \/ AdmitRefuses \/ AdmitEnds
  <2>1. /\ writer.at \in {"closed", "recovering", "disposed"} /\ writer.todo = << >> /\ writer' = Free
        /\ UNCHANGED <<world, ledger, intents, deaths, interrupted>>
    BY <1>3 DEF CloseEnds, AdmitRefuses, AdmitEnds, At, Finishes
  <2>2. ~interrupted => Range(ledger.calls) \subseteq ledger.written
    BY <1>1, <2>1 DEF WriterFits
  <2>3. deaths = 0 => Calm(ledger)
    BY <2>1, CalmNow
  <2> QED
    BY <1>1, <2>1, <2>2, <2>3, Frees
<1>4. CASE Killed
  <2>1. /\ writer' = Free /\ deaths' = deaths + 1 /\ interrupted' = (interrupted \/ writer.at = "observed")
        /\ UNCHANGED <<world, ledger, intents>>
    BY <1>4 DEF Killed
  <2>2. deaths' \in Nat /\ deaths' # 0
    BY <1>1, <2>1
  <2>3. interrupted' \in BOOLEAN /\ (~interrupted' => ~interrupted /\ writer.at # "observed")
    BY <1>1, <2>1
  <2>4. ~interrupted' => Range(ledger.calls) \subseteq ledger.written
    BY <1>1, <2>3 DEF WriterFits
  <2> QED
    BY <2>1, <2>2, <2>3, <2>4, Frees
<1> QED
  BY <1>2, <1>3, <1>4

\* One entry to write, that settles.
LEMMA OneToWrite ==
  ASSUME ProposalInv, NEW what \in {"dismissed", "acknowledged", "stale", "admitting", "admitted", "released"},
         NEW p \in Proposals, NEW e, e = Entry(what, p, NoRef), Rightful(ledger, e, intents),
         NEW l, l = Apply(ledger, e)
  PROVE  /\ <<e>> \in Seq(About \cup Observations) /\ Settling(<<e>>)
         /\ l \in PLLedgers /\ Leads(ledger, <<e>>, l, intents)
         /\ \A q \in Proposals : q # p => l.state[q] = ledger.state[q]
         /\ l.state[p] = IF what = "released" THEN "open" ELSE what
<1>1. e.entry = what /\ e.proposal = p /\ e \in About
  BY DEF Entry, About, Dispositions
<1>2. LedgerOK(ledger, intents) /\ ledger \in PLLedgers
  BY DEF ProposalInv, LedgerOK
<1>3. <<e>> \in Seq(About) /\ Settling(<<e>>)
  BY <1>1, OneSettles
<1>4. <<e>> \in Seq(About \cup Observations)
  BY <1>3, AboutLists
<1>5. l \in PLLedgers
  BY <1>2, ApplyKeeps DEF LedgerOK
<1>6. Leads(ledger, <<e>>, l, intents)
  BY <1>2, <1>5, LeadsOne
<1>7. /\ l.state = [ledger.state EXCEPT ![e.proposal] = NewState(ledger, e)]
      /\ ledger.state \in [Proposals -> PLStates]
  <2>1. ledger.state \in [Proposals -> PLStates]
    BY <1>2, LedgerFields
  <2>2. Apply(ledger, e).state = [ledger.state EXCEPT ![e.proposal] = NewState(ledger, e)]
    BY <1>1, <1>2, ApplyAbout
  <2> QED
    BY <2>1, <2>2
<1>8. NewState(ledger, e) = IF what = "released" THEN "open" ELSE what
  BY <1>1 DEF NewState
<1> QED
  BY <1>1, <1>3, <1>4, <1>5, <1>6, <1>7, <1>8

\* The list a writer goes on with settles, and leads to l.
SettlesOn(at, todo, l) ==
  /\ writer # Free /\ todo \in Seq(About \cup Observations) /\ Settling(todo)
  /\ at \in {"closed", "admitting", "disposed"} /\ writer.verb = (IF at = "closed" THEN "close" ELSE "admit")
  /\ l \in PLLedgers /\ Leads(ledger, todo, l, intents)
  /\ deaths = 0 => OneLive(l) /\ \A p \in Proposals : l.state[p] = "admitting" => at = "admitting" /\ p = writer.target

\* A writer between two steps of its own.
LEMMA GoesOn ==
  ASSUME ProposalInv, NEW at, NEW todo, NEW l, SettlesOn(at, todo, l), Goto(at, todo),
         UNCHANGED <<world, ledger, intents, deaths>>, interrupted' \in BOOLEAN,
         ~interrupted' => Range(ledger.calls) \subseteq ledger.written,
         at = "admitting" => Holds(ledger, writer') /\ intents[writer.target] = 0
  PROVE  ProposalInv'
<1>0. /\ writer # Free /\ todo \in Seq(About \cup Observations) /\ Settling(todo)
      /\ at \in {"closed", "admitting", "disposed"} /\ writer.verb = (IF at = "closed" THEN "close" ELSE "admit")
      /\ l \in PLLedgers /\ Leads(ledger, todo, l, intents)
      /\ deaths = 0 =>
           OneLive(l) /\ \A p \in Proposals : l.state[p] = "admitting" => at = "admitting" /\ p = writer.target
  BY DEF SettlesOn
<1>1. deaths \in Nat /\ WriterFits(ledger, writer, intents, deaths, interrupted)
  BY DEF ProposalInv
<1>2. writer \in Writers /\ Standing(writer)
  BY <1>1 DEF WriterFits
<1>3. /\ writer'.verb = writer.verb /\ writer'.at = at /\ writer'.todo = todo
      /\ writer'.target = writer.target /\ writer'.read = writer.read
      /\ writer' = [verb |-> writer.verb, at |-> at, todo |-> todo, target |-> writer.target, read |-> writer.read]
  BY <1>2, GotoFields
<1>4. writer' \in Writers
  <2>1. /\ writer.verb \in {"none", "observe", "close", "admit"}
        /\ writer.target \in Refs \cup {NoRef} \cup Proposals /\ writer.read \in Inputs \cup {NoObservation}
    BY <1>2, WriterFields
  <2> QED
    BY <1>0, <1>3, <2>1 DEF Writers
<1>5. Standing(writer')
  BY <1>0, <1>2, <1>3 DEF Standing
<1>6. deaths = 0 => EndsWell(l, writer')
  BY <1>0, <1>3 DEF EndsWell
<1>7. WriterFits(ledger, writer', intents, deaths, interrupted')
  BY <1>0, <1>3, <1>4, <1>5, <1>6 DEF WriterFits
<1> QED
  BY <1>1, <1>7, OnlyWrites

\* A dismissal or an acknowledgment closes what is open.
LEMMA ClosesKeeps ==
  ASSUME ProposalInv, Closes
  PROVE  ProposalInv'
<1> DEFINE p == writer.target
<1>1. /\ intents \in [Proposals -> 0 .. 1] /\ deaths \in Nat /\ interrupted \in BOOLEAN
      /\ LedgerOK(ledger, intents) /\ WriterFits(ledger, writer, intents, deaths, interrupted)
  BY DEF ProposalInv
<1>2. /\ writer.verb = "close" /\ writer.at = "recovering" /\ writer.todo = << >>
      /\ UNCHANGED <<world, ledger, intents, deaths, interrupted>>
  BY DEF Closes, At
<1>3. p \in Proposals /\ writer # Free
  BY <1>1, <1>2 DEF WriterFits, Standing, Free
<1>4. ~interrupted => Range(ledger.calls) \subseteq ledger.written
  BY <1>1, <1>2 DEF WriterFits
<1>5. deaths = 0 => Calm(ledger)
  BY <1>2, CalmNow
<1>6. CASE ledger.state[p] = "open"
  <2>1. PICK what \in {"dismissed", "acknowledged"} : Goto("closed", <<Entry(what, p, NoRef)>>)
    BY <1>6 DEF Closes
  <2> DEFINE e == Entry(what, p, NoRef)
             l == Apply(ledger, e)
  <2>2. e.entry = what /\ e.proposal = p /\ e \in About
    BY <1>3, <2>1 DEF Entry, About, Dispositions
  <2>3. Rightful(ledger, e, intents)
    BY <1>6, <2>2 DEF Rightful
  <2>4. /\ <<e>> \in Seq(About \cup Observations) /\ Settling(<<e>>)
        /\ l \in PLLedgers /\ Leads(ledger, <<e>>, l, intents)
        /\ \A q \in Proposals : q # p => l.state[q] = ledger.state[q]
        /\ l.state[p] = what
    BY <1>3, <2>1, <2>3, OneToWrite
  <2> HIDE DEF l, e
  <2>5. Goto("closed", <<e>>)
    BY <2>1 DEF e
  <2>6. deaths = 0 => OneLive(l) /\ \A q \in Proposals : l.state[q] # "admitting"
    BY <1>5, <2>4 DEF Calm, OneLive, Live
  <2> DEFINE todo == <<e>>
  <2> HIDE DEF todo
  <2>7. SettlesOn("closed", todo, l)
    BY <1>2, <1>3, <2>4, <2>6 DEF SettlesOn, todo
  <2>8. Goto("closed", todo)
    BY <2>5 DEF todo
  <2> QED
    BY <1>1, <1>2, <1>4, <2>7, <2>8, GoesOn
<1>7. CASE ledger.state[p] # "open"
  <2>1. Goto("closed", << >>)
    BY <1>7 DEF Closes
  <2>2. ledger \in PLLedgers
    BY <1>1 DEF LedgerOK
  <2>3. Leads(ledger, << >>, ledger, intents)
    BY <2>2, LeadsNowhere
  <2>4. << >> \in Seq(About \cup Observations)
    OBVIOUS
  <2> DEFINE todo == << >>
  <2>5. SettlesOn("closed", todo, ledger)
    BY <1>2, <1>3, <1>5, <2>2, <2>3, <2>4, Nothing DEF SettlesOn, Calm
  <2> HIDE DEF todo
  <2>6. Goto("closed", todo)
    BY <2>1 DEF todo
  <2> QED
    BY <1>1, <1>2, <1>4, <2>5, <2>6, GoesOn
<1> QED
  BY <1>6, <1>7

\* An admission goes on only with what is open and says what was read; otherwise it is stale.
LEMMA AdmitDecidesKeeps ==
  ASSUME ProposalInv, AdmitDecides
  PROVE  ProposalInv'
<1> DEFINE p == writer.target
<1>1. /\ intents \in [Proposals -> 0 .. 1] /\ deaths \in Nat
      /\ LedgerOK(ledger, intents) /\ WriterFits(ledger, writer, intents, deaths, interrupted)
  BY DEF ProposalInv
<1>2. /\ writer.verb = "admit" /\ writer.at = "observed" /\ writer.todo = << >>
      /\ interrupted' = FALSE /\ UNCHANGED <<world, ledger, intents, deaths>>
  BY DEF AdmitDecides, At
<1>3. p \in Proposals /\ writer # Free
  BY <1>1, <1>2 DEF WriterFits, Standing, Free
<1>4. ledger.last = writer.read /\ Range(ledger.calls) \subseteq ledger.written
  BY <1>2, ObservedOut
<1>5. deaths = 0 => Calm(ledger)
  BY <1>2, CalmNow
<1>6. Admits(ledger, writer)
  BY <1>1, <1>2 DEF WriterFits
<1>7. CASE Differs(p, ledger.last)
  <2> DEFINE e == Entry("stale", p, NoRef)
             l == Apply(ledger, e)
  <2>1. Goto("disposed", <<e>>)
    BY <1>7 DEF AdmitDecides
  <2>2. e.entry = "stale" /\ e.proposal = p /\ e \in About
    BY <1>3 DEF Entry, About, Dispositions
  <2>3. Rightful(ledger, e, intents)
    BY <1>6, <2>2 DEF Rightful, Admits
  <2>4. /\ <<e>> \in Seq(About \cup Observations) /\ Settling(<<e>>)
        /\ l \in PLLedgers /\ Leads(ledger, <<e>>, l, intents)
        /\ \A q \in Proposals : q # p => l.state[q] = ledger.state[q]
        /\ l.state[p] = "stale"
    BY <1>3, <2>3, OneToWrite
  <2> HIDE DEF l, e
  <2>5. deaths = 0 => OneLive(l) /\ \A q \in Proposals : l.state[q] # "admitting"
    BY <1>5, <2>4 DEF Calm, OneLive, Live
  <2> DEFINE todo == <<e>>
  <2> HIDE DEF todo
  <2>6. SettlesOn("disposed", todo, l)
    BY <1>2, <1>3, <2>4, <2>5 DEF SettlesOn, todo
  <2>7. Goto("disposed", todo)
    BY <2>1 DEF todo, e
  <2> QED
    BY <1>1, <1>2, <1>4, <2>6, <2>7, GoesOn
<1>8. CASE ~Differs(p, ledger.last)
  <2> DEFINE e == Entry("admitting", p, NoRef)
             l == Apply(ledger, e)
  <2>1. Goto("admitting", <<e>>)
    BY <1>8 DEF AdmitDecides
  <2>2. e.entry = "admitting" /\ e.proposal = p /\ e \in About
    BY <1>3 DEF Entry, About, Dispositions
  <2>3. ledger.state[p] = "open" /\ p.kind = "run"
    BY <1>4, <1>6, <1>8 DEF Admits
  <2>4. Rightful(ledger, e, intents)
    BY <2>2, <2>3 DEF Rightful
  <2>5. /\ <<e>> \in Seq(About \cup Observations) /\ Settling(<<e>>)
        /\ l \in PLLedgers /\ Leads(ledger, <<e>>, l, intents)
        /\ \A q \in Proposals : q # p => l.state[q] = ledger.state[q]
        /\ l.state[p] = "admitting"
    BY <1>3, <2>4, OneToWrite
  <2>6. writer \in Writers
    BY <1>1 DEF WriterFits
  <2>7. writer'.at = "admitting" /\ writer'.todo = <<e>> /\ writer'.target = p /\ writer'.read = writer.read
    BY <2>1, <2>6, GotoFields
  <2>8. Holds(ledger, writer')
    BY <1>4, <1>8, <2>3, <2>7 DEF Holds
  <2>9. intents[p] = 0
    <3>1. intents[p] \in 0 .. 1 /\ ~(intents[p] > 0)
      BY <1>1, <1>3, <2>3 DEF LedgerOK
    <3> QED
      BY <3>1
  <2> HIDE DEF l, e
  <2>10. deaths = 0 => OneLive(l) /\ \A q \in Proposals : l.state[q] = "admitting" => q = p
    BY <1>5, <2>3, <2>5 DEF Calm, OneLive, Live
  <2> DEFINE todo == <<e>>
  <2> HIDE DEF todo
  <2>11. SettlesOn("admitting", todo, l)
    BY <1>2, <1>3, <2>5, <2>10 DEF SettlesOn, todo
  <2>12. Goto("admitting", todo)
    BY <2>1 DEF todo, e
  <2> QED
    BY <1>1, <1>2, <1>4, <2>8, <2>9, <2>11, <2>12, GoesOn
<1> QED
  BY <1>7, <1>8

\* An admission whose list is written holds its proposal, for what it was made of.
LEMMA HeldNow ==
  ASSUME ProposalInv, writer.todo = << >>, writer.at \in {"admitting", "entered"}
  PROVE  /\ writer.target \in Proposals /\ writer # Free /\ writer.verb = "admit"
         /\ writer.target.kind = "run" /\ ~Differs(writer.target, writer.read)
         /\ ledger.state[writer.target] = "admitting"
<1>1. WriterFits(ledger, writer, intents, deaths, interrupted)
  BY DEF ProposalInv
<1>2. Standing(writer) /\ Holds(ledger, writer)
  BY <1>1 DEF WriterFits
<1>3. writer # Free
  BY DEF Free
<1>4. \A e : <<e>> # << >>
  OBVIOUS
<1> QED
  BY <1>2, <1>3, <1>4 DEF Standing, Holds

\* After the run the record says which: entered once, or free to be offered again.
LEMMA AdmitSettlesKeeps ==
  ASSUME ProposalInv, AdmitSettles
  PROVE  ProposalInv'
<1> DEFINE p == writer.target
           what == IF intents[p] > 0 THEN "admitted" ELSE "released"
           e == Entry(what, p, NoRef)
           l == Apply(ledger, e)
<1>1. /\ intents \in [Proposals -> 0 .. 1] /\ deaths \in Nat /\ interrupted \in BOOLEAN
      /\ LedgerOK(ledger, intents) /\ WriterFits(ledger, writer, intents, deaths, interrupted)
  BY DEF ProposalInv
<1>2. /\ writer.verb = "admit" /\ writer.at = "entered" /\ writer.todo = << >>
      /\ UNCHANGED <<world, ledger, intents, deaths, interrupted>> /\ Goto("disposed", <<e>>)
  BY DEF AdmitSettles, At, Settled
<1>3. p \in Proposals /\ writer # Free /\ p.kind = "run" /\ ledger.state[p] = "admitting"
  BY <1>2, HeldNow
<1>4. ~interrupted => Range(ledger.calls) \subseteq ledger.written
  BY <1>1, <1>2 DEF WriterFits
<1>5. deaths = 0 => EndsWell(ledger, writer)
  BY <1>2, NothingLeft
<1>6. e.entry = what /\ e.proposal = p /\ e \in About
  BY <1>3 DEF Entry, About, Dispositions
<1>7. Rightful(ledger, e, intents)
  <2>1. intents[p] \in 0 .. 1
    BY <1>1, <1>3
  <2>2. intents[p] > 0 => e.entry = "admitted"
    BY <1>6
  <2>3. ~(intents[p] > 0) => e.entry = "released" /\ intents[p] = 0
    BY <1>6, <2>1
  <2> HIDE DEF e
  <2> QED
    BY <1>3, <1>6, <2>2, <2>3 DEF Rightful
<1>8. /\ <<e>> \in Seq(About \cup Observations) /\ Settling(<<e>>)
      /\ l \in PLLedgers /\ Leads(ledger, <<e>>, l, intents)
      /\ \A q \in Proposals : q # p => l.state[q] = ledger.state[q]
      /\ l.state[p] \in {"open", "admitted"}
  <2>1. what \in {"admitted", "released"}
    OBVIOUS
  <2> HIDE DEF what
  <2>2. /\ <<e>> \in Seq(About \cup Observations) /\ Settling(<<e>>)
        /\ l \in PLLedgers /\ Leads(ledger, <<e>>, l, intents)
        /\ \A q \in Proposals : q # p => l.state[q] = ledger.state[q]
        /\ l.state[p] = IF what = "released" THEN "open" ELSE what
    BY <1>3, <1>7, <2>1, OneToWrite
  <2> QED
    BY <2>1, <2>2
<1> HIDE DEF l, e
<1>9. deaths = 0 => OneLive(l) /\ \A q \in Proposals : l.state[q] # "admitting"
  BY <1>3, <1>5, <1>8 DEF EndsWell, OneLive, Live
<1> DEFINE todo == <<e>>
<1> HIDE DEF todo
<1>10. SettlesOn("disposed", todo, l)
  BY <1>2, <1>3, <1>8, <1>9 DEF SettlesOn, todo
<1>11. Goto("disposed", todo)
  BY <1>2 DEF todo, e
<1> QED
  BY <1>1, <1>2, <1>4, <1>10, <1>11, GoesOn

\* The one step into the run record: its proposal was held and named by no attempt.
LEMMA EntersKeeps ==
  ASSUME ProposalInv, Enters
  PROVE  ProposalInv'
<1> DEFINE p == writer.target
<1>1. /\ intents \in [Proposals -> 0 .. 1] /\ deaths \in Nat /\ interrupted \in BOOLEAN /\ world \in [Refs -> Inputs]
      /\ LedgerOK(ledger, intents) /\ WriterFits(ledger, writer, intents, deaths, interrupted)
  BY DEF ProposalInv
<1>2. /\ writer.verb = "admit" /\ writer.at = "admitting" /\ writer.todo = << >> /\ Goto("entered", << >>)
      /\ UNCHANGED <<world, ledger, deaths, interrupted>>
      /\ \/ intents' = intents
         \/ intents' = [intents EXCEPT ![p] = @ + 1]
  BY DEF Enters, At
<1>3. p \in Proposals /\ writer # Free /\ p.kind = "run" /\ ~Differs(p, writer.read) /\ ledger.state[p] = "admitting"
  BY <1>2, HeldNow
<1>4. intents[p] = 0 /\ writer \in Writers /\ (~interrupted => Range(ledger.calls) \subseteq ledger.written)
  BY <1>1, <1>2 DEF WriterFits
<1>5. intents' \in [Proposals -> 0 .. 1] /\ \A q \in Proposals : q # p => intents'[q] = intents[q]
  BY <1>1, <1>2, <1>3, <1>4
<1>6. LedgerOK(ledger, intents')
  BY <1>1, <1>3, <1>5 DEF LedgerOK
<1>7. /\ writer'.verb = "admit" /\ writer'.at = "entered" /\ writer'.todo = << >>
      /\ writer'.target = p /\ writer'.read = writer.read
      /\ writer' = [verb |-> writer.verb, at |-> "entered", todo |-> << >>, target |-> p, read |-> writer.read]
  BY <1>2, <1>4, GotoFields
<1>8. writer' \in Writers /\ Standing(writer')
  <2>1. writer.read \in Inputs \cup {NoObservation} /\ << >> \in Seq(About \cup Observations)
    BY <1>4, WriterFields
  <2> QED
    BY <1>2, <1>3, <1>7, <2>1 DEF Writers, Standing
<1>9. Holds(ledger, writer')
  BY <1>3, <1>7 DEF Holds
<1>10. ledger \in PLLedgers /\ Leads(ledger, << >>, ledger, intents')
  <2>1. ledger \in PLLedgers
    BY <1>1 DEF LedgerOK
  <2> QED
    BY <2>1, LeadsNowhere
<1>11. deaths = 0 => EndsWell(ledger, writer')
  BY <1>2, <1>7, NothingLeft DEF EndsWell
<1>12. WriterFits(ledger, writer', intents', deaths, interrupted)
  BY <1>4, <1>7, <1>8, <1>9, <1>10, <1>11, Nothing DEF WriterFits
<1> QED
  BY <1>1, <1>2, <1>5, <1>6, <1>12 DEF ProposalInv

\* The invariant of observation and proposals is inductive.
LEMMA PLNextKeeps ==
  ASSUME ProposalInv, [PLNext]_plvars
  PROVE  ProposalInv'
<1>1. ASSUME NEW ref \in Refs, Begins("observe", ref) PROVE ProposalInv'
  BY <1>1, BeginsKeeps
<1>2. ASSUME NEW p \in Known, Begins("admit", p) \/ Begins("close", p) PROVE ProposalInv'
  BY <1>2, BeginsKeeps DEF Known
<1>3. ASSUME NEW ref \in Refs, NEW input \in Inputs, Moves(ref, input) PROVE ProposalInv'
  <2>1. world' = [world EXCEPT ![ref] = input] /\ UNCHANGED <<ledger, intents, writer, deaths, interrupted>>
    BY <1>3 DEF Moves
  <2>2. world' \in [Refs -> Inputs]
    BY <2>1 DEF ProposalInv
  <2> QED
    BY <2>1, <2>2 DEF ProposalInv
<1>4. CASE UNCHANGED plvars
  BY <1>4 DEF plvars, ProposalInv
<1>5. CASE Verb
  BY <1>1, <1>2, <1>5 DEF Verb
<1>6. CASE ObserveReads \/ AdmitReads
  BY <1>6, ReadsKeep
<1>7. CASE ObserveEnds \/ CloseEnds \/ AdmitRefuses \/ AdmitEnds \/ Killed
  BY <1>7, EndsKeep
<1> QED
  BY <1>3, <1>4, <1>5, <1>6, <1>7, AppendsKeeps, ClosesKeeps, AdmitDecidesKeeps, EntersKeeps,
     AdmitSettlesKeeps DEF PLNext

\* What a writer knows at each of its steps stays so until the entry it is about to append.
THEOREM ProposalInvariant == PLSpec => []ProposalInv
<1>1. PLInit => ProposalInv
  BY PLInits
<1>2. ProposalInv /\ [PLNext]_plvars => ProposalInv'
  BY PLNextKeeps
<1> QED
  BY <1>1, <1>2, PTL DEF PLSpec

\* A proposal causes at most one attempt, for any number of kills between the chain and the
\* run record: recovery releases only what no intent names.
THEOREM OneAttemptPerProposalHolds == PLSpec => []OneAttemptPerProposal
<1>1. ProposalInv => OneAttemptPerProposal
  BY DEF ProposalInv, OneAttemptPerProposal
<1> QED
  BY <1>1, ProposalInvariant, PTL

\* Everything the last observation called for is in the chain unless one stands interrupted,
\* and of a spec one run is open while nobody was killed.
THEOREM OpenIsCalledForHolds == PLSpec => []OpenIsCalledFor
<1>1. ProposalInv => OpenIsCalledFor
  <2> SUFFICES ASSUME ProposalInv PROVE OpenIsCalledFor
    OBVIOUS
  <2>1. CalledForIsWritten
    BY DEF ProposalInv, WriterFits, CalledForIsWritten, Free
  <2>2. OneOpenRun
    <3> SUFFICES ASSUME writer = Free, deaths = 0 PROVE OneLive(ledger)
      BY DEF OneOpenRun, OneLive, Live
    <3> QED
      BY CalmNow DEF Calm, Free
  <2> QED
    BY <2>1, <2>2 DEF OpenIsCalledFor
<1> QED
  BY <1>1, ProposalInvariant, PTL

\* Only an entry into the run record names a proposal.
LEMMA EntersAlone ==
  ASSUME ProposalInv, [PLNext]_plvars, NEW p \in Proposals, intents'[p] > intents[p]
  PROVE  /\ Answered(writer.read) /\ writer.read.rows[p.spec] = p.after
         /\ ledger.state[p] = "admitting"
<1>1. intents \in [Proposals -> 0 .. 1]
  BY DEF ProposalInv
<1>2. intents' # intents
  <2>1. intents[p] \in 0 .. 1
    BY <1>1
  <2> QED
    BY <2>1
<1>3. Enters
  BY <1>2 DEF PLNext, plvars, Verb, Begins, Appends, ObserveReads, AdmitReads, Observes1, ObserveEnds,
              Closes, CloseEnds, AdmitRefuses, AdmitDecides, AdmitSettles, AdmitEnds, Finishes, Killed, Moves
<1>4. writer.at = "admitting" /\ writer.todo = << >> /\ intents' = [intents EXCEPT ![writer.target] = @ + 1]
  BY <1>2, <1>3 DEF Enters, At
<1>5. p = writer.target
  <2>1. intents[p] \in 0 .. 1
    BY <1>1
  <2> QED
    BY <1>1, <1>4, <2>1
<1> QED
  BY <1>4, <1>5, HeldNow DEF Differs

\* An attempt is entered only for the contract the ref offered under this very hold of the lock.
THEOREM RunsWhatWasProposedHolds == PLSpec => RunsWhatWasProposed
<1> DEFINE Rightly == \A p \in Proposals : intents'[p] > intents[p] =>
                        /\ Answered(writer.read) /\ writer.read.rows[p.spec] = p.after
                        /\ ledger.state[p] = "admitting"
<1>1. ProposalInv /\ [PLNext]_plvars => [Rightly]_plvars
  BY EntersAlone
<1> QED
  BY <1>1, ProposalInvariant, PTL DEF PLSpec, RunsWhatWasProposed
================================================================================
