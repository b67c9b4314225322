--------------------------- MODULE RunControlProofs ---------------------------
(***************************************************************************)
(* Theorems about attempts, halts and reconciliations, for any sets of     *)
(* processes and runs and any bounds.                                      *)
(***************************************************************************)
EXTENDS RunControl, FiniteSetTheorems, WellFoundedInduction, TLAPS

(* ---------------------------------------------------------------------- *)
(* Types.                                                                  *)

\* A nonempty set of requests has an oldest one.
LEMMA OldestLeast ==
  ASSUME NEW S \in SUBSET Requests, S # {}
  PROVE  Oldest(S) \in S /\ \A q \in S : Oldest(S) <= q
<1>1. S \subseteq Nat
  BY RunControlAssumption DEF Requests
<1>2. PICK x \in S : \A y \in S : ~ (<<y, x>> \in OpToRel(<, Nat))
  BY <1>1, NatLessThanWellFounded, WFMin
<1>3. \A y \in S : <<y, x>> \in Nat \X Nat
  BY <1>1
<1>4. \A y \in S : y < x => <<y, x>> \in OpToRel(<, Nat)
  BY <1>3 DEF OpToRel
<1>5. \A y \in S : ~ (y < x)
  BY <1>2, <1>4, Zenon
<1>6. \A y \in S : x <= y
  BY <1>1, <1>5
<1> QED
  BY <1>6 DEF Oldest

LEMMA WordTypes ==
  /\ "none" \in Words
  /\ {"admitted", "refused"} \subseteq Words
  /\ Said \subseteq Words
  /\ Findings \subseteq Words
  /\ {"refused", "interrupted", "cancelled", "completed", "failed"} \subseteq Said
  /\ {"halt", "resume"} \subseteq Kinds
  /\ {"preparing", "prepared", "archived", "intent", "outcome", "reconciled",
      "stopped"} \subseteq Kinds
  /\ {"run-admission", "tool-effects", "dispatch"} = Scopes
BY DEF Words, Said, Findings, Kinds, Scopes

\* The fields of an entry that asks nothing of the queue.
LEMMA EntryType ==
  ASSUME NEW k \in Kinds, NEW a \in Attempts \cup {NoAttempt}, NEW w \in Words
  PROVE  /\ Entry(k, a, w) \in Entries
         /\ Entry(k, a, w).kind = k
         /\ Entry(k, a, w).att = a
         /\ Entry(k, a, w).word = w
BY RunControlAssumption DEF Entry, Entries

\* The fields of an attempt's intent.
LEMMA IntentType ==
  ASSUME NEW a \in Attempts \cup {NoAttempt}, NEW F \in SUBSET Attempts
  PROVE  LET e == [Entry("intent", a, "none") EXCEPT !.follows = F]
         IN  /\ e \in Entries
             /\ e.kind = "intent"
             /\ e.att = a
BY RunControlAssumption, WordTypes DEF Entry, Entries

\* The fields of the entries of a well typed record.
LEMMA FieldTypes ==
  ASSUME record \in Seq(Entries), NEW i \in DOMAIN record
  PROVE  /\ record[i] \in Entries
         /\ record[i].kind \in Kinds
         /\ record[i].att \in Attempts \cup {NoAttempt}
         /\ record[i].word \in Words
         /\ record[i].req \in 0 .. MaxRequests
<1>1. record[i] \in Entries
  OBVIOUS
<1> QED
  BY <1>1 DEF Entries

LEMMA FoldTypes ==
  ASSUME record \in Seq(Entries)
  PROVE  /\ Intents \subseteq Attempts \cup {NoAttempt}
         /\ Live \subseteq Intents
         /\ Concluded \subseteq Attempts \cup {NoAttempt}
BY FieldTypes DEF Intents, Live, Concluded, Positions

\* The fields of a halt or resume entry: one that asks a stop names a live
\* attempt.
LEMMA ChangeEntryType ==
  ASSUME record \in Seq(Entries),
         NEW r \in Requests, NEW c \in {"halt", "resume"}, NEW S \in SUBSET Scopes
  PROVE  /\ ChangeEntry(r, c, S) \in Entries
         /\ ChangeEntry(r, c, S).kind = c
         /\ ChangeEntry(r, c, S).req = r
         /\ ChangeEntry(r, c, S).att \in Live \cup {NoAttempt}
<1> DEFINE a == IF /\ c = "halt"
                   /\ S \cap {"run-admission", "tool-effects"} # {}
                   /\ Live # {}
                  THEN CHOOSE b \in Live : TRUE ELSE NoAttempt
<1>1. a \in Live \cup {NoAttempt}
  OBVIOUS
<1>2. a \in Attempts \cup {NoAttempt}
  BY <1>1, FoldTypes
<1>3. ChangeEntry(r, c, S) = [Entry(c, a, "none") EXCEPT !.req = r, !.scopes = S]
  BY DEF ChangeEntry
<1>4. r \in 0 .. MaxRequests
  BY RunControlAssumption DEF Requests
<1>5. c \in Kinds
  BY WordTypes
<1> HIDE DEF a
<1>6. ChangeEntry(r, c, S) = [kind |-> c, att |-> a, word |-> "none", req |-> r,
                              scopes |-> S, follows |-> {}]
  BY <1>3 DEF Entry
<1>7. ChangeEntry(r, c, S) \in Entries
  BY <1>2, <1>4, <1>5, <1>6, WordTypes DEF Entries
<1> QED
  BY <1>1, <1>6, <1>7

(* ---------------------------------------------------------------------- *)
(* The types are kept.                                                     *)

LEMMA IntentsFinite ==
  ASSUME record \in Seq(Entries), NEW run
  PROVE  /\ IsFiniteSet({a \in Intents : a.run = run})
         /\ Cardinality({a \in Intents : a.run = run}) \in Nat
<1> DEFINE P == Positions("intent")
<1> DEFINE f == [i \in P |-> record[i].att]
<1>1. IsFiniteSet(1 .. Len(record))
  BY FS_Interval
<1>2. IsFiniteSet(P)
  BY <1>1, FS_Subset DEF Positions
<1>3. f \in Surjection(P, Intents)
  BY DEF Surjection, Intents
<1>4. IsFiniteSet(Intents)
  BY <1>2, <1>3, FS_Surjection DEF ExistsSurjection
<1>5. IsFiniteSet({a \in Intents : a.run = run})
  BY <1>4, FS_Subset
<1> QED
  BY <1>5, FS_CardinalityType

LEMMA NextAttemptType ==
  ASSUME record \in Seq(Entries), NEW run \in Runs
  PROVE  /\ NextAttempt(run) \in Attempts
         /\ NextAttempt(run).run = run
         /\ NextAttempt(run).n = Cardinality({a \in Intents : a.run = run}) + 1
<1> DEFINE c == Cardinality({a \in Intents : a.run = run})
<1>1. c \in Nat
  BY IntentsFinite
<1>2. NextAttempt(run) = [run |-> run, n |-> c + 1]
  BY DEF NextAttempt
<1> HIDE DEF c
<1>3. NextAttempt(run) \in Attempts /\ NextAttempt(run).run = run
      /\ NextAttempt(run).n = c + 1
  BY <1>1, <1>2 DEF Attempts
<1> QED
  BY <1>3 DEF c

LEMMA SinceType ==
  ASSUME record \in Seq(Entries), Named
  PROVE  SinceLastIntent \in SUBSET Attempts
BY DEF SinceLastIntent, Named, Positions

LEMMA StepNames ==
  {"idle", "locked", "draining", "removing", "ready", "preparing", "archiving",
   "admitted", "intended", "running", "deciding", "ended", "refusing",
   "confirming", "changing", "finding"} = Steps
BY DEF Steps

LEMMA ReleaseType ==
  ASSUME LocalTypeOK, NEW p \in Proc, Release(p)
  PROVE  LocalTypeOK'
BY StepNames DEF LocalTypeOK, Release, Goto

LEMMA AppendType ==
  ASSUME RecordTypeOK, NEW e \in Entries, Append1(e)
  PROVE  RecordTypeOK'
<1>1. Append(record, e) \in Seq(Entries)
  BY DEF RecordTypeOK
<1>2. record' \in Seq(Entries)
  BY <1>1 DEF Append1
<1> QED
  BY <1>2 DEF RecordTypeOK, Append1

LEMMA RefuseType ==
  ASSUME TypeOK, NEW p \in Proc, Refuse(p)
  PROVE  TypeOK'
<1>1. LocalTypeOK'
  BY ReleaseType DEF Refuse, TypeOK
<1>2. RecordTypeOK'
  BY DEF Refuse, RecordTypeOK, TypeOK
<1>3. RequestTypeOK'
  BY DEF Refuse, RequestTypeOK, requests, TypeOK
<1> QED
  BY <1>1, <1>2, <1>3 DEF TypeOK

LEMMA NextNameType ==
  ASSUME RequestTypeOK, Unused # {}
  PROVE  NextName \in Unused
<1>1. Unused \in SUBSET Requests
  BY DEF Unused
<1>2. Oldest(Unused) \in Unused
  BY <1>1, OldestLeast
<1> QED
  BY <1>2 DEF NextName, Oldest

LEMMA TypeStep ==
  ASSUME TypeOK, Named, BatchReads, [Next]_vars
  PROVE  TypeOK'
<1> USE StepNames DEF TypeOK
<1>1. ASSUME NEW p \in Proc, NEW v \in {"run", "change", "reconcile"},
             TryAcquire(p, v)
      PROVE  TypeOK'
  BY <1>1 DEF TryAcquire, Goto, Queued, requests, LocalTypeOK, RecordTypeOK,
              RequestTypeOK
<1>2. ASSUME NEW p \in Proc, ListRequests(p) PROVE TypeOK'
  <2>1. CASE Refuse(p)
    BY <2>1, RefuseType
  <2>2. CASE ~ Refuse(p)
    BY <1>2, <2>2 DEF ListRequests, Goto, Queued, Stay, requests, LocalTypeOK,
                      RecordTypeOK, RequestTypeOK
  <2> QED
    BY <2>1, <2>2
<1>3. ASSUME NEW p \in Proc, Poll(p) PROVE TypeOK'
  <2>1. "interrupted" \in Said
    BY WordTypes
  <2>2. LocalTypeOK'
    <3>1. UNCHANGED att /\ Stay
      BY <1>3 DEF Poll
    <3>2. CASE Goto(p, "ended") /\ said' = [said EXCEPT ![p] = "interrupted"]
               /\ UNCHANGED batch
      BY <2>1, <3>1, <3>2 DEF LocalTypeOK, Goto, Stay
    <3>3. CASE Goto(p, "draining") /\ batch' = [batch EXCEPT ![p] = Queued]
               /\ UNCHANGED said
      BY <3>1, <3>3 DEF LocalTypeOK, Goto, Stay, Queued
    <3> QED
      BY <1>3, <3>2, <3>3 DEF Poll
  <2> QED
    BY <1>3, <2>2 DEF Poll, requests, RecordTypeOK, RequestTypeOK
<1>4. ASSUME NEW p \in Proc, ApplyRequest(p) PROVE TypeOK'
  <2> DEFINE r == Oldest(batch[p])
  <2>1. r \in batch[p] /\ r \in Requests
    BY <1>4, OldestLeast DEF ApplyRequest, LocalTypeOK
  <2>2. CASE Refuse(p)
    BY <2>2, RefuseType
  <2>3. CASE ~ Refuse(p)
    <3>1. /\ Goto(p, "removing")
          /\ UNCHANGED <<requests, att, batch, said>>
          /\ Stay
          /\ \/ UNCHANGED <<record, torn>>
             \/ Append1(ChangeEntry(r, ask[r].change, ask[r].scopes))
      BY <1>4, <2>3 DEF ApplyRequest
    <3>2. LocalTypeOK'
      BY <3>1 DEF LocalTypeOK, Goto, Stay
    <3>3. RequestTypeOK'
      BY <3>1 DEF RequestTypeOK, requests
    <3>4. ChangeEntry(r, ask[r].change, ask[r].scopes) \in Entries
      <4>1. ask[r].change \in {"halt", "resume"} /\ ask[r].scopes \in SUBSET Scopes
        BY <2>1 DEF BatchReads, RequestTypeOK
      <4> QED
        BY <2>1, <4>1, ChangeEntryType DEF RecordTypeOK
    <3>5. RecordTypeOK'
      BY <3>1, <3>4, AppendType DEF RecordTypeOK
    <3> QED
      BY <3>2, <3>3, <3>5
  <2> QED
    BY <2>2, <2>3
<1>5. ASSUME NEW p \in Proc, RemoveRequest(p) PROVE TypeOK'
  BY <1>5 DEF RemoveRequest, Goto, Stay, LocalTypeOK, RecordTypeOK, RequestTypeOK,
              Stages
<1>6. ASSUME NEW p \in Proc, RemoveFails(p) PROVE TypeOK'
  <2>1. CASE Refuse(p)
    BY <2>1, RefuseType
  <2>2. CASE ~ Refuse(p)
    BY <1>6, <2>2 DEF RemoveFails, Goto, Stay, requests, LocalTypeOK, RecordTypeOK,
                      RequestTypeOK
  <2> QED
    BY <2>1, <2>2
<1>7. ASSUME NEW p \in Proc, Drained(p) PROVE TypeOK'
  <2>1. LocalTypeOK'
    BY <1>7 DEF Drained, Goto, Stay, LocalTypeOK
  <2> QED
    BY <1>7, <2>1 DEF Drained, requests, RecordTypeOK, RequestTypeOK
<1>8. ASSUME NEW p \in Proc, NEW run \in Runs, Prepare(p, run) PROVE TypeOK'
  <2>1. CASE Refuse(p)
    BY <2>1, RefuseType
  <2>2. CASE ~ Refuse(p)
    <3>1. /\ Append1(Entry("preparing", NoAttempt, "none"))
          /\ att' = [att EXCEPT ![p] = NextAttempt(run)]
          /\ follows' = [follows EXCEPT ![p] = SinceLastIntent]
          /\ Goto(p, "preparing")
          /\ UNCHANGED <<requests, holder, verb, batch, said, owed>>
      BY <1>8, <2>2 DEF Prepare
    <3>2. RecordTypeOK'
      BY <3>1, AppendType, EntryType, WordTypes
    <3>3. NextAttempt(run) \in Attempts /\ SinceLastIntent \in SUBSET Attempts
      BY NextAttemptType, SinceType DEF RecordTypeOK
    <3>4. LocalTypeOK'
      BY <3>1, <3>3 DEF LocalTypeOK, Goto
    <3> QED
      BY <3>1, <3>2, <3>4 DEF RequestTypeOK, requests
  <2> QED
    BY <2>1, <2>2
<1>9. ASSUME NEW p \in Proc, Prepared(p) PROVE TypeOK'
  <2>1. PICK w \in {"admitted", "refused"} :
          /\ Append1(Entry("prepared", NoAttempt, w))
          /\ Goto(p, IF w = "admitted" THEN "admitted" ELSE "archiving")
    BY <1>9 DEF Prepared
  <2>2. RecordTypeOK'
    BY <2>1, AppendType, EntryType, WordTypes
  <2> QED
    BY <1>9, <2>1, <2>2 DEF Prepared, Goto, Stay, requests, LocalTypeOK,
                            RequestTypeOK
<1>10. ASSUME NEW p \in Proc, Archive(p) PROVE TypeOK'
  <2>1. RecordTypeOK'
    BY <1>10, AppendType, EntryType, WordTypes DEF Archive, RecordTypeOK
  <2>2. LocalTypeOK'
    BY <1>10, ReleaseType DEF Archive
  <2> QED
    BY <1>10, <2>1, <2>2 DEF Archive, requests, RequestTypeOK
<1>11. ASSUME NEW p \in Proc, Begin(p) PROVE TypeOK'
  <2>1. [Entry("intent", att[p], "none") EXCEPT !.follows = follows[p]] \in Entries
    BY IntentType DEF LocalTypeOK
  <2>2. RecordTypeOK'
    BY <1>11, <2>1, AppendType DEF Begin
  <2> QED
    BY <1>11, <2>2 DEF Begin, Goto, Stay, requests, LocalTypeOK, RequestTypeOK
<1>12. ASSUME NEW p \in Proc, RefuseBeforeSpawn(p) \/ Spawn(p) \/ Decide(p) \/ AgentEnds(p)
       PROVE  TypeOK'
  <2>1. RecordTypeOK' /\ RequestTypeOK' /\ UNCHANGED <<att, batch>> /\ Stay
    BY <1>12 DEF RefuseBeforeSpawn, Spawn, Decide, AgentEnds, requests, RecordTypeOK,
                 RequestTypeOK
  <2>2. \E s \in Steps, w \in Said :
          Goto(p, s) /\ (said' = [said EXCEPT ![p] = w] \/ UNCHANGED said)
    BY <1>12, WordTypes DEF RefuseBeforeSpawn, Spawn, Decide, AgentEnds
  <2> QED
    BY <2>1, <2>2 DEF LocalTypeOK, Goto, Stay
<1>13. ASSUME NEW p \in Proc, LeaveLive(p) PROVE TypeOK'
  BY <1>13, RefuseType DEF LeaveLive
<1>14. ASSUME NEW p \in Proc, Conclude(p) PROVE TypeOK'
  <2>1. PICK w \in {said[p], "refused", "interrupted"} :
          /\ Append1(Entry("outcome", att[p], w))
          /\ \/ Goto(p, "confirming") /\ Stay /\ UNCHANGED <<att, batch, said>>
             \/ Release(p)
    BY <1>14 DEF Conclude
  <2>2. w \in Words /\ att[p] \in Attempts \cup {NoAttempt}
    BY <2>1, WordTypes DEF LocalTypeOK
  <2>3. RecordTypeOK'
    BY <2>1, <2>2, AppendType, EntryType, WordTypes
  <2>4. LocalTypeOK'
    <3>1. CASE Release(p)
      BY <3>1, ReleaseType
    <3>2. CASE Goto(p, "confirming") /\ Stay /\ UNCHANGED <<att, batch, said>>
      BY <3>2 DEF LocalTypeOK, Goto, Stay
    <3> QED
      BY <2>1, <3>1, <3>2
  <2> QED
    BY <1>14, <2>3, <2>4 DEF Conclude, requests, RequestTypeOK
<1>15. ASSUME NEW p \in Proc, ConfirmStop(p) PROVE TypeOK'
  <2>1. att[p] \in Attempts \cup {NoAttempt}
    BY DEF LocalTypeOK
  <2>2. RecordTypeOK'
    BY <1>15, <2>1, AppendType, EntryType, WordTypes DEF ConfirmStop, RecordTypeOK
  <2>3. LocalTypeOK'
    BY <1>15, ReleaseType DEF ConfirmStop
  <2> QED
    BY <1>15, <2>2, <2>3 DEF ConfirmStop, requests, RequestTypeOK
<1>16. ASSUME NEW p \in Proc, Change(p) PROVE TypeOK'
  <2>1. CASE Refuse(p)
    BY <2>1, RefuseType
  <2>2. CASE ~ Refuse(p)
    <3>1. PICK c \in Changes \ {"garbled"}, S \in ScopeSets :
            /\ Append1(ChangeEntry(NextName, c, S))
            /\ ask' = [ask EXCEPT ![NextName] = [change |-> c, scopes |-> S]]
            /\ stage' = [stage EXCEPT ![NextName] = "direct"]
            /\ Release(p)
      BY <1>16, <2>2 DEF Change
    <3>2. NextName \in Requests /\ c \in {"halt", "resume"} /\ S \in SUBSET Scopes
      BY <1>16, NextNameType, RunControlAssumption DEF Change, Unused
    <3>3. RecordTypeOK'
      BY <3>1, <3>2, AppendType, ChangeEntryType DEF RecordTypeOK
    <3>4. LocalTypeOK'
      BY <3>1, ReleaseType
    <3>5. RequestTypeOK'
      BY <3>1, <3>2 DEF RequestTypeOK, Stages
    <3> QED
      BY <3>3, <3>4, <3>5
  <2> QED
    BY <2>1, <2>2
<1>17. ASSUME NEW c \in Changes, NEW S \in ScopeSets, Ask(c, S) PROVE TypeOK'
  <2>1. c \in {"halt", "resume", "garbled"} /\ S \in SUBSET Scopes
    BY RunControlAssumption
  <2>2. RequestTypeOK'
    BY <1>17, <2>1 DEF Ask, RequestTypeOK, Stages
  <2> QED
    BY <1>17, <2>2 DEF Ask, local, LocalTypeOK, RecordTypeOK
<1>18. ASSUME NEW r \in Requests, Publish(r) PROVE TypeOK'
  BY <1>18 DEF Publish, local, LocalTypeOK, RecordTypeOK, RequestTypeOK, Stages
<1>19. ASSUME NEW p \in Proc, Reconcile(p) PROVE TypeOK'
  <2>1. ASSUME NEW a \in Live, NEW w \in Findings
        PROVE  Entry("reconciled", a, w) \in Entries
    BY <2>1, FoldTypes, EntryType, WordTypes DEF RecordTypeOK
  <2>2. RecordTypeOK'
    BY <1>19, <2>1, AppendType DEF Reconcile, RecordTypeOK
  <2>3. LocalTypeOK'
    BY <1>19, ReleaseType DEF Reconcile
  <2> QED
    BY <1>19, <2>2, <2>3 DEF Reconcile, requests, RequestTypeOK
<1>20. ASSUME NEW p \in Proc, Crash(p) PROVE TypeOK'
  <2>1. LocalTypeOK'
    BY <1>20, ReleaseType DEF Crash
  <2> QED
    BY <1>20, <2>1 DEF Crash, requests, RecordTypeOK, RequestTypeOK
<1>21. CASE UNCHANGED vars
  BY <1>21 DEF vars, local, requests, LocalTypeOK, RecordTypeOK, RequestTypeOK
<1> QED
  BY <1>1, <1>2, <1>3, <1>4, <1>5, <1>6, <1>7, <1>8, <1>9, <1>10, <1>11, <1>12,
     <1>13, <1>14, <1>15, <1>16, <1>17, <1>18, <1>19, <1>20, <1>21 DEF Next, Step

(* ---------------------------------------------------------------------- *)
(* What an append does to the folds.                                       *)

LEMMA QuietFolds ==
  ASSUME UNCHANGED record
  PROVE  /\ Intents' = Intents
         /\ Concluded' = Concluded
         /\ Live' = Live
         /\ RecordInv => RecordInv'
BY DEF Intents, Concluded, Live, Positions, RecordInv, Named, Numbered,
       EndsWhatBegan, OneLiveAttempt, EndsOnce, OfRun

LEMMA AppendFolds ==
  ASSUME record \in Seq(Entries), NEW e \in Entries, Append1(e)
  PROVE  /\ Intents' = IF e.kind = "intent" THEN Intents \cup {e.att} ELSE Intents
         /\ Concluded' = IF Ends(e) THEN Concluded \cup {e.att} ELSE Concluded
         /\ DOMAIN record' = 1 .. Len(record) + 1
         /\ \A i \in 1 .. Len(record) : record'[i] = record[i]
         /\ record'[Len(record) + 1] = e
<1>1. /\ record' = Append(record, e)
      /\ Len(record) \in Nat
      /\ DOMAIN record = 1 .. Len(record)
  BY DEF Append1
<1>2. /\ DOMAIN record' = 1 .. Len(record) + 1
      /\ \A i \in 1 .. Len(record) : record'[i] = record[i]
      /\ record'[Len(record) + 1] = e
  BY <1>1
<1> DEFINE n == Len(record) + 1
<1>3. DOMAIN record' = DOMAIN record \cup {n} /\ n \notin DOMAIN record
  BY <1>1, <1>2
<1>4. \A i \in DOMAIN record : record'[i] = record[i]
  BY <1>1, <1>2
<1>5. record'[n] = e
  BY <1>2
<1> HIDE DEF n
<1>6. Intents' = IF e.kind = "intent" THEN Intents \cup {e.att} ELSE Intents
  BY <1>3, <1>4, <1>5 DEF Intents, Positions
<1>7. Concluded' = IF Ends(e) THEN Concluded \cup {e.att} ELSE Concluded
  BY <1>3, <1>4, <1>5 DEF Concluded, Ends
<1> QED
  BY <1>2, <1>6, <1>7

LEMMA NamedKept ==
  ASSUME record \in Seq(Entries), Named, NEW e \in Entries, Append1(e),
         e.kind \in {"intent", "outcome", "reconciled"} => e.att \in Attempts
  PROVE  Named'
<1>1. \A i \in DOMAIN record' : i \in DOMAIN record \/ i = Len(record) + 1
  BY AppendFolds
<1> QED
  BY <1>1, AppendFolds DEF Named

LEMMA IntentsAreAttempts ==
  ASSUME Named
  PROVE  Intents \subseteq Attempts
BY DEF Named, Intents, Positions

\* Entries no fold of the attempts reads.
LEMMA PlainAppend ==
  ASSUME record \in Seq(Entries), RecordInv, NEW e \in Entries, Append1(e),
         e.kind # "intent", ~ Ends(e),
         e.kind \in {"outcome", "reconciled"} => e.att \in Attempts
  PROVE  RecordInv' /\ Intents' = Intents /\ Concluded' = Concluded /\ Live' = Live
<1>1. Intents' = Intents /\ Concluded' = Concluded
  BY AppendFolds
<1>2. Live' = Live
  BY <1>1 DEF Live
<1>3. Named'
  BY NamedKept DEF RecordInv
<1>4. Numbered' /\ EndsWhatBegan' /\ OneLiveAttempt'
  BY <1>1, <1>2 DEF RecordInv, Numbered, EndsWhatBegan, OneLiveAttempt, OfRun
<1>5. EndsOnce'
  <2>1. \A i \in DOMAIN record' : Ends(record'[i]) =>
           i \in DOMAIN record /\ record'[i] = record[i] /\ Ends(record[i])
    BY AppendFolds DEF Ends
  <2> QED
    BY <2>1 DEF RecordInv, EndsOnce, Ends
<1> QED
  BY <1>1, <1>2, <1>3, <1>4, <1>5 DEF RecordInv

\* An attempt's intent, appended while nothing is live.
LEMMA BeginAppend ==
  ASSUME record \in Seq(Entries), RecordInv, NEW e \in Entries, Append1(e),
         e.kind = "intent", Live = {}, e.att \in Attempts \ Intents,
         e.att.n <= Cardinality(OfRun(e.att.run)) + 1
  PROVE  RecordInv' /\ Live' = {e.att}
<1> DEFINE new == e.att
<1>1. ~ Ends(e)
  BY DEF Ends
<1>2. Intents' = Intents \cup {new} /\ Concluded' = Concluded
  BY <1>1, AppendFolds
<1>3. new \notin Concluded
  BY DEF RecordInv, EndsWhatBegan
<1>4. Live' = {new}
  BY <1>2, <1>3 DEF Live
<1>5. Named'
  BY NamedKept DEF RecordInv
<1>6. Numbered'
  <2> SUFFICES ASSUME NEW a \in Intents'
               PROVE  a.n <= Cardinality(OfRun(a.run)')
    BY DEF Numbered
  <2>1. IsFiniteSet(OfRun(a.run)) /\ Cardinality(OfRun(a.run)) \in Nat
    BY IntentsFinite DEF OfRun
  <2>2. new \notin OfRun(a.run)
    BY DEF OfRun
  <2>3. Cardinality(OfRun(a.run) \cup {new}) = Cardinality(OfRun(a.run)) + 1
    BY <2>1, <2>2, FS_AddElement
  <2>4. OfRun(a.run)' = IF new.run = a.run THEN OfRun(a.run) \cup {new} ELSE OfRun(a.run)
    BY <1>2 DEF OfRun
  <2>5. CASE a = new
    BY <2>3, <2>4, <2>5
  <2>6. CASE a # new
    <3>1. a \in Intents /\ a \in Attempts
      BY <1>2, <2>6, IntentsAreAttempts DEF RecordInv
    <3>2. a.n <= Cardinality(OfRun(a.run)) /\ a.n \in Nat
      BY <3>1 DEF RecordInv, Numbered, Attempts
    <3> QED
      BY <2>1, <2>3, <2>4, <3>2
  <2> QED
    BY <2>5, <2>6
<1>7. EndsWhatBegan' /\ OneLiveAttempt'
  BY <1>2, <1>4 DEF RecordInv, EndsWhatBegan, OneLiveAttempt
<1>8. EndsOnce'
  <2>1. \A i \in DOMAIN record' : Ends(record'[i]) =>
           i \in DOMAIN record /\ record'[i] = record[i] /\ Ends(record[i])
    BY <1>1, AppendFolds DEF Ends
  <2> QED
    BY <2>1 DEF RecordInv, EndsOnce, Ends
<1> QED
  BY <1>4, <1>5, <1>6, <1>7, <1>8 DEF RecordInv

\* An outcome or a conclusive reconciliation of the live attempt.
LEMMA EndAppend ==
  ASSUME record \in Seq(Entries), RecordInv, NEW e \in Entries, Append1(e),
         Ends(e), e.att \in Live
  PROVE  RecordInv' /\ Intents' = Intents /\ Live' = Live \ {e.att}
<1>1. e.kind \in {"outcome", "reconciled"}
  BY DEF Ends
<1>2. Intents' = Intents /\ Concluded' = Concluded \cup {e.att}
  BY <1>1, AppendFolds
<1>3. Live' = Live \ {e.att}
  BY <1>2 DEF Live
<1>4. e.att \in Intents /\ e.att \notin Concluded
  BY DEF Live
<1>5. Named'
  BY <1>1, <1>4, IntentsAreAttempts, NamedKept DEF RecordInv
<1>6. Numbered' /\ EndsWhatBegan' /\ OneLiveAttempt'
  BY <1>2, <1>3, <1>4 DEF RecordInv, Numbered, EndsWhatBegan, OneLiveAttempt, OfRun
<1>7. EndsOnce'
  <2>1. \A i \in DOMAIN record' :
           \/ i = Len(record) + 1 /\ record'[i] = e
           \/ i \in DOMAIN record /\ record'[i] = record[i]
    BY AppendFolds
  <2>2. \A i \in DOMAIN record : Ends(record[i]) => record[i].att # e.att
    BY <1>4 DEF Concluded
  <2> QED
    BY <2>1, <2>2 DEF RecordInv, EndsOnce, Ends
<1> QED
  BY <1>2, <1>3, <1>5, <1>6, <1>7 DEF RecordInv

(* ---------------------------------------------------------------------- *)
(* The lock keeps everyone but its holder where they are.                  *)

LEMMA OthersIdle ==
  ASSUME LockHeld, NEW p \in Proc, pc[p] # "idle" \/ holder = NoProc
  PROVE  \A q \in Proc \ {p} : pc[q] = "idle"
BY RunControlAssumption DEF LockHeld

\* A step of one process changes what that process relies on and no more.
LEMMA OneMoves ==
  ASSUME LockHeld, \A q \in Proc : Fits(q),
         NEW p \in Proc, pc[p] # "idle" \/ holder = NoProc,
         \A q \in Proc \ {p} : pc'[q] = pc[q] /\ att'[q] = att[q],
         holder' = p \/ pc'[p] = "idle",
         Fits(p)'
  PROVE  LockHeld' /\ \A q \in Proc : Fits(q)'
<1>1. \A q \in Proc \ {p} : pc'[q] = "idle" /\ att'[q] = NoAttempt
  BY OthersIdle DEF Fits
<1>2. LockHeld'
  BY <1>1 DEF LockHeld
<1>3. ASSUME NEW q \in Proc \ {p} PROVE Fits(q)'
  BY <1>1, <1>3 DEF Fits, Supervises, Supervising
<1> QED
  BY <1>2, <1>3

LEMMA ReleaseFits ==
  ASSUME TypeOK, LockHeld, \A q \in Proc : Fits(q), NEW p \in Proc, pc[p] # "idle",
         Release(p)
  PROVE  LockHeld' /\ \A q \in Proc : Fits(q)'
<1>1. pc'[p] = "idle" /\ att'[p] = NoAttempt
  BY DEF Release, Goto, TypeOK, LocalTypeOK
<1>2. \A q \in Proc \ {p} : pc'[q] = pc[q] /\ att'[q] = att[q]
  BY DEF Release, Goto, TypeOK, LocalTypeOK
<1>3. Fits(p)'
  BY <1>1 DEF Fits, Supervises, Supervising
<1> QED
  BY <1>1, <1>2, <1>3, OneMoves

\* A step that leaves the record, the attempts and the holder alone and moves
\* one process from a step where it supervises, or not, to another such step.
LEMMA GotoFits ==
  ASSUME TypeOK, LockHeld, \A q \in Proc : Fits(q), NEW p \in Proc, pc[p] # "idle",
         NEW s, Goto(p, s), UNCHANGED <<record, torn, att, holder>>,
         s \notin {"idle", "locked", "preparing", "admitted"},
         s \in Supervising => Supervises(p),
         s \in {"draining", "removing"} => Supervises(p) \/ att[p] = NoAttempt
  PROVE  LockHeld' /\ \A q \in Proc : Fits(q)'
<1>1. pc'[p] = s /\ \A q \in Proc \ {p} : pc'[q] = pc[q] /\ att'[q] = att[q]
  BY DEF Goto, TypeOK, LocalTypeOK
<1>2. holder' = p
  BY DEF LockHeld
<1>3. Supervises(p)' => Supervises(p)
  BY <1>1 DEF Supervises, Supervising
<1>4. Live' = Live
  BY QuietFolds
<1>5. Fits(p)'
  BY <1>1, <1>3, <1>4 DEF Fits
<1> QED
  BY <1>1, <1>2, <1>5, OneMoves

\* The same for a step that appends an entry no fold of the attempts reads.
LEMMA PlainGotoFits ==
  ASSUME TypeOK, RecordInv, LockHeld, \A q \in Proc : Fits(q),
         NEW p \in Proc, pc[p] # "idle",
         NEW e \in Entries, Append1(e), e.kind # "intent", ~ Ends(e),
         e.kind \in {"outcome", "reconciled"} => e.att \in Attempts,
         NEW s, Goto(p, s), UNCHANGED <<att, holder>>,
         s \notin {"idle", "locked", "preparing", "admitted"},
         s \in Supervising => Supervises(p),
         s \in {"draining", "removing"} => Supervises(p) \/ att[p] = NoAttempt
  PROVE  RecordInv' /\ LockHeld' /\ \A q \in Proc : Fits(q)'
<1>1. pc'[p] = s /\ \A q \in Proc \ {p} : pc'[q] = pc[q] /\ att'[q] = att[q]
  BY DEF Goto, TypeOK, LocalTypeOK
<1>2. holder' = p
  BY DEF LockHeld
<1>3. Supervises(p)' => Supervises(p)
  BY <1>1 DEF Supervises, Supervising
<1>4. RecordInv' /\ Live' = Live
  BY PlainAppend DEF TypeOK, RecordTypeOK
<1>5. torn' = FALSE
  BY DEF Append1
<1>6. Fits(p)'
  BY <1>1, <1>3, <1>4, <1>5 DEF Fits
<1> QED
  BY <1>1, <1>2, <1>4, <1>6, OneMoves

LEMMA RefuseInv ==
  ASSUME IInv, NEW p \in Proc, pc[p] # "idle", Refuse(p)
  PROVE  RecordInv' /\ LockHeld' /\ \A q \in Proc : Fits(q)'
BY ReleaseFits, QuietFolds DEF Refuse, IInv

LEMMA LocalInvStep ==
  ASSUME IInv, [Next]_vars
  PROVE  RecordInv' /\ LockHeld' /\ \A q \in Proc : Fits(q)'
<1> DEFINE Goal == RecordInv' /\ LockHeld' /\ \A q \in Proc : Fits(q)'
<1> USE DEF IInv
<1>1. ASSUME NEW p \in Proc, NEW v \in {"run", "change", "reconcile"},
             TryAcquire(p, v)
      PROVE  Goal
  <2>1. /\ pc'[p] = "locked" /\ att'[p] = att[p] /\ holder' = p
        /\ \A q \in Proc \ {p} : pc'[q] = pc[q] /\ att'[q] = att[q]
    BY <1>1 DEF TryAcquire, Goto, TypeOK, LocalTypeOK
  <2>2. att[p] = NoAttempt
    BY <1>1 DEF TryAcquire, Fits
  <2>3. Fits(p)'
    BY <2>1, <2>2 DEF Fits, Supervises, Supervising
  <2>4. holder = NoProc /\ UNCHANGED record
    BY <1>1 DEF TryAcquire
  <2> QED
    BY <2>1, <2>3, <2>4, OneMoves, QuietFolds
<1>2. ASSUME NEW p \in Proc, ListRequests(p) PROVE Goal
  <2>1. CASE Refuse(p)
    BY <1>2, <2>1, RefuseInv DEF ListRequests
  <2>2. CASE ~ Refuse(p)
    <3>1. /\ pc[p] = "locked"
          /\ Goto(p, "draining")
          /\ UNCHANGED <<record, torn, att, holder>>
      BY <1>2, <2>2 DEF ListRequests, Stay
    <3>2. att[p] = NoAttempt
      BY <3>1 DEF Fits
    <3> QED
      BY <3>1, <3>2, GotoFits, QuietFolds DEF Supervising
  <2> QED
    BY <2>1, <2>2
<1>3. ASSUME NEW p \in Proc, Poll(p) PROVE Goal
  <2>1. /\ pc[p] = "running"
        /\ UNCHANGED <<record, torn, att, holder>>
        /\ Goto(p, "ended") \/ Goto(p, "draining")
    BY <1>3 DEF Poll, Stay
  <2>2. Supervises(p)
    BY <2>1 DEF Supervises, Supervising
  <2> QED
    BY <2>1, <2>2, GotoFits, QuietFolds
<1>4. ASSUME NEW p \in Proc, ApplyRequest(p) PROVE Goal
  <2> DEFINE r == Oldest(batch[p])
             e == ChangeEntry(r, ask[r].change, ask[r].scopes)
  <2>1. pc[p] = "draining" /\ (Supervises(p) \/ att[p] = NoAttempt)
    BY <1>4 DEF ApplyRequest, Supervises
  <2>2. CASE Refuse(p)
    BY <2>1, <2>2, RefuseInv
  <2>3. CASE ~ Refuse(p)
    <3>1. /\ Goto(p, "removing")
          /\ UNCHANGED <<att, holder>>
          /\ UNCHANGED <<record, torn>> \/ Append1(e)
      BY <1>4, <2>3 DEF ApplyRequest, Stay
    <3>2. CASE UNCHANGED <<record, torn>>
      BY <2>1, <3>1, <3>2, GotoFits, QuietFolds DEF Supervising
    <3>3. CASE Append1(e)
      <4>1. r \in batch[p] /\ r \in Requests
        BY <1>4, OldestLeast DEF ApplyRequest, TypeOK, LocalTypeOK
      <4>2. ask[r].change \in {"halt", "resume"} /\ ask[r].scopes \in SUBSET Scopes
        BY <4>1 DEF BatchReads, TypeOK, RequestTypeOK
      <4>3. e \in Entries /\ e.kind \in {"halt", "resume"}
        BY <4>1, <4>2, ChangeEntryType DEF TypeOK, RecordTypeOK
      <4>4. ~ Ends(e)
        BY <4>3 DEF Ends
      <4> HIDE DEF e
      <4> QED
        BY <2>1, <3>1, <3>3, <4>3, <4>4, PlainGotoFits DEF Supervising
    <3> QED
      BY <3>1, <3>2, <3>3
  <2> QED
    BY <2>2, <2>3
<1>5. ASSUME NEW p \in Proc, RemoveRequest(p) PROVE Goal
  <2>1. /\ pc[p] = "removing"
        /\ Goto(p, "draining")
        /\ UNCHANGED <<record, torn, att, holder>>
    BY <1>5 DEF RemoveRequest, Stay
  <2>2. Supervises(p) \/ att[p] = NoAttempt
    BY <2>1 DEF Supervises
  <2> QED
    BY <2>1, <2>2, GotoFits, QuietFolds DEF Supervising
<1>6. ASSUME NEW p \in Proc, RemoveFails(p) PROVE Goal
  <2>1. CASE Refuse(p)
    BY <1>6, <2>1, RefuseInv DEF RemoveFails
  <2>2. CASE ~ Refuse(p)
    <3>1. /\ pc[p] = "removing" /\ att[p] # NoAttempt
          /\ Goto(p, "deciding")
          /\ UNCHANGED <<record, torn, att, holder>>
      BY <1>6, <2>2 DEF RemoveFails, Stay
    <3>2. Supervises(p)
      BY <3>1 DEF Supervises
    <3> QED
      BY <3>1, <3>2, GotoFits, QuietFolds
  <2> QED
    BY <2>1, <2>2
<1>7. ASSUME NEW p \in Proc, Drained(p) PROVE Goal
  <2>1. /\ pc[p] = "draining"
        /\ UNCHANGED <<record, torn, att, holder>>
        /\ \/ att[p] # NoAttempt /\ Goto(p, "deciding")
           \/ Goto(p, "ready") \/ Goto(p, "changing") \/ Goto(p, "finding")
    BY <1>7 DEF Drained, Stay
  <2>2. att[p] # NoAttempt => Supervises(p)
    BY <2>1 DEF Supervises
  <2> QED
    BY <2>1, <2>2, GotoFits, QuietFolds DEF Supervising
<1>8. ASSUME NEW p \in Proc, NEW run \in Runs, Prepare(p, run) PROVE Goal
  <2>1. CASE Refuse(p)
    BY <1>8, <2>1, RefuseInv DEF Prepare
  <2>2. CASE ~ Refuse(p)
    <3> DEFINE e == Entry("preparing", NoAttempt, "none")
    <3>0. PICK a : a = NextAttempt(run)
      OBVIOUS
    <3>1. /\ pc[p] = "ready" /\ Live = {}
          /\ Append1(e)
          /\ att' = [att EXCEPT ![p] = a]
          /\ Goto(p, "preparing")
          /\ UNCHANGED holder
      BY <1>8, <2>2, <3>0 DEF Prepare
    <3>2. e \in Entries /\ e.kind = "preparing"
      BY EntryType, WordTypes
    <3> HIDE DEF e
    <3>9. ~ Ends(e)
      BY <3>2 DEF Ends
    <3>3. RecordInv' /\ Intents' = Intents /\ Live' = {}
      BY <3>1, <3>2, <3>9, PlainAppend DEF TypeOK, RecordTypeOK
    <3>4. a \in Attempts /\ a.n = Cardinality(OfRun(a.run)) + 1
          /\ Cardinality(OfRun(a.run)) \in Nat
      BY <3>0, NextAttemptType, IntentsFinite DEF OfRun, TypeOK, RecordTypeOK
    <3>5. a \notin Intents
      BY <3>4 DEF RecordInv, Numbered
    <3>6. /\ pc'[p] = "preparing" /\ att'[p] = a /\ holder' = p
          /\ \A q \in Proc \ {p} : pc'[q] = pc[q] /\ att'[q] = att[q]
      BY <3>1 DEF Goto, TypeOK, LocalTypeOK, LockHeld
    <3>7. OfRun(a.run)' = OfRun(a.run)
      BY <3>3 DEF OfRun
    <3>8. Fits(p)'
      BY <3>3, <3>4, <3>5, <3>6, <3>7 DEF Fits, Supervises, Supervising
    <3> QED
      BY <3>1, <3>3, <3>6, <3>8, OneMoves
  <2> QED
    BY <2>1, <2>2
<1>9. ASSUME NEW p \in Proc, Prepared(p) PROVE Goal
  <2>1. PICK w \in {"admitted", "refused"} :
          /\ Append1(Entry("prepared", NoAttempt, w))
          /\ Goto(p, IF w = "admitted" THEN "admitted" ELSE "archiving")
    BY <1>9 DEF Prepared
  <2> DEFINE e == Entry("prepared", NoAttempt, w)
  <2>2. e \in Entries /\ e.kind = "prepared" /\ ~ Ends(e) /\ Append1(e)
    BY <2>1, EntryType, WordTypes DEF Ends
  <2> HIDE DEF e
  <2>3. pc[p] = "preparing" /\ UNCHANGED <<att, holder>>
    BY <1>9 DEF Prepared, Stay
  <2>4. RecordInv' /\ Intents' = Intents /\ Live' = Live
    BY <2>2, PlainAppend DEF TypeOK, RecordTypeOK
  <2>5. /\ pc'[p] \in {"admitted", "archiving"} /\ att'[p] = att[p] /\ holder' = p
        /\ \A q \in Proc \ {p} : pc'[q] = pc[q] /\ att'[q] = att[q]
    BY <2>1, <2>3 DEF Goto, TypeOK, LocalTypeOK, LockHeld
  <2>6. Fits(p)'
    BY <2>3, <2>4, <2>5 DEF Fits, Supervises, Supervising, OfRun
  <2> QED
    BY <2>3, <2>4, <2>5, <2>6, OneMoves
<1>10. ASSUME NEW p \in Proc, Archive(p) PROVE Goal
  <2>1. pc[p] = "archiving" /\ Release(p)
    BY <1>10 DEF Archive
  <2>2. CASE UNCHANGED <<record, torn>>
    BY <2>1, <2>2, ReleaseFits, QuietFolds
  <2>3. CASE Append1(Entry("archived", NoAttempt, "none"))
    <3> DEFINE e == Entry("archived", NoAttempt, "none")
    <3>1. e \in Entries /\ e.kind = "archived" /\ ~ Ends(e)
      BY EntryType, WordTypes DEF Ends
    <3> HIDE DEF e
    <3>2. RecordInv'
      BY <2>3, <3>1, PlainAppend DEF TypeOK, RecordTypeOK, e
    <3> QED
      BY <2>1, <3>2, ReleaseFits
  <2> QED
    BY <1>10, <2>2, <2>3 DEF Archive
<1>11. ASSUME NEW p \in Proc, Begin(p) PROVE Goal
  <2> DEFINE e == [Entry("intent", att[p], "none") EXCEPT !.follows = follows[p]]
  <2>1. /\ pc[p] = "admitted" /\ Append1(e) /\ Goto(p, "intended")
        /\ UNCHANGED <<att, holder>>
    BY <1>11 DEF Begin, Stay
  <2>2. e \in Entries /\ e.kind = "intent" /\ e.att = att[p]
    BY IntentType, SMTT(30) DEF TypeOK, LocalTypeOK
  <2> HIDE DEF e
  <2>3. /\ Live = {} /\ att[p] \in Attempts \ Intents
        /\ att[p].n <= Cardinality(OfRun(att[p].run)) + 1
    BY <2>1 DEF Fits
  <2>4. RecordInv' /\ Live' = {att[p]}
    BY <2>1, <2>2, <2>3, BeginAppend DEF TypeOK, RecordTypeOK
  <2>5. /\ pc'[p] = "intended" /\ att'[p] = att[p] /\ holder' = p /\ ~ torn'
        /\ \A q \in Proc \ {p} : pc'[q] = pc[q] /\ att'[q] = att[q]
    BY <2>1 DEF Goto, TypeOK, LocalTypeOK, LockHeld, Append1
  <2>6. Fits(p)'
    BY <2>4, <2>5 DEF Fits, Supervises, Supervising
  <2> QED
    BY <2>1, <2>4, <2>5, <2>6, OneMoves
<1>12. ASSUME NEW p \in Proc, RefuseBeforeSpawn(p) \/ Spawn(p) \/ Decide(p) \/ AgentEnds(p)
       PROVE  Goal
  <2>1. /\ Supervises(p) /\ pc[p] # "idle"
        /\ UNCHANGED <<record, torn, att, holder>>
        /\ Goto(p, "refusing") \/ Goto(p, "running") \/ Goto(p, "ended")
    BY <1>12 DEF RefuseBeforeSpawn, Spawn, Decide, AgentEnds, Stay, Supervises,
                 Supervising
  <2> QED
    BY <2>1, GotoFits, QuietFolds
<1>13. ASSUME NEW p \in Proc, LeaveLive(p) PROVE Goal
  BY <1>13, RefuseInv DEF LeaveLive
<1>14. ASSUME NEW p \in Proc, Conclude(p) PROVE Goal
  <2>1. PICK w \in {said[p], "refused", "interrupted"} :
          /\ Append1(Entry("outcome", att[p], w))
          /\ \/ Goto(p, "confirming") /\ Stay /\ UNCHANGED <<att, batch, said>>
             \/ Release(p)
    BY <1>14 DEF Conclude
  <2> DEFINE e == Entry("outcome", att[p], w)
  <2>2. pc[p] \in {"ended", "refusing"} /\ att[p] \in Live
    BY <1>14 DEF Conclude, Fits, Supervises, Supervising
  <2>3. w \in Words
    BY WordTypes DEF TypeOK, LocalTypeOK
  <2>8. att[p] \in Attempts \cup {NoAttempt}
    BY DEF TypeOK, LocalTypeOK
  <2>4. e \in Entries /\ e.kind = "outcome" /\ e.att = att[p]
    BY <2>3, <2>8, EntryType, WordTypes
  <2> HIDE DEF e
  <2>9. Ends(e)
    BY <2>4 DEF Ends
  <2>5. RecordInv'
    BY <2>1, <2>2, <2>4, <2>9, EndAppend DEF TypeOK, RecordTypeOK, e
  <2>6. CASE Release(p)
    BY <2>2, <2>5, <2>6, ReleaseFits
  <2>7. CASE Goto(p, "confirming") /\ Stay /\ UNCHANGED <<att, batch, said>>
    <3>1. /\ pc'[p] = "confirming" /\ holder' = p
          /\ \A q \in Proc \ {p} : pc'[q] = pc[q] /\ att'[q] = att[q]
      BY <2>2, <2>7 DEF Goto, Stay, TypeOK, LocalTypeOK, LockHeld
    <3>2. Fits(p)'
      BY <3>1 DEF Fits, Supervises, Supervising
    <3> QED
      BY <2>2, <2>5, <3>1, <3>2, OneMoves
  <2> QED
    BY <2>1, <2>6, <2>7
<1>15. ASSUME NEW p \in Proc, ConfirmStop(p) PROVE Goal
  <2>1. pc[p] = "confirming" /\ Release(p)
    BY <1>15 DEF ConfirmStop
  <2>2. CASE UNCHANGED <<record, torn>>
    BY <2>1, <2>2, ReleaseFits, QuietFolds
  <2>3. CASE Append1(Entry("stopped", att[p], "none"))
    <3> DEFINE e == Entry("stopped", att[p], "none")
    <3>3. att[p] \in Attempts \cup {NoAttempt}
      BY DEF TypeOK, LocalTypeOK
    <3>1. e \in Entries /\ e.kind = "stopped"
      BY <3>3, EntryType, WordTypes
    <3> HIDE DEF e
    <3>4. ~ Ends(e)
      BY <3>1 DEF Ends
    <3>2. RecordInv'
      BY <2>3, <3>1, <3>4, PlainAppend DEF TypeOK, RecordTypeOK, e
    <3> QED
      BY <2>1, <3>2, ReleaseFits
  <2> QED
    BY <1>15, <2>2, <2>3 DEF ConfirmStop
<1>16. ASSUME NEW p \in Proc, Change(p) PROVE Goal
  <2>1. CASE Refuse(p)
    BY <1>16, <2>1, RefuseInv DEF Change
  <2>2. CASE ~ Refuse(p)
    <3>1. PICK c \in Changes \ {"garbled"}, S \in ScopeSets :
            Append1(ChangeEntry(NextName, c, S)) /\ Release(p)
      BY <1>16, <2>2 DEF Change
    <3> DEFINE e == ChangeEntry(NextName, c, S)
    <3>2. NextName \in Requests /\ c \in {"halt", "resume"} /\ S \in SUBSET Scopes
      BY <1>16, NextNameType, RunControlAssumption DEF Change, Unused, TypeOK
    <3>3. e \in Entries /\ e.kind \in {"halt", "resume"} /\ ~ Ends(e)
      BY <3>2, ChangeEntryType DEF TypeOK, RecordTypeOK, Ends
    <3> HIDE DEF e
    <3>4. RecordInv'
      BY <3>1, <3>3, PlainAppend DEF TypeOK, RecordTypeOK, e
    <3> QED
      BY <1>16, <3>1, <3>4, ReleaseFits DEF Change
  <2> QED
    BY <2>1, <2>2
<1>17. ASSUME UNCHANGED <<record, torn, holder, local>> PROVE Goal
  <2>1. Live' = Live /\ Intents' = Intents /\ RecordInv'
    BY <1>17, QuietFolds
  <2>2. UNCHANGED <<torn, holder, pc, att>>
    BY <1>17 DEF local
  <2>3. \A q \in Proc : Fits(q)'
    BY <2>1, <2>2 DEF Fits, Supervises, OfRun
  <2> QED
    BY <2>1, <2>2, <2>3 DEF LockHeld
<1>18. ASSUME NEW p \in Proc, Reconcile(p) PROVE Goal
  <2>1. pc[p] = "finding" /\ Release(p)
    BY <1>18 DEF Reconcile
  <2>2. CASE UNCHANGED <<record, torn>>
    BY <2>1, <2>2, ReleaseFits, QuietFolds
  <2>3. ASSUME NEW a \in Live, NEW w \in Findings,
               Append1(Entry("reconciled", a, w))
        PROVE  Goal
    <3> DEFINE e == Entry("reconciled", a, w)
    <3>1. a \in Attempts
      BY IntentsAreAttempts DEF RecordInv, Live
    <3>2. e \in Entries /\ e.kind = "reconciled" /\ e.att = a /\ e.word = w
      BY <3>1, EntryType, WordTypes
    <3> HIDE DEF e
    <3>3. CASE Ends(e)
      <4>1. RecordInv'
        BY <2>3, <3>2, <3>3, EndAppend DEF TypeOK, RecordTypeOK, e
      <4> QED
        BY <2>1, <4>1, ReleaseFits
    <3>4. CASE ~ Ends(e)
      <4>1. RecordInv'
        BY <2>3, <3>1, <3>2, <3>4, PlainAppend DEF TypeOK, RecordTypeOK, e
      <4> QED
        BY <2>1, <4>1, ReleaseFits
    <3> QED
      BY <3>3, <3>4
  <2> QED
    BY <1>18, <2>2, <2>3 DEF Reconcile
<1>19. ASSUME NEW p \in Proc, Crash(p) PROVE Goal
  BY <1>19, ReleaseFits, QuietFolds DEF Crash
<1>20. CASE UNCHANGED vars
  BY <1>17, <1>20 DEF vars
<1>21. ASSUME NEW c \in Changes, NEW S \in ScopeSets, Ask(c, S) PROVE Goal
  BY <1>17, <1>21 DEF Ask
<1>22. ASSUME NEW r \in Requests, Publish(r) PROVE Goal
  BY <1>17, <1>22 DEF Publish
<1> QED
  BY <1>1, <1>2, <1>3, <1>4, <1>5, <1>6, <1>7, <1>8, <1>9, <1>10, <1>11, <1>12,
     <1>13, <1>14, <1>15, <1>16, <1>18, <1>19, <1>20, <1>21, <1>22 DEF Next, Step

(* ---------------------------------------------------------------------- *)
(* The queue: what was listed stays readable.                              *)

LEMMA BatchStep ==
  ASSUME IInv, [Next]_vars
  PROVE  BatchReads'
<1> USE DEF IInv, TypeOK, LocalTypeOK, RequestTypeOK
<1>1. ASSUME NEW p \in Proc, UNCHANGED requests,
             \A q \in Proc : batch'[q] \subseteq batch[q]
      PROVE  BatchReads'
  BY <1>1 DEF BatchReads, requests
<1>2. ASSUME NEW p \in Proc, Release(p) PROVE \A q \in Proc : batch'[q] \subseteq batch[q]
  BY <1>2 DEF Release
<1>3. ASSUME NEW p \in Proc, Refuse(p) PROVE BatchReads'
  BY <1>1, <1>2, <1>3 DEF Refuse
<1>4. ASSUME NEW p \in Proc, ListRequests(p) \/ Poll(p) PROVE BatchReads'
  <2>1. CASE Refuse(p)
    BY <1>3, <2>1
  <2>2. CASE UNCHANGED <<requests, batch>>
    BY <2>2 DEF BatchReads, requests
  <2>3. CASE /\ UNCHANGED requests
             /\ batch' = [batch EXCEPT ![p] = Queued]
             /\ ~ \E r \in Queued : ask[r].change = "garbled"
    <3>1. \A r \in Queued : stage[r] # "none" /\ ask[r].change \in {"halt", "resume"}
      BY <2>3 DEF Queued
    <3> QED
      BY <2>3, <3>1 DEF BatchReads, requests
  <2> QED
    BY <1>4, <2>1, <2>2, <2>3 DEF ListRequests, Poll
<1>5. ASSUME NEW p \in Proc, RemoveRequest(p) PROVE BatchReads'
  <2>1. \A q \in Proc : batch'[q] \subseteq batch[q]
    BY <1>5 DEF RemoveRequest
  <2>2. \A r \in Requests : stage[r] # "none" => stage'[r] # "none"
    BY <1>5 DEF RemoveRequest
  <2>3. \A q \in Proc : \A r \in batch[q] : r \in Requests
    OBVIOUS
  <2> QED
    BY <1>5, <2>1, <2>2, <2>3 DEF RemoveRequest, BatchReads
<1>6. ASSUME Unused # {}, NEW c, NEW S, NEW s \in {"direct", "queued", "hidden"},
             ask' = [ask EXCEPT ![NextName] = [change |-> c, scopes |-> S]],
             stage' = [stage EXCEPT ![NextName] = s],
             \A q \in Proc : batch'[q] \subseteq batch[q]
      PROVE  BatchReads'
  <2>1. NextName \in Requests /\ stage[NextName] = "none"
    BY <1>6, NextNameType DEF Unused
  <2>2. \A q \in Proc : \A r \in batch[q] : r \in Requests /\ r # NextName
    BY <2>1 DEF BatchReads
  <2>3. \A r \in Requests \ {NextName} : ask'[r] = ask[r] /\ stage'[r] = stage[r]
    BY <1>6
  <2> QED
    BY <1>6, <2>2, <2>3 DEF BatchReads
<1>7. ASSUME NEW p \in Proc, Change(p) PROVE BatchReads'
  <2>1. CASE Refuse(p)
    BY <1>3, <2>1
  <2>2. CASE ~ Refuse(p)
    <3>1. PICK c \in Changes \ {"garbled"}, S \in ScopeSets :
            /\ ask' = [ask EXCEPT ![NextName] = [change |-> c, scopes |-> S]]
            /\ stage' = [stage EXCEPT ![NextName] = "direct"]
            /\ Release(p)
      BY <1>7, <2>2 DEF Change
    <3> QED
      BY <1>2, <1>6, <1>7, <3>1 DEF Change
  <2> QED
    BY <2>1, <2>2
<1>8. ASSUME NEW c \in Changes, NEW S \in ScopeSets, Ask(c, S) PROVE BatchReads'
  <2>1. batch' = batch /\ Unused # {}
    BY <1>8 DEF Ask, local
  <2>2. PICK s \in {"queued", "hidden"} : stage' = [stage EXCEPT ![NextName] = s]
    BY <1>8 DEF Ask
  <2> QED
    BY <1>6, <1>8, <2>1, <2>2 DEF Ask
<1>9. ASSUME NEW r \in Requests, Publish(r) PROVE BatchReads'
  BY <1>9 DEF Publish, local, BatchReads
<1>10. ASSUME NEW p \in Proc,
              \/ \E v \in {"run", "change", "reconcile"} : TryAcquire(p, v)
              \/ ApplyRequest(p) /\ ~ Refuse(p)
              \/ RemoveFails(p) /\ ~ Refuse(p)
              \/ Drained(p)
              \/ \E run \in Runs : Prepare(p, run) /\ ~ Refuse(p)
              \/ Prepared(p) \/ Archive(p) \/ Begin(p) \/ RefuseBeforeSpawn(p)
              \/ Spawn(p) \/ Decide(p) \/ AgentEnds(p) \/ Conclude(p)
              \/ ConfirmStop(p) \/ Reconcile(p) \/ Crash(p)
       PROVE  BatchReads'
  <2>1. UNCHANGED requests
    BY <1>10 DEF TryAcquire, ApplyRequest, RemoveFails, Drained, Prepare, Prepared,
                 Archive, Begin, RefuseBeforeSpawn, Spawn, Decide, AgentEnds,
                 Conclude, ConfirmStop, Reconcile, Crash
  <2>2. \/ batch' = batch
        \/ Release(p)
        \/ batch' = [batch EXCEPT ![p] = {}]
    BY <1>10 DEF TryAcquire, ApplyRequest, RemoveFails, Drained, Prepare, Prepared,
                 Archive, Begin, RefuseBeforeSpawn, Spawn, Decide, AgentEnds,
                 Conclude, ConfirmStop, Reconcile, Crash
  <2>3. \A q \in Proc : batch'[q] \subseteq batch[q]
    BY <1>2, <2>2
  <2> QED
    BY <1>1, <2>1, <2>3
<1>11. CASE UNCHANGED vars
  BY <1>11 DEF vars, requests, local, BatchReads
<1>12. ASSUME NEW p \in Proc, LeaveLive(p) PROVE BatchReads'
  BY <1>3, <1>12 DEF LeaveLive
<1> QED
  BY <1>3, <1>4, <1>5, <1>7, <1>8, <1>9, <1>10, <1>11, <1>12 DEF Next, Step

(* ---------------------------------------------------------------------- *)
(* The theorems.                                                           *)

LEMMA InvInit == Init => IInv
<1> SUFFICES ASSUME Init PROVE IInv
  OBVIOUS
<1> USE DEF Init
<1>1. DOMAIN record = {}
  OBVIOUS
<1>2. Intents = {} /\ Concluded = {} /\ Live = {}
  BY <1>1 DEF Intents, Concluded, Live, Positions
<1>3. RecordInv
  BY <1>1, <1>2 DEF RecordInv, Named, Numbered, EndsWhatBegan, OneLiveAttempt, EndsOnce
<1>4. TypeOK
  <2>1. RecordTypeOK
    <3>1. record \in Seq(Entries)
      OBVIOUS
    <3> QED
      BY <3>1 DEF RecordTypeOK
  <2>2. RequestTypeOK
    BY DEF RequestTypeOK, Stages
  <2>3. LocalTypeOK
    BY StepNames DEF LocalTypeOK
  <2> QED
    BY <2>1, <2>2, <2>3 DEF TypeOK
<1>5. LockHeld /\ BatchReads
  BY DEF LockHeld, BatchReads
<1>6. \A p \in Proc : Fits(p)
  BY DEF Fits, Supervises, Supervising
<1> QED
  BY <1>3, <1>4, <1>5, <1>6 DEF IInv

LEMMA InvStep == IInv /\ [Next]_vars => IInv'
<1> SUFFICES ASSUME IInv, [Next]_vars PROVE IInv'
  OBVIOUS
<1>1. TypeOK'
  BY TypeStep DEF IInv, RecordInv
<1> QED
  BY <1>1, LocalInvStep, BatchStep DEF IInv

LEMMA Invariance == Spec => []IInv
BY InvInit, InvStep, PTL DEF Spec

\* Every variable of the model keeps its type, whatever the processes, the
\* requests and the kills.
THEOREM TypeCorrect == Spec => []TypeOK
<1>1. IInv => TypeOK
  BY DEF IInv
<1> QED
  BY <1>1, Invariance, PTL

\* At most one attempt of a repository is live, across any number of runs,
\* processes and kills.
THEOREM AtMostOneLive == Spec => []OneLiveAttempt
<1>1. IInv => OneLiveAttempt
  BY DEF IInv, RecordInv
<1> QED
  BY <1>1, Invariance, PTL

\* The attempt a process supervises is live in the record throughout.
THEOREM SupervisedStaysLive == Spec => []SupervisedIsLive
<1>1. IInv => SupervisedIsLive
  BY DEF IInv, Fits, SupervisedIsLive
<1> QED
  BY <1>1, Invariance, PTL

\* No attempt is ended twice, by an outcome and a reconciliation or by two of
\* either.
THEOREM EveryAttemptEndsOnce == Spec => []EndsOnce
<1>1. IInv => EndsOnce
  BY DEF IInv, RecordInv
<1> QED
  BY <1>1, Invariance, PTL

(* ---------------------------------------------------------------------- *)
(* The queue of requests: what is applied, and in which order.             *)

\* The requests the record holds an entry of.
Applied == {record[i].req : i \in DOMAIN record} \ {0}

\* What a process relies on about the queue: what it is about to remove is in
\* the record, and nothing it owed when it took the lock is out of its reach.
Queues(p) ==
  /\ pc[p] = "removing" => batch[p] # {} /\ Oldest(batch[p]) \in Applied
  /\ pc[p] \in {"ready", "changing", "finding"} => batch[p] = {}
  /\ pc[p] = "locked" => owed[p] \subseteq Queued
  /\ pc[p] \in {"draining", "removing"} /\ att[p] = NoAttempt =>
       owed[p] \subseteq Applied \cup batch[p]
  /\ pc[p] \in {"ready", "preparing", "admitted"} => owed[p] \subseteq Applied
  /\ pc[p] \in {"preparing", "admitted"} => Admitted

GoneApplied == \A r \in Requests : stage[r] = "gone" => r \in Applied

QueueInv == GoneApplied /\ \A p \in Proc : Queues(p)

LEMMA RequestNames == Requests \subseteq Nat \ {0} /\ Requests \subseteq 1 .. MaxRequests
BY RunControlAssumption DEF Requests

LEMMA AppliedType ==
  ASSUME record \in Seq(Entries)
  PROVE  /\ Applied \subseteq Requests
         /\ \A r \in Requests : LastChangeIs(r) => r \in Applied
         /\ \A r \in Requests : r \in Applied <=> \E i \in DOMAIN record : record[i].req = r
<1>1. \A i \in DOMAIN record : record[i].req \in 0 .. MaxRequests
  BY FieldTypes
<1>2. 0 .. MaxRequests = Requests \cup {0}
  BY RunControlAssumption DEF Requests
<1>3. \A r \in Requests : r \in Applied <=> \E i \in DOMAIN record : record[i].req = r
  BY RequestNames DEF Applied
<1> QED
  BY <1>1, <1>2, <1>3 DEF Applied, LastChangeIs, Positions

\* What an append does to the folds of the queue and of the halts.
LEMMA AppendApplied ==
  ASSUME record \in Seq(Entries), NEW e \in Entries, Append1(e)
  PROVE  /\ Applied' = Applied \cup ({e.req} \ {0})
         /\ e.kind \notin {"halt", "resume"} =>
              Halted' = Halted /\ \A r \in Requests : LastChangeIs(r)' = LastChangeIs(r)
         /\ e.kind \in {"halt", "resume"} => LastChangeIs(e.req)'
<1> DEFINE n == Len(record) + 1
<1>1. /\ DOMAIN record = 1 .. Len(record) /\ Len(record) \in Nat
      /\ DOMAIN record' = 1 .. n
      /\ \A i \in 1 .. Len(record) : record'[i] = record[i]
      /\ record'[n] = e
  BY AppendFolds
<1>2. DOMAIN record' = DOMAIN record \cup {n} /\ n \notin DOMAIN record
  BY <1>1
<1>3. \A i \in DOMAIN record : record'[i] = record[i] /\ i < n /\ i \in Nat
  BY <1>1
<1>4. record'[n] = e /\ n \in Nat
  BY <1>1
<1> HIDE DEF n
<1>5. Applied' = Applied \cup ({e.req} \ {0})
  BY <1>2, <1>3, <1>4 DEF Applied
<1>6. ASSUME e.kind \notin {"halt", "resume"}
      PROVE  Halted' = Halted /\ \A r \in Requests : LastChangeIs(r)' = LastChangeIs(r)
  <2>1. Positions("halt")' = Positions("halt") /\ Positions("resume")' = Positions("resume")
    BY <1>2, <1>3, <1>4, <1>6 DEF Positions
  <2>2. Positions("halt") \subseteq DOMAIN record /\ Positions("resume") \subseteq DOMAIN record
    BY DEF Positions
  <2>3. \A i \in Positions("halt") \cup Positions("resume") : record'[i] = record[i]
    BY <1>3, <2>2
  <2> QED
    BY <2>1, <2>3 DEF Halted, LastChangeIs
<1>7. ASSUME e.kind \in {"halt", "resume"} PROVE LastChangeIs(e.req)'
  <2>1. n \in (Positions("halt") \cup Positions("resume"))'
    BY <1>2, <1>4, <1>7 DEF Positions
  <2>2. \A j \in DOMAIN record' : j <= n
    BY <1>2, <1>3, <1>4
  <2>3. \A j \in (Positions("halt") \cup Positions("resume"))' : j <= n
    BY <2>2 DEF Positions
  <2> QED
    BY <1>4, <2>1, <2>3 DEF LastChangeIs
<1> QED
  BY <1>5, <1>6, <1>7

\* An entry that no request asked for.
LEMMA Unasked == \A k, a, w : Entry(k, a, w).req = 0
BY DEF Entry

\* The entries of a launch before its intent.
LEMMA LaunchEntries ==
  ASSUME NEW k \in {"preparing", "prepared", "archived"},
         NEW w \in {"none", "admitted", "refused"}
  PROVE  /\ Entry(k, NoAttempt, w) \in Entries
         /\ Entry(k, NoAttempt, w).kind = k
         /\ Entry(k, NoAttempt, w).req = 0
<1>1. k \in Kinds /\ w \in Words /\ NoAttempt \in Attempts \cup {NoAttempt}
  BY WordTypes
<1>2. /\ Entry(k, NoAttempt, w) \in Entries
      /\ Entry(k, NoAttempt, w).kind = k
  BY <1>1, EntryType
<1> QED
  BY <1>2, Unasked

\* The entries of an attempt: its intent, its outcome and its confirmed stop.
IntentOf(a, F) == [Entry("intent", a, "none") EXCEPT !.follows = F]

LEMMA IntentEntry ==
  ASSUME NEW a \in Attempts \cup {NoAttempt}, NEW F \in SUBSET Attempts
  PROVE  /\ IntentOf(a, F) \in Entries
         /\ IntentOf(a, F).kind = "intent"
         /\ IntentOf(a, F).att = a
         /\ IntentOf(a, F).req = 0
<1>1. IntentOf(a, F) \in Entries /\ IntentOf(a, F).kind = "intent" /\ IntentOf(a, F).att = a
  BY IntentType DEF IntentOf
<1>2. IntentOf(a, F).req = 0
  BY DEF IntentOf, Entry
<1> QED
  BY <1>1, <1>2

LEMMA OutcomeEntry ==
  ASSUME NEW a \in Attempts \cup {NoAttempt}, NEW w \in Words
  PROVE  /\ Entry("outcome", a, w) \in Entries
         /\ Entry("outcome", a, w).kind = "outcome"
         /\ Entry("outcome", a, w).att = a
         /\ Entry("outcome", a, w).word = w
         /\ Entry("outcome", a, w).req = 0
<1>1. "outcome" \in Kinds
  BY WordTypes
<1>2. /\ Entry("outcome", a, w) \in Entries
      /\ Entry("outcome", a, w).kind = "outcome"
      /\ Entry("outcome", a, w).att = a
      /\ Entry("outcome", a, w).word = w
  BY <1>1, EntryType
<1> QED
  BY <1>2, Unasked

LEMMA StoppedEntry ==
  ASSUME NEW a \in Attempts \cup {NoAttempt}
  PROVE  /\ Entry("stopped", a, "none") \in Entries
         /\ Entry("stopped", a, "none").kind = "stopped"
         /\ Entry("stopped", a, "none").att = a
         /\ Entry("stopped", a, "none").req = 0
<1>1. "stopped" \in Kinds /\ "none" \in Words
  BY WordTypes
<1>2. /\ Entry("stopped", a, "none") \in Entries
      /\ Entry("stopped", a, "none").kind = "stopped"
      /\ Entry("stopped", a, "none").att = a
  BY <1>1, EntryType
<1> QED
  BY <1>2, Unasked

\* A finding about the live attempt.
LEMMA ReconciledEntry ==
  ASSUME record \in Seq(Entries), NEW a \in Live, NEW w \in Findings
  PROVE  /\ Entry("reconciled", a, w) \in Entries
         /\ Entry("reconciled", a, w).kind = "reconciled"
         /\ Entry("reconciled", a, w).att = a
         /\ Entry("reconciled", a, w).req = 0
<1>1. "reconciled" \in Kinds /\ w \in Words /\ a \in Attempts \cup {NoAttempt}
  BY WordTypes, FoldTypes
<1>2. Entry("reconciled", a, w) \in Entries
  BY <1>1, EntryType
<1>3. Entry("reconciled", a, w).kind = "reconciled" /\ Entry("reconciled", a, w).att = a
  BY DEF Entry
<1> QED
  BY <1>2, <1>3, Unasked

\* Others than the process that moves are idle, and rely on nothing.
LEMMA QueueMoves ==
  ASSUME IInv, NEW p \in Proc, pc[p] # "idle" \/ holder = NoProc,
         \A q \in Proc \ {p} : pc'[q] = pc[q],
         GoneApplied', Queues(p)'
  PROVE  QueueInv'
<1>1. \A q \in Proc \ {p} : pc'[q] = "idle"
  BY OthersIdle DEF IInv
<1>2. \A q \in Proc \ {p} : Queues(q)'
  BY <1>1 DEF Queues
<1> QED
  BY <1>2 DEF QueueInv

\* A step that ends the process's verb.
LEMMA ReleaseQueues ==
  ASSUME IInv, QueueInv, NEW p \in Proc, pc[p] # "idle", Release(p), GoneApplied'
  PROVE  QueueInv'
<1>1. pc'[p] = "idle" /\ \A q \in Proc \ {p} : pc'[q] = pc[q]
  BY DEF Release, Goto, IInv, TypeOK, LocalTypeOK
<1>2. Queues(p)'
  BY <1>1 DEF Queues
<1> QED
  BY <1>1, <1>2, QueueMoves

\* What is in the record stays there.
LEMMA AppliedGrows ==
  ASSUME TypeOK,
         \/ UNCHANGED record
         \/ \E e \in Entries : Append1(e)
  PROVE  Applied \subseteq Applied' /\ (UNCHANGED stage => (GoneApplied => GoneApplied'))
<1>1. CASE UNCHANGED record
  BY <1>1 DEF Applied, GoneApplied
<1>2. CASE \E e \in Entries : Append1(e)
  BY <1>2, AppendApplied DEF GoneApplied, TypeOK, RecordTypeOK
<1> QED
  BY <1>1, <1>2

LEMMA QueueStep ==
  ASSUME IInv, QueueInv, [Next]_vars
  PROVE  QueueInv'
<1> USE DEF IInv, TypeOK, LocalTypeOK, RequestTypeOK, RecordTypeOK
<1>1. ASSUME NEW p \in Proc, NEW v \in {"run", "change", "reconcile"},
             TryAcquire(p, v)
      PROVE  QueueInv'
  <2>1. /\ pc'[p] = "locked" /\ owed'[p] = Queued /\ holder = NoProc
        /\ \A q \in Proc \ {p} : pc'[q] = pc[q]
        /\ UNCHANGED <<record, stage>>
    BY <1>1 DEF TryAcquire, Goto, requests
  <2>2. GoneApplied' /\ Queued' = Queued
    BY <2>1, AppliedGrows DEF QueueInv, Queued
  <2>3. Queues(p)'
    BY <2>1, <2>2 DEF Queues
  <2> QED
    BY <2>1, <2>2, <2>3, QueueMoves
<1>2. ASSUME NEW p \in Proc, pc[p] # "idle", Refuse(p) PROVE QueueInv'
  <2>1. UNCHANGED <<record, stage>>
    BY <1>2 DEF Refuse, requests
  <2>2. GoneApplied'
    BY <2>1, AppliedGrows DEF QueueInv
  <2> QED
    BY <1>2, <2>2, ReleaseQueues DEF Refuse
<1>3. ASSUME NEW p \in Proc, ListRequests(p) \/ Poll(p) PROVE QueueInv'
  <2>1. CASE Refuse(p)
    BY <1>2, <1>3, <2>1 DEF ListRequests, Poll
  <2>2. CASE ~ Refuse(p)
    <3>1. /\ pc[p] \in {"locked", "running"}
          /\ UNCHANGED <<record, stage, att, owed>>
          /\ \/ Goto(p, "ended")
             \/ Goto(p, "draining") /\ batch' = [batch EXCEPT ![p] = Queued]
      BY <1>3, <2>2 DEF ListRequests, Poll, Stay, requests
    <3>2. pc[p] = "running" => att[p] # NoAttempt
      BY RunControlAssumption, IntentsAreAttempts
         DEF Fits, Supervises, Supervising, Live, RecordInv, Attempts
    <3>3. GoneApplied'
      BY <3>1, AppliedGrows DEF QueueInv
    <3>4. \A q \in Proc \ {p} : pc'[q] = pc[q]
      BY <3>1 DEF Goto
    <3>5. Queues(p)
      BY DEF QueueInv
    <3>6. Queues(p)'
      <4>1. CASE Goto(p, "ended")
        BY <4>1 DEF Goto, Queues
      <4>2. CASE Goto(p, "draining") /\ batch' = [batch EXCEPT ![p] = Queued]
        <5>1. pc'[p] = "draining" /\ batch'[p] = Queued
          BY <4>2 DEF Goto
        <5> QED
          BY <3>1, <3>2, <3>5, <5>1 DEF Queues
      <4> QED
        BY <3>1, <4>1, <4>2
    <3> QED
      BY <3>1, <3>3, <3>4, <3>6, QueueMoves
  <2> QED
    BY <2>1, <2>2
<1>4. ASSUME NEW p \in Proc, ApplyRequest(p) PROVE QueueInv'
  <2> DEFINE r == Oldest(batch[p])
             e == ChangeEntry(r, ask[r].change, ask[r].scopes)
  <2>1. pc[p] = "draining" /\ batch[p] # {}
    BY <1>4 DEF ApplyRequest
  <2>2. CASE Refuse(p)
    BY <1>2, <2>1, <2>2
  <2>3. CASE ~ Refuse(p)
    <3>1. /\ Goto(p, "removing")
          /\ UNCHANGED <<att, batch, owed, stage>>
          /\ \/ LastChangeIs(r) /\ UNCHANGED record
             \/ Append1(e)
      BY <1>4, <2>3 DEF ApplyRequest, Stay, requests
    <3>2. r \in batch[p] /\ r \in Requests
      BY <2>1, OldestLeast
    <3>3. e \in Entries /\ e.req = r
      BY <3>2, ChangeEntryType DEF BatchReads
    <3> HIDE DEF e
    <3>4. r # 0
      BY <3>2, RequestNames
    <3>5. r \in Applied'
      <4>1. CASE LastChangeIs(r) /\ UNCHANGED record
        BY <3>2, <4>1, AppliedType DEF Applied
      <4>2. CASE Append1(e)
        BY <3>3, <3>4, <4>2, AppendApplied
      <4> QED
        BY <3>1, <4>1, <4>2
    <3>6. Applied \subseteq Applied' /\ GoneApplied'
      BY <3>1, <3>3, AppliedGrows DEF QueueInv
    <3>7. pc'[p] = "removing" /\ \A q \in Proc \ {p} : pc'[q] = pc[q]
      BY <3>1 DEF Goto
    <3>8. Queues(p)
      BY DEF QueueInv
    <3>9. Queues(p)'
      BY <2>1, <3>1, <3>5, <3>6, <3>7, <3>8 DEF Queues, Oldest
    <3> QED
      BY <2>1, <3>6, <3>7, <3>9, QueueMoves
  <2> QED
    BY <2>2, <2>3
<1>5. ASSUME NEW p \in Proc, RemoveRequest(p) PROVE QueueInv'
  <2> DEFINE r == Oldest(batch[p])
  <2>1. /\ pc[p] = "removing"
        /\ stage' = [stage EXCEPT ![r] = "gone"]
        /\ batch' = [batch EXCEPT ![p] = @ \ {r}]
        /\ Goto(p, "draining")
        /\ UNCHANGED <<record, att, owed>>
    BY <1>5 DEF RemoveRequest, Stay
  <2>2. Queues(p)
    BY DEF QueueInv
  <2>3. r \in Applied
    BY <2>1, <2>2 DEF Queues
  <2> HIDE DEF r
  <2>4. Applied' = Applied
    BY <2>1 DEF Applied
  <2>5. GoneApplied'
    BY <2>1, <2>3, <2>4 DEF GoneApplied, QueueInv
  <2>6. pc'[p] = "draining" /\ \A q \in Proc \ {p} : pc'[q] = pc[q]
    BY <2>1 DEF Goto
  <2>7. batch'[p] = batch[p] \ {r}
    BY <2>1
  <2>8. Queues(p)'
    BY <2>1, <2>2, <2>3, <2>4, <2>6, <2>7 DEF Queues
  <2> QED
    BY <2>1, <2>5, <2>6, <2>8, QueueMoves
<1>6. ASSUME NEW p \in Proc, RemoveFails(p) PROVE QueueInv'
  <2>1. CASE Refuse(p)
    BY <1>2, <1>6, <2>1 DEF RemoveFails
  <2>2. CASE ~ Refuse(p)
    <3>1. pc[p] # "idle" /\ Goto(p, "deciding") /\ UNCHANGED <<record, stage>>
      BY <1>6, <2>2 DEF RemoveFails, requests
    <3>2. pc'[p] = "deciding" /\ \A q \in Proc \ {p} : pc'[q] = pc[q]
      BY <3>1 DEF Goto
    <3>3. GoneApplied'
      BY <3>1, AppliedGrows DEF QueueInv
    <3>4. Queues(p)'
      BY <3>2 DEF Queues
    <3> QED
      BY <3>1, <3>2, <3>3, <3>4, QueueMoves
  <2> QED
    BY <2>1, <2>2
<1>7. ASSUME NEW p \in Proc, Drained(p) PROVE QueueInv'
  <2>1. /\ pc[p] = "draining" /\ batch[p] = {}
        /\ UNCHANGED <<record, stage, att, batch, owed>>
        /\ \/ Goto(p, "deciding")
           \/ att[p] = NoAttempt /\ Goto(p, "ready")
           \/ Goto(p, "changing") \/ Goto(p, "finding")
    BY <1>7 DEF Drained, Stay, requests
  <2>2. Queues(p)
    BY DEF QueueInv
  <2>3. Applied' = Applied /\ GoneApplied'
    BY <2>1, AppliedGrows DEF QueueInv, Applied
  <2>4. /\ \A q \in Proc \ {p} : pc'[q] = pc[q]
        /\ \/ pc'[p] \in {"deciding", "changing", "finding"}
           \/ att[p] = NoAttempt /\ pc'[p] = "ready"
    BY <2>1 DEF Goto
  <2>5. Queues(p)'
    BY <2>1, <2>2, <2>3, <2>4 DEF Queues
  <2> QED
    BY <2>1, <2>3, <2>4, <2>5, QueueMoves
<1>8. ASSUME NEW p \in Proc, NEW run \in Runs, Prepare(p, run) PROVE QueueInv'
  <2>1. CASE Refuse(p)
    BY <1>2, <1>8, <2>1 DEF Prepare
  <2>2. CASE ~ Refuse(p)
    <3> DEFINE e == Entry("preparing", NoAttempt, "none")
    <3>1. /\ pc[p] = "ready" /\ Admitted
          /\ Append1(e)
          /\ Goto(p, "preparing")
          /\ UNCHANGED <<stage, owed>>
      BY <1>8, <2>2 DEF Prepare, requests
    <3>2. e \in Entries /\ e.kind = "preparing" /\ e.req = 0
      BY LaunchEntries
    <3> HIDE DEF e
    <3>3. Applied' = Applied /\ Halted' = Halted /\ ~ torn'
      BY <3>1, <3>2, AppendApplied DEF Append1
    <3>4. pc'[p] = "preparing" /\ \A q \in Proc \ {p} : pc'[q] = pc[q]
      BY <3>1 DEF Goto
    <3>5. Queues(p) /\ GoneApplied
      BY DEF QueueInv
    <3>6. Queues(p)' /\ GoneApplied'
      BY <3>1, <3>3, <3>4, <3>5 DEF Queues, Admitted, GoneApplied
    <3> QED
      BY <3>1, <3>4, <3>6, QueueMoves
  <2> QED
    BY <2>1, <2>2
<1>9. ASSUME NEW p \in Proc, Prepared(p) PROVE QueueInv'
  <2>1. PICK w \in {"admitted", "refused"} :
          /\ Append1(Entry("prepared", NoAttempt, w))
          /\ Goto(p, IF w = "admitted" THEN "admitted" ELSE "archiving")
    BY <1>9 DEF Prepared
  <2> DEFINE e == Entry("prepared", NoAttempt, w)
  <2>2. e \in Entries /\ e.kind = "prepared" /\ e.req = 0 /\ Append1(e)
    BY <2>1, LaunchEntries
  <2> HIDE DEF e
  <2>3. Applied' = Applied /\ Halted' = Halted /\ ~ torn'
    BY <2>2, AppendApplied DEF Append1
  <2>4. pc[p] = "preparing" /\ UNCHANGED <<stage, owed>>
    BY <1>9 DEF Prepared, Stay, requests
  <2>5. pc'[p] \in {"admitted", "archiving"} /\ \A q \in Proc \ {p} : pc'[q] = pc[q]
    BY <2>1 DEF Goto
  <2>6. Queues(p) /\ GoneApplied
    BY DEF QueueInv
  <2>7. Queues(p)' /\ GoneApplied'
    BY <2>3, <2>4, <2>5, <2>6 DEF Queues, Admitted, GoneApplied
  <2> QED
    BY <2>4, <2>5, <2>7, QueueMoves
<1>10. ASSUME NEW p \in Proc, pc[p] # "idle", Release(p), UNCHANGED stage,
              \/ UNCHANGED record
              \/ \E e \in Entries : Append1(e)
       PROVE  QueueInv'
  BY <1>10, AppliedGrows, ReleaseQueues DEF QueueInv
<1>11. ASSUME NEW p \in Proc, pc[p] # "idle", UNCHANGED stage,
              \/ UNCHANGED record
              \/ \E e \in Entries : Append1(e),
              NEW s \in {"intended", "refusing", "running", "ended", "confirming"},
              Goto(p, s)
       PROVE  QueueInv'
  <2>1. GoneApplied'
    BY <1>11, AppliedGrows DEF QueueInv
  <2>2. pc'[p] = s /\ \A q \in Proc \ {p} : pc'[q] = pc[q]
    BY <1>11 DEF Goto
  <2>3. Queues(p)'
    BY <2>2 DEF Queues
  <2> QED
    BY <1>11, <2>1, <2>2, <2>3, QueueMoves
<1>12. ASSUME NEW p \in Proc,
              RefuseBeforeSpawn(p) \/ Spawn(p) \/ Decide(p) \/ AgentEnds(p)
       PROVE  QueueInv'
  BY <1>11, <1>12 DEF RefuseBeforeSpawn, Spawn, Decide, AgentEnds, requests
<1>13. ASSUME NEW p \in Proc, LeaveLive(p) PROVE QueueInv'
  BY <1>2, <1>13 DEF LeaveLive
<1>14. ASSUME NEW p \in Proc, Archive(p) PROVE QueueInv'
  <2>1. Entry("archived", NoAttempt, "none") \in Entries
    BY LaunchEntries
  <2> QED
    BY <1>10, <1>14, <2>1 DEF Archive, requests
<1>15. ASSUME NEW p \in Proc, Begin(p) PROVE QueueInv'
  <2>1. [Entry("intent", att[p], "none") EXCEPT !.follows = follows[p]] \in Entries
    BY IntentType
  <2> QED
    BY <1>11, <1>15, <2>1 DEF Begin, requests
<1>16. ASSUME NEW p \in Proc, Conclude(p) PROVE QueueInv'
  <2>1. PICK w \in {said[p], "refused", "interrupted"} :
          /\ Append1(Entry("outcome", att[p], w))
          /\ Goto(p, "confirming") \/ Release(p)
    BY <1>16 DEF Conclude
  <2>3. w \in Words /\ att[p] \in Attempts \cup {NoAttempt}
    BY <2>1, WordTypes
  <2>2. Entry("outcome", att[p], w) \in Entries
    BY <2>3, EntryType, WordTypes
  <2> QED
    BY <1>10, <1>11, <1>16, <2>1, <2>2 DEF Conclude, requests
<1>17. ASSUME NEW p \in Proc, ConfirmStop(p) PROVE QueueInv'
  <2>1. Entry("stopped", att[p], "none") \in Entries
    BY EntryType, WordTypes, ZenonT(60)
  <2> QED
    BY <1>10, <1>17, <2>1 DEF ConfirmStop, requests
<1>18. ASSUME NEW p \in Proc, Reconcile(p) PROVE QueueInv'
  <2>1. \A a \in Live, w \in Findings : Entry("reconciled", a, w) \in Entries
    BY FoldTypes, EntryType, WordTypes
  <2> QED
    BY <1>10, <1>18, <2>1 DEF Reconcile, requests
<1>19. ASSUME NEW p \in Proc, Crash(p) PROVE QueueInv'
  BY <1>10, <1>19 DEF Crash, requests
<1>20. ASSUME NEW p \in Proc, Change(p) PROVE QueueInv'
  <2>1. CASE Refuse(p)
    BY <1>2, <1>20, <2>1 DEF Change
  <2>2. CASE ~ Refuse(p)
    <3>1. PICK c \in Changes \ {"garbled"}, S \in ScopeSets :
            /\ Append1(ChangeEntry(NextName, c, S))
            /\ stage' = [stage EXCEPT ![NextName] = "direct"]
            /\ Release(p)
      BY <1>20, <2>2 DEF Change
    <3>2. NextName \in Requests /\ c \in {"halt", "resume"} /\ S \in SUBSET Scopes
      BY <1>20, NextNameType, RunControlAssumption DEF Change, Unused
    <3>3. ChangeEntry(NextName, c, S) \in Entries
      BY <3>2, ChangeEntryType
    <3>4. Applied \subseteq Applied'
      BY <3>1, <3>3, AppliedGrows
    <3>5. GoneApplied'
      BY <3>1, <3>2, <3>4 DEF GoneApplied, QueueInv
    <3> QED
      BY <1>20, <3>1, <3>5, ReleaseQueues DEF Change
  <2> QED
    BY <2>1, <2>2
<1>21. ASSUME UNCHANGED <<record, torn, local>>,
              \A r \in Requests : stage'[r] = "gone" => stage[r] = "gone",
              Queued \subseteq Queued'
       PROVE  QueueInv'
  <2>1. Applied' = Applied /\ Halted' = Halted
    BY <1>21 DEF Applied, Halted, Positions
  <2>2. UNCHANGED <<pc, att, batch, owed, torn>>
    BY <1>21 DEF local
  <2>3. GoneApplied'
    BY <1>21, <2>1 DEF GoneApplied, QueueInv
  <2>4. ASSUME NEW p \in Proc PROVE Queues(p)'
    <3>1. Queues(p)
      BY DEF QueueInv
    <3> QED
      BY <1>21, <2>1, <2>2, <3>1 DEF Queues, Admitted, Oldest
  <2> QED
    BY <2>3, <2>4 DEF QueueInv
<1>22. ASSUME NEW c \in Changes, NEW S \in ScopeSets, Ask(c, S) PROVE QueueInv'
  <2>1. NextName \in Requests /\ stage[NextName] = "none"
    BY <1>22, NextNameType DEF Ask, Unused
  <2>2. PICK s \in {"queued", "hidden"} : stage' = [stage EXCEPT ![NextName] = s]
    BY <1>22 DEF Ask
  <2> QED
    BY <1>21, <1>22, <2>1, <2>2 DEF Ask, Queued
<1>23. ASSUME NEW r \in Requests, Publish(r) PROVE QueueInv'
  BY <1>21, <1>23 DEF Publish, Queued
<1>24. CASE UNCHANGED vars
  BY <1>21, <1>24 DEF vars, Queued, requests
<1> QED
  BY <1>1, <1>3, <1>4, <1>5, <1>6, <1>7, <1>8, <1>9, <1>12, <1>13, <1>14, <1>15,
     <1>16, <1>17, <1>18, <1>19, <1>20, <1>22, <1>23, <1>24 DEF Next, Step

(* ---------------------------------------------------------------------- *)
(* The order of what is queued, when a request is named and linked at once. *)

Published   == \A r \in Requests : stage[r] # "hidden"
NamedInTurn == \A r, q \in Requests : stage[r] = "none" /\ r < q => stage[q] = "none"
NotYetAsked == \A r \in Requests : stage[r] = "none" => r \notin Applied

\* A queued request that is in the record is its last change.
AppliedLast == \A r \in Queued : r \in Applied => LastChangeIs(r)

\* What was queued and is in the record precedes what is queued.
QueuedAfter == \A q \in Applied, r \in Queued : stage[q] # "direct" => q <= r

\* While a queue is drained, what was listed precedes what was not, and of
\* what was not nothing is in the record.
Drains(p) ==
  pc[p] \in {"draining", "removing", "changing"} =>
     /\ batch[p] \subseteq Queued
     /\ \A r \in Queued \ batch[p] : r \notin Applied /\ \A q \in batch[p] : q < r

OrderInv ==
  /\ Published
  /\ NamedInTurn
  /\ NotYetAsked
  /\ AppliedLast
  /\ QueuedAfter
  /\ \A p \in Proc : Drains(p)
  /\ RequestsApplied

\* An entry no request asked for disturbs nothing.
LEMMA QuietRequests ==
  ASSUME record \in Seq(Entries), NEW e \in Entries, Append1(e), e.req = 0,
         UNCHANGED stage, RequestsApplied
  PROVE  RequestsApplied'
<1>1. \A i \in DOMAIN record' :
        \/ i = Len(record) + 1 /\ record'[i].req = 0
        \/ i \in DOMAIN record /\ record'[i] = record[i]
  BY AppendFolds
<1>2. AppliedOnce'
  BY <1>1 DEF RequestsApplied, AppliedOnce
<1>3. AppliedInOrder'
  BY <1>1 DEF RequestsApplied, AppliedInOrder
<1> QED
  BY <1>2, <1>3 DEF RequestsApplied

\* A step that leaves the requests alone.
LEMMA QuietOrder ==
  ASSUME IInv, OrderInv, NEW p \in Proc, pc[p] # "idle" \/ holder = NoProc,
         \A q \in Proc \ {p} : pc'[q] = pc[q],
         UNCHANGED stage,
         \/ UNCHANGED record
         \/ \E e \in Entries : Append1(e) /\ e.req = 0 /\ e.kind \notin {"halt", "resume"},
         Drains(p)'
  PROVE  OrderInv'
<1>1. /\ Applied' = Applied
      /\ \A r \in Requests : LastChangeIs(r)' = LastChangeIs(r)
      /\ RequestsApplied'
  <2>1. CASE UNCHANGED record
    BY <2>1 DEF Applied, LastChangeIs, Positions, OrderInv, RequestsApplied, AppliedOnce,
                AppliedInOrder
  <2>2. ASSUME NEW e \in Entries, Append1(e), e.req = 0, e.kind \notin {"halt", "resume"}
        PROVE  /\ Applied' = Applied
               /\ \A r \in Requests : LastChangeIs(r)' = LastChangeIs(r)
               /\ RequestsApplied'
    BY <2>2, AppendApplied, QuietRequests DEF IInv, TypeOK, RecordTypeOK, OrderInv
  <2> QED
    BY <2>1, <2>2
<1>2. Queued' = Queued /\ Queued \subseteq Requests
  BY DEF Queued
<1>3. \A q \in Proc \ {p} : pc'[q] = "idle"
  BY OthersIdle DEF IInv
<1>4. \A q \in Proc \ {p} : Drains(q)'
  BY <1>3 DEF Drains
<1>5. Published' /\ NamedInTurn' /\ NotYetAsked'
  BY <1>1 DEF OrderInv, Published, NamedInTurn, NotYetAsked
<1>6. AppliedLast' /\ QueuedAfter'
  BY <1>1, <1>2 DEF OrderInv, AppliedLast, QueuedAfter
<1> QED
  BY <1>1, <1>4, <1>5, <1>6 DEF OrderInv

\* A request enters the record behind all that was queued before it.
LEMMA AppendedInOrder ==
  ASSUME IInv, OrderInv, NEW e \in Entries, Append1(e),
         e.req \in Requests \ Applied,
         \A r \in Requests \ {e.req} : stage'[r] = stage[r],
         stage'[e.req] # "direct" => \A q \in Applied : stage[q] # "direct" => q <= e.req
  PROVE  RequestsApplied'
<1> USE DEF IInv, TypeOK, RecordTypeOK
<1> DEFINE n == Len(record) + 1
<1>0. /\ DOMAIN record = 1 .. Len(record) /\ Len(record) \in Nat
      /\ DOMAIN record' = 1 .. n
      /\ \A i \in 1 .. Len(record) : record'[i] = record[i]
      /\ record'[n] = e
  BY AppendFolds
<1>1. /\ DOMAIN record' = DOMAIN record \cup {n}
      /\ \A i \in DOMAIN record : record'[i] = record[i] /\ i < n /\ i \in Nat
      /\ record'[n] = e /\ n \in Nat
  BY <1>0
<1> HIDE DEF n
<1>2. \A i \in DOMAIN record : record[i].req # e.req
  BY AppliedType
<1>3. \A i \in DOMAIN record : record[i].req # 0 => record[i].req \in Applied
  BY DEF Applied
<1>4. Applied \subseteq Requests
  BY AppliedType
<1>5. AppliedOnce'
  BY <1>1, <1>2 DEF OrderInv, RequestsApplied, AppliedOnce
<1>6. AppliedInOrder'
  <2> SUFFICES ASSUME NEW i \in DOMAIN record', NEW j \in DOMAIN record', i < j,
                      record'[i].req # 0, stage'[record'[i].req] # "direct",
                      record'[j].req # 0, stage'[record'[j].req] # "direct"
               PROVE  record'[i].req <= record'[j].req
    BY DEF AppliedInOrder
  <2>1. i \in DOMAIN record
    BY <1>1
  <2>2. record[i].req \in Applied \ {e.req} /\ stage[record[i].req] # "direct"
    BY <1>1, <1>2, <1>3, <1>4, <2>1
  <2>3. CASE j \in DOMAIN record
    <3>1. record[j].req \in Applied \ {e.req} /\ stage[record[j].req] # "direct"
      BY <1>1, <1>2, <1>3, <1>4, <2>3
    <3> QED
      BY <1>1, <2>1, <2>2, <2>3, <3>1 DEF OrderInv, RequestsApplied, AppliedInOrder
  <2>4. CASE j = n
    BY <1>1, <2>1, <2>2, <2>4
  <2> QED
    BY <1>1, <2>3, <2>4
<1> QED
  BY <1>5, <1>6 DEF RequestsApplied

LEMMA OrderStep ==
  ASSUME AtomicPublish, IInv, QueueInv, OrderInv, [Next]_vars
  PROVE  OrderInv'
<1> USE DEF IInv, TypeOK, LocalTypeOK, RequestTypeOK, RecordTypeOK
<1>1. ASSUME NEW p \in Proc, NEW v \in {"run", "change", "reconcile"},
             TryAcquire(p, v)
      PROVE  OrderInv'
  <2>1. /\ pc'[p] = "locked" /\ holder = NoProc
        /\ \A q \in Proc \ {p} : pc'[q] = pc[q]
        /\ UNCHANGED <<record, stage>>
    BY <1>1 DEF TryAcquire, Goto, requests
  <2>2. Drains(p)'
    BY <2>1 DEF Drains
  <2> QED
    BY <2>1, <2>2, QuietOrder
\* A step to where no queue is drained.
<1>2. ASSUME NEW p \in Proc, pc[p] # "idle", UNCHANGED stage,
             \/ UNCHANGED record
             \/ \E e \in Entries : Append1(e) /\ e.req = 0 /\ e.kind \notin {"halt", "resume"},
             NEW s \in Steps \ {"draining", "removing", "changing"}, Goto(p, s)
      PROVE  OrderInv'
  <2>1. pc'[p] = s /\ \A q \in Proc \ {p} : pc'[q] = pc[q]
    BY <1>2 DEF Goto
  <2>2. Drains(p)'
    BY <2>1 DEF Drains
  <2> QED
    BY <1>2, <2>1, <2>2, QuietOrder
<1>3. ASSUME NEW p \in Proc, pc[p] # "idle", UNCHANGED stage, Release(p),
             \/ UNCHANGED record
             \/ \E e \in Entries : Append1(e) /\ e.req = 0 /\ e.kind \notin {"halt", "resume"}
      PROVE  OrderInv'
  BY <1>2, <1>3, StepNames DEF Release
<1>4. ASSUME NEW p \in Proc, pc[p] # "idle", Refuse(p) PROVE OrderInv'
  BY <1>3, <1>4 DEF Refuse, requests
<1>5. ASSUME NEW p \in Proc, ListRequests(p) \/ Poll(p) PROVE OrderInv'
  <2>1. CASE Refuse(p)
    BY <1>4, <1>5, <2>1 DEF ListRequests, Poll
  <2>2. CASE ~ Refuse(p)
    <3>1. /\ pc[p] # "idle"
          /\ UNCHANGED <<record, stage>>
          /\ \/ Goto(p, "ended")
             \/ Goto(p, "draining") /\ batch' = [batch EXCEPT ![p] = Queued]
      BY <1>5, <2>2 DEF ListRequests, Poll, Stay, requests
    <3>2. CASE Goto(p, "ended")
      BY <1>2, <3>1, <3>2, StepNames
    <3>3. CASE Goto(p, "draining") /\ batch' = [batch EXCEPT ![p] = Queued]
      <4>1. batch'[p] = Queued /\ Queued' = Queued
        BY <3>1, <3>3 DEF Queued
      <4>2. Drains(p)'
        BY <4>1 DEF Drains
      <4>3. \A q \in Proc \ {p} : pc'[q] = pc[q]
        BY <3>3 DEF Goto
      <4> QED
        BY <3>1, <4>2, <4>3, QuietOrder
    <3> QED
      BY <3>1, <3>2, <3>3
  <2> QED
    BY <2>1, <2>2
<1>6. ASSUME NEW p \in Proc, ApplyRequest(p) PROVE OrderInv'
  <2>0. PICK r : r = Oldest(batch[p])
    OBVIOUS
  <2> DEFINE e == ChangeEntry(r, ask[r].change, ask[r].scopes)
  <2>1. pc[p] = "draining" /\ batch[p] # {}
    BY <1>6 DEF ApplyRequest
  <2>2. CASE Refuse(p)
    BY <1>4, <2>1, <2>2
  <2>3. CASE ~ Refuse(p)
    <3>1. /\ Goto(p, "removing")
          /\ UNCHANGED <<batch, stage>>
          /\ \/ UNCHANGED record
             \/ ~ LastChangeIs(r) /\ Append1(e)
      BY <1>6, <2>0, <2>3 DEF ApplyRequest, Stay, requests
    <3>2. r \in batch[p] /\ r \in Requests /\ \A q \in batch[p] : r <= q
      BY <2>0, <2>1, OldestLeast
    <3>3. e \in Entries /\ e.req = r /\ e.kind \in {"halt", "resume"}
      BY <3>2, ChangeEntryType DEF BatchReads
    <3> HIDE DEF e
    <3>4. /\ pc'[p] = "removing" /\ batch'[p] = batch[p] /\ Queued' = Queued
          /\ \A q \in Proc \ {p} : pc'[q] = pc[q]
      BY <3>1 DEF Goto, Queued
    <3>5. /\ batch[p] \subseteq Queued
          /\ \A q \in Queued \ batch[p] : q \notin Applied /\ \A s \in batch[p] : s < q
      BY <2>1 DEF OrderInv, Drains
    <3>6. CASE UNCHANGED record
      <4>1. Applied' = Applied
        BY <3>6 DEF Applied
      <4>2. Drains(p)'
        BY <3>4, <3>5, <4>1 DEF Drains
      <4> QED
        BY <2>1, <3>1, <3>4, <3>6, <4>2, QuietOrder
    <3>7. CASE ~ LastChangeIs(r) /\ Append1(e)
      <4>1. r \in Queued /\ r \notin Applied /\ stage[r] = "queued"
        BY <3>2, <3>5, <3>7 DEF OrderInv, AppliedLast, Queued
      <4>2. Applied' = Applied \cup {r} /\ LastChangeIs(r)'
        BY <3>2, <3>3, <3>7, AppendApplied, RequestNames
      <4>3. Queued \subseteq Nat /\ Applied \subseteq Nat /\ Applied \subseteq Requests
        BY AppliedType, RequestNames DEF Queued
      <4>4. \A q \in Queued : r <= q
        BY <3>2, <3>5, <4>3
      <4>5. \A q \in Applied : stage[q] # "direct" => q <= r
        BY <4>1 DEF OrderInv, QueuedAfter
      <4>6. RequestsApplied'
        BY <3>1, <3>2, <3>3, <3>7, <4>1, <4>5, AppendedInOrder
      <4>7. \A q \in Queued : q \in Applied => q = r
        BY <4>1, <4>3, <4>4, <4>5 DEF Queued
      <4>8. AppliedLast'
        BY <3>4, <4>2, <4>7 DEF AppliedLast
      <4>9. QueuedAfter'
        BY <3>1, <3>4, <4>2, <4>4 DEF QueuedAfter, OrderInv
      <4>10. NotYetAsked' /\ Published' /\ NamedInTurn'
        BY <3>1, <4>1, <4>2 DEF NotYetAsked, Published, NamedInTurn, OrderInv
      <4>11. Drains(p)'
        BY <3>2, <3>4, <3>5, <4>2 DEF Drains
      <4>12. \A q \in Proc \ {p} : pc'[q] = "idle"
        BY <2>1, <3>4, OthersIdle
      <4>13. \A q \in Proc \ {p} : Drains(q)'
        BY <4>12 DEF Drains
      <4> QED
        BY <4>6, <4>8, <4>9, <4>10, <4>11, <4>13 DEF OrderInv
    <3> QED
      BY <3>1, <3>6, <3>7
  <2> QED
    BY <2>2, <2>3
<1>7. ASSUME NEW p \in Proc, RemoveRequest(p) PROVE OrderInv'
  <2>0. PICK r : r = Oldest(batch[p])
    OBVIOUS
  <2>1. /\ pc[p] = "removing"
        /\ stage' = [stage EXCEPT ![r] = "gone"]
        /\ batch' = [batch EXCEPT ![p] = @ \ {r}]
        /\ Goto(p, "draining")
        /\ UNCHANGED record
    BY <1>7, <2>0 DEF RemoveRequest
  <2>2. batch[p] # {} /\ r \in Applied
    BY <2>0, <2>1 DEF QueueInv, Queues
  <2>3. r \in batch[p] /\ r \in Requests /\ \A q \in batch[p] : r <= q
    BY <2>0, <2>2, OldestLeast
  <2>4. /\ batch[p] \subseteq Queued
        /\ \A q \in Queued \ batch[p] : q \notin Applied /\ \A s \in batch[p] : s < q
    BY <2>1 DEF OrderInv, Drains
  <2>5. Applied' = Applied /\ \A q \in Requests : LastChangeIs(q)' = LastChangeIs(q)
    BY <2>1 DEF Applied, LastChangeIs, Positions
  <2>6. stage[r] = "queued" /\ Queued' = Queued \ {r}
    BY <2>1, <2>3, <2>4 DEF Queued
  <2>7. \A q \in Requests : stage'[q] = IF q = r THEN "gone" ELSE stage[q]
    BY <2>1
  <2>8. Published' /\ NamedInTurn' /\ NotYetAsked'
    BY <2>5, <2>6, <2>7 DEF OrderInv, Published, NamedInTurn, NotYetAsked
  <2>9. Applied \subseteq Requests /\ Queued \subseteq Requests
    BY AppliedType DEF Queued
  <2>10. AppliedLast' /\ QueuedAfter'
    BY <2>5, <2>6, <2>7, <2>9 DEF OrderInv, AppliedLast, QueuedAfter
  <2>11. RequestsApplied'
    <3>1. \A q \in Requests : stage'[q] # "direct" <=> stage[q] # "direct"
      BY <2>6, <2>7
    <3>2. \A i \in DOMAIN record : record[i].req # 0 => record[i].req \in Requests
      BY <2>9 DEF Applied
    <3> QED
      BY <2>1, <3>1, <3>2 DEF OrderInv, RequestsApplied, AppliedOnce, AppliedInOrder
  <2>12. /\ pc'[p] = "draining" /\ batch'[p] = batch[p] \ {r}
         /\ \A q \in Proc \ {p} : pc'[q] = pc[q]
    BY <2>1 DEF Goto
  <2>13. Drains(p)'
    BY <2>4, <2>5, <2>6, <2>12 DEF Drains
  <2>14. \A q \in Proc \ {p} : pc'[q] = "idle"
    BY <2>1, <2>12, OthersIdle
  <2>15. \A q \in Proc \ {p} : Drains(q)'
    BY <2>14 DEF Drains
  <2> QED
    BY <2>8, <2>10, <2>11, <2>13, <2>15 DEF OrderInv
<1>8. ASSUME NEW p \in Proc, RemoveFails(p) PROVE OrderInv'
  <2>1. CASE Refuse(p)
    BY <1>4, <1>8, <2>1 DEF RemoveFails
  <2>2. CASE ~ Refuse(p)
    BY <1>2, <1>8, <2>2, StepNames DEF RemoveFails, requests
  <2> QED
    BY <2>1, <2>2
<1>9. ASSUME NEW p \in Proc, Drained(p) PROVE OrderInv'
  <2>1. /\ pc[p] = "draining" /\ UNCHANGED <<record, stage, batch>>
        /\ \E s \in {"deciding", "ready", "changing", "finding"} : Goto(p, s)
    BY <1>9 DEF Drained, requests
  <2>2. Applied' = Applied /\ Queued' = Queued
    BY <2>1 DEF Applied, Queued
  <2>3. Drains(p)
    BY DEF OrderInv
  <2>4. Drains(p)'
    BY <2>1, <2>2, <2>3 DEF Drains
  <2>5. \A q \in Proc \ {p} : pc'[q] = pc[q]
    BY <2>1 DEF Goto
  <2> QED
    BY <2>1, <2>4, <2>5, QuietOrder
<1>10. ASSUME NEW p \in Proc, NEW run \in Runs, Prepare(p, run) PROVE OrderInv'
  <2>1. CASE Refuse(p)
    BY <1>4, <1>10, <2>1 DEF Prepare
  <2>2. CASE ~ Refuse(p)
    <3>1. /\ pc[p] = "ready"
          /\ Append1(Entry("preparing", NoAttempt, "none"))
          /\ Goto(p, "preparing")
          /\ UNCHANGED stage
      BY <1>10, <2>2 DEF Prepare, requests
    <3> QED
      BY <1>2, <3>1, LaunchEntries, StepNames
  <2> QED
    BY <2>1, <2>2
<1>11. ASSUME NEW p \in Proc, Prepared(p) PROVE OrderInv'
  <2>1. PICK w \in {"admitted", "refused"} :
          /\ Append1(Entry("prepared", NoAttempt, w))
          /\ Goto(p, IF w = "admitted" THEN "admitted" ELSE "archiving")
    BY <1>11 DEF Prepared
  <2>2. pc[p] # "idle" /\ UNCHANGED stage
    BY <1>11 DEF Prepared, requests
  <2> QED
    BY <1>2, <2>1, <2>2, LaunchEntries, StepNames
<1>12. ASSUME NEW p \in Proc,
              RefuseBeforeSpawn(p) \/ Spawn(p) \/ Decide(p) \/ AgentEnds(p)
       PROVE  OrderInv'
  BY <1>2, <1>12, StepNames DEF RefuseBeforeSpawn, Spawn, Decide, AgentEnds, requests
<1>13. ASSUME NEW p \in Proc, LeaveLive(p) PROVE OrderInv'
  BY <1>4, <1>13 DEF LeaveLive
<1>14. ASSUME NEW p \in Proc, Archive(p) PROVE OrderInv'
  BY <1>3, <1>14, LaunchEntries DEF Archive, requests
<1>15. ASSUME NEW p \in Proc, Begin(p) PROVE OrderInv'
  <2> DEFINE e == IntentOf(att[p], follows[p])
  <2>0. att[p] \in Attempts \cup {NoAttempt} /\ follows[p] \in SUBSET Attempts
    OBVIOUS
  <2>1. e \in Entries /\ e.kind = "intent" /\ e.req = 0
    BY <2>0, IntentEntry
  <2>2. pc[p] = "admitted" /\ Append1(e) /\ Goto(p, "intended") /\ UNCHANGED stage
    BY <1>15 DEF Begin, requests, IntentOf
  <2> HIDE DEF e
  <2> QED
    BY <1>2, <2>1, <2>2, StepNames
<1>16. ASSUME NEW p \in Proc, Conclude(p) PROVE OrderInv'
  <2>1. PICK w \in {said[p], "refused", "interrupted"} :
          /\ Append1(Entry("outcome", att[p], w))
          /\ Goto(p, "confirming") \/ Release(p)
    BY <1>16 DEF Conclude
  <2>2. w \in Words /\ att[p] \in Attempts \cup {NoAttempt}
    BY <2>1, WordTypes
  <2> DEFINE e == Entry("outcome", att[p], w)
  <2>3. e \in Entries /\ e.kind = "outcome" /\ e.req = 0
    <3>1. e \in Entries
      BY <2>2, OutcomeEntry
    <3>2. e.kind = "outcome"
      BY <2>2, OutcomeEntry
    <3>3. e.req = 0
      BY <2>2, OutcomeEntry
    <3> QED
      BY <3>1, <3>2, <3>3
  <2>4. pc[p] # "idle" /\ UNCHANGED stage
    BY <1>16 DEF Conclude, requests
  <2> HIDE DEF e
  <2>5. Append1(e)
    BY <2>1 DEF e
  <2> QED
    BY <1>2, <1>3, <2>1, <2>3, <2>4, <2>5, StepNames
<1>17. ASSUME NEW p \in Proc, ConfirmStop(p) PROVE OrderInv'
  <2> DEFINE e == Entry("stopped", att[p], "none")
  <2>1. att[p] \in Attempts \cup {NoAttempt}
    OBVIOUS
  <2>2. e \in Entries /\ e.kind = "stopped" /\ e.req = 0
    BY <2>1, StoppedEntry
  <2>3. /\ pc[p] # "idle" /\ UNCHANGED stage /\ Release(p)
        /\ UNCHANGED record \/ Append1(e)
    BY <1>17 DEF ConfirmStop, requests
  <2> HIDE DEF e
  <2> QED
    BY <1>3, <2>2, <2>3
<1>18. ASSUME NEW p \in Proc, Reconcile(p) PROVE OrderInv'
  <2>1. pc[p] # "idle" /\ UNCHANGED stage /\ Release(p)
    BY <1>18 DEF Reconcile, requests
  <2>2. CASE UNCHANGED record
    BY <1>3, <2>1, <2>2
  <2>3. ASSUME NEW a \in Live, NEW w \in Findings, Append1(Entry("reconciled", a, w))
        PROVE  OrderInv'
    <3> DEFINE e == Entry("reconciled", a, w)
    <3>2. e \in Entries /\ e.kind = "reconciled" /\ e.req = 0
      BY <2>3, ReconciledEntry
    <3> HIDE DEF e
    <3>3. Append1(e)
      BY <2>3 DEF e
    <3> QED
      BY <1>3, <2>1, <3>2, <3>3
  <2> QED
    BY <1>18, <2>2, <2>3 DEF Reconcile
<1>19. ASSUME NEW p \in Proc, Crash(p) PROVE OrderInv'
  BY <1>3, <1>19 DEF Crash, requests
\* A new name is later than every name before it.
<1>20. ASSUME Unused # {}, NEW s \in {"queued", "direct"},
              stage' = [stage EXCEPT ![NextName] = s]
       PROVE  /\ NextName \in Requests \ Applied
              /\ stage[NextName] = "none"
              /\ \A r \in Requests \ {NextName} : stage'[r] = stage[r]
              /\ stage'[NextName] = s
              /\ \A r \in Requests : stage[r] # "none" => r < NextName
              /\ Published' /\ NamedInTurn'
  <2>1. NextName \in Unused /\ \A q \in Unused : NextName <= q
    BY <1>20, OldestLeast DEF NextName, Oldest, Unused
  <2>2. NextName \in Requests \ Applied /\ stage[NextName] = "none"
    BY <2>1 DEF Unused, OrderInv, NotYetAsked
  <2>3. \A r \in Requests \ {NextName} : stage'[r] = stage[r]
    BY <1>20
  <2>4. stage'[NextName] = s
    BY <1>20, <2>2
  <2>5. \A r \in Requests : stage[r] # "none" => r < NextName
    BY <2>2, RequestNames DEF OrderInv, NamedInTurn
  <2>6. Published' /\ NamedInTurn'
    BY <2>1, <2>2, <2>3, <2>4, <2>5, RequestNames DEF OrderInv, Published, NamedInTurn, Unused
  <2> QED
    BY <2>2, <2>3, <2>4, <2>5, <2>6
<1>21. ASSUME NEW p \in Proc, Change(p) PROVE OrderInv'
  <2>1. CASE Refuse(p)
    BY <1>4, <1>21, <2>1 DEF Change
  <2>2. CASE ~ Refuse(p)
    <3>1. PICK c \in Changes \ {"garbled"}, S \in ScopeSets :
            /\ Append1(ChangeEntry(NextName, c, S))
            /\ stage' = [stage EXCEPT ![NextName] = "direct"]
            /\ Release(p)
      BY <1>21, <2>2 DEF Change
    <3>2. pc[p] = "changing" /\ Unused # {}
      BY <1>21 DEF Change
    <3> DEFINE e == ChangeEntry(NextName, c, S)
    <3>3. PICK r : r = NextName
      OBVIOUS
    <3>4. /\ r \in Requests \ Applied
          /\ stage[r] = "none"
          /\ \A q \in Requests \ {r} : stage'[q] = stage[q]
          /\ stage'[r] = "direct"
          /\ Published' /\ NamedInTurn'
      BY <1>20, <3>1, <3>2, <3>3
    <3>5. e \in Entries /\ e.req = r /\ e.kind \in {"halt", "resume"}
      BY <3>3, <3>4, ChangeEntryType, RunControlAssumption
    <3> HIDE DEF e
    <3>6. Append1(e)
      BY <3>1 DEF e
    <3>7. Applied' = Applied \cup {r} /\ Applied \subseteq Requests
      BY <3>4, <3>5, <3>6, AppendApplied, AppliedType, RequestNames
    <3>8. Queued' = Queued
      BY <3>4 DEF Queued
    <3>9. \A q \in Queued : q \notin Applied /\ q # r
      BY <3>2, <3>4 DEF OrderInv, Drains, QueueInv, Queues, Queued
    <3>10. RequestsApplied'
      BY <3>4, <3>5, <3>6, AppendedInOrder
    <3>11. NotYetAsked' /\ AppliedLast' /\ QueuedAfter'
      BY <3>4, <3>7, <3>8, <3>9 DEF OrderInv, NotYetAsked, AppliedLast, QueuedAfter
    <3>12. \A q \in Proc : pc'[q] = "idle"
      BY <3>1, <3>2, OthersIdle DEF Release, Goto
    <3>13. \A q \in Proc : Drains(q)'
      BY <3>12 DEF Drains
    <3> QED
      BY <3>4, <3>10, <3>11, <3>13 DEF OrderInv
  <2> QED
    BY <2>1, <2>2
<1>22. ASSUME NEW c \in Changes, NEW S \in ScopeSets, Ask(c, S) PROVE OrderInv'
  <2>1. /\ Unused # {}
        /\ stage' = [stage EXCEPT ![NextName] = "queued"]
        /\ UNCHANGED <<record, pc, batch>>
    BY <1>22 DEF Ask, local
  <2>2. PICK r : r = NextName
    OBVIOUS
  <2>3. /\ r \in Requests \ Applied
        /\ stage[r] = "none"
        /\ \A q \in Requests \ {r} : stage'[q] = stage[q]
        /\ stage'[r] = "queued"
        /\ \A q \in Requests : stage[q] # "none" => q < r
        /\ Published' /\ NamedInTurn'
    BY <1>20, <2>1, <2>2
  <2>4. /\ Applied' = Applied /\ Applied \subseteq Requests
        /\ \A q \in Requests : LastChangeIs(q)' = LastChangeIs(q)
    BY <2>1, AppliedType DEF Applied, LastChangeIs, Positions
  <2>5. Queued' = Queued \cup {r} /\ Queued \subseteq Requests
    BY <2>3 DEF Queued
  <2>6. \A q \in Applied : q < r /\ stage'[q] = stage[q]
    BY <2>3, <2>4 DEF OrderInv, NotYetAsked
  <2>7. NotYetAsked' /\ AppliedLast'
    BY <2>3, <2>4, <2>5 DEF OrderInv, NotYetAsked, AppliedLast
  <2>8. QueuedAfter'
    BY <2>3, <2>4, <2>5, <2>6, RequestNames DEF OrderInv, QueuedAfter
  <2>9. RequestsApplied'
    <3>1. \A i \in DOMAIN record : record[i].req # 0 => record[i].req \in Applied
      BY DEF Applied
    <3> QED
      BY <2>1, <2>6, <3>1 DEF OrderInv, RequestsApplied, AppliedOnce, AppliedInOrder
  <2>10. ASSUME NEW p \in Proc PROVE Drains(p)'
    <3>1. Drains(p)
      BY DEF OrderInv
    <3>2. \A q \in Queued : q < r
      BY <2>3 DEF Queued
    <3> QED
      BY <2>1, <2>3, <2>4, <2>5, <3>1, <3>2 DEF Drains
  <2> QED
    BY <2>3, <2>7, <2>8, <2>9, <2>10 DEF OrderInv
<1>23. ASSUME NEW r \in Requests, Publish(r) PROVE OrderInv'
  BY <1>23 DEF Publish, OrderInv, Published
<1>24. CASE UNCHANGED vars
  <2>1. UNCHANGED <<record, stage, pc, batch>>
    BY <1>24 DEF vars, requests, local
  <2>2. Applied' = Applied /\ Queued' = Queued
        /\ \A q : LastChangeIs(q)' = LastChangeIs(q)
    BY <2>1 DEF Applied, Queued, LastChangeIs, Positions
  <2>3. RequestsApplied'
    BY <2>1 DEF OrderInv, RequestsApplied, AppliedOnce, AppliedInOrder
  <2> QED
    BY <2>1, <2>2, <2>3 DEF OrderInv, Published, NamedInTurn, NotYetAsked, AppliedLast,
                            QueuedAfter, Drains
<1> QED
  BY <1>1, <1>5, <1>6, <1>7, <1>8, <1>9, <1>10, <1>11, <1>12, <1>13, <1>14, <1>15,
     <1>16, <1>17, <1>18, <1>19, <1>21, <1>22, <1>23, <1>24 DEF Next, Step

LEMMA QueueInit == Init => QueueInv /\ OrderInv
<1> SUFFICES ASSUME Init PROVE QueueInv /\ OrderInv
  OBVIOUS
<1>1. DOMAIN record = {} /\ \A p \in Proc : pc[p] = "idle"
  BY DEF Init
<1>2. \A r \in Requests : stage[r] = "none"
  BY DEF Init
<1>3. Applied = {} /\ Queued = {}
  BY <1>1, <1>2 DEF Applied, Queued
<1>4. QueueInv
  BY <1>1, <1>2 DEF QueueInv, GoneApplied, Queues
<1>5. OrderInv
  BY <1>1, <1>2, <1>3 DEF OrderInv, Published, NamedInTurn, NotYetAsked, AppliedLast,
     QueuedAfter, Drains, RequestsApplied, AppliedOnce, AppliedInOrder
<1> QED
  BY <1>4, <1>5

LEMMA QueueInvariance == Spec => [](IInv /\ QueueInv)
<1>1. IInv /\ QueueInv /\ [Next]_vars => (IInv /\ QueueInv)'
  BY InvStep, QueueStep
<1> QED
  BY <1>1, InvInit, QueueInit, PTL DEF Spec

\* A request whose file was removed is in the record, whatever was killed
\* between the append and the removal and whoever drained the queue.
THEOREM NothingQueuedIsLost == Spec => []NothingLost
<1>1. IInv /\ QueueInv => NothingLost
  BY AppliedType DEF IInv, TypeOK, RecordTypeOK, QueueInv, GoneApplied, NothingLost
<1> QED
  BY <1>1, QueueInvariance, PTL

\* An attempt's intent is appended only while run-admission stands admitted and
\* with all that was queued before its launch in the record.
THEOREM HaltsPrecedeLaunches == Spec => NoLaunchPastHalt
<1>1. IInv /\ QueueInv /\ [Next]_vars =>
        [\A p \in Proc : Begin(p) =>
           /\ Admitted
           /\ \A r \in owed[p] : \E i \in DOMAIN record : record[i].req = r]_vars
  <2> SUFFICES ASSUME IInv, QueueInv, NEW p \in Proc, Begin(p)
               PROVE  /\ Admitted
                      /\ \A r \in owed[p] : \E i \in DOMAIN record : record[i].req = r
    OBVIOUS
  <2>1. pc[p] = "admitted"
    BY DEF Begin
  <2>2. Admitted /\ owed[p] \subseteq Applied
    BY <2>1 DEF QueueInv, Queues
  <2> QED
    BY <2>2 DEF Applied
<1> QED
  BY <1>1, QueueInvariance, PTL DEF Spec, NoLaunchPastHalt

\* Queued requests are applied once each and in the order of their names, over
\* any number of drains and kills, if a request is named and linked in one step.
THEOREM AppliedOnceAndInOrder == ASSUME AtomicPublish PROVE Spec => []RequestsApplied
<1>1. IInv /\ QueueInv /\ OrderInv /\ [Next]_vars => (IInv /\ QueueInv /\ OrderInv)'
  BY InvStep, QueueStep, OrderStep
<1>2. OrderInv => RequestsApplied
  BY DEF OrderInv
<1> QED
  BY <1>1, <1>2, InvInit, QueueInit, PTL DEF Spec

(* ---------------------------------------------------------------------- *)
(* The record implements the ledger of attempts.                           *)

Totals ==
  /\ Count("preparing") <= MaxLaunches
  /\ \A run \in Runs : Cardinality(OfRun(run)) <= Count("preparing")
  /\ Confirmed \subseteq Concluded

\* What a process relies on about the ledger: a launch has counted itself, a
\* process that ended was said how, and a stop is confirmed of a cancelled
\* attempt and once.
Stands(p) ==
  /\ pc[p] \in {"preparing", "admitted"} =>
       \A run \in Runs : Cardinality(OfRun(run)) + 1 <= Count("preparing")
  /\ pc[p] \in {"ended", "refusing"} => said[p] \in Said
  /\ pc[p] = "confirming" =>
       att[p] \in Concluded \ Confirmed /\ Ended[att[p]] = "cancelled"

LedgerInv == Totals /\ \A p \in Proc : Stands(p)

\* An attempt reads as ended by the one entry that ended it.
LEMMA EndWord ==
  ASSUME EndsOnce, NEW i \in DOMAIN record, Ends(record[i])
  PROVE  /\ record[i].att \in Concluded
         /\ Ended[record[i].att] =
              IF record[i].kind = "outcome" THEN record[i].word ELSE "interrupted"
<1> DEFINE a == record[i].att
           P(j) == Ends(record[j]) /\ record[j].att = a
<1>1. a \in Concluded
  BY DEF Concluded
<1>2. P(CHOOSE j \in DOMAIN record : P(j)) /\ (CHOOSE j \in DOMAIN record : P(j)) \in DOMAIN record
  OBVIOUS
<1>3. (CHOOSE j \in DOMAIN record : P(j)) = i
  BY <1>2 DEF EndsOnce
<1> QED
  BY <1>1, <1>3 DEF Ended

LEMMA OfRunType ==
  ASSUME record \in Seq(Entries)
  PROVE  \A run : IsFiniteSet(OfRun(run)) /\ Cardinality(OfRun(run)) \in Nat
BY IntentsFinite DEF OfRun

LEMMA CountType ==
  ASSUME record \in Seq(Entries), NEW k
  PROVE  IsFiniteSet(Positions(k)) /\ Count(k) \in Nat
<1>1. IsFiniteSet(1 .. Len(record))
  BY FS_Interval
<1>2. IsFiniteSet(Positions(k))
  BY <1>1, FS_Subset DEF Positions
<1> QED
  BY <1>2, FS_CardinalityType DEF Count

\* What an append does to the counts and to what was asked and confirmed.
LEMMA AppendCounts ==
  ASSUME record \in Seq(Entries), NEW e \in Entries, Append1(e)
  PROVE  /\ Count("preparing")' =
              IF e.kind = "preparing" THEN Count("preparing") + 1 ELSE Count("preparing")
         /\ Asked' = IF e.kind = "halt" THEN Asked \cup ({e.att} \ {NoAttempt}) ELSE Asked
         /\ Confirmed' = IF e.kind = "stopped" THEN Confirmed \cup {e.att} ELSE Confirmed
<1> DEFINE n == Len(record) + 1
<1>0. /\ DOMAIN record = 1 .. Len(record) /\ Len(record) \in Nat
      /\ DOMAIN record' = 1 .. n
      /\ \A i \in 1 .. Len(record) : record'[i] = record[i]
      /\ record'[n] = e
  BY AppendFolds
<1>1. /\ DOMAIN record' = DOMAIN record \cup {n} /\ n \notin DOMAIN record
      /\ \A i \in DOMAIN record : record'[i] = record[i]
      /\ record'[n] = e
  BY <1>0
<1> HIDE DEF n
<1>2. \A k : Positions(k)' = IF e.kind = k THEN Positions(k) \cup {n} ELSE Positions(k)
  BY <1>1 DEF Positions
<1>3. \A k : Positions(k) \subseteq DOMAIN record
  BY DEF Positions
<1>4. Count("preparing")' =
        IF e.kind = "preparing" THEN Count("preparing") + 1 ELSE Count("preparing")
  <2>1. CASE e.kind = "preparing"
    <3>1. n \notin Positions("preparing") /\ IsFiniteSet(Positions("preparing"))
      BY <1>1, <1>3, CountType
    <3>2. Cardinality(Positions("preparing") \cup {n}) = Cardinality(Positions("preparing")) + 1
      BY <3>1, FS_AddElement
    <3> QED
      BY <1>2, <2>1, <3>2 DEF Count
  <2>2. CASE e.kind # "preparing"
    BY <1>2, <2>2 DEF Count
  <2> QED
    BY <2>1, <2>2
<1>5. Asked' = IF e.kind = "halt" THEN Asked \cup ({e.att} \ {NoAttempt}) ELSE Asked
  BY <1>1, <1>2, <1>3 DEF Asked
<1>6. Confirmed' = IF e.kind = "stopped" THEN Confirmed \cup {e.att} ELSE Confirmed
  BY <1>1, <1>2, <1>3 DEF Confirmed
<1> QED
  BY <1>4, <1>5, <1>6

\* What an entry that halts or resumes does to what stands halted.
LEMMA AppendHalts ==
  ASSUME record \in Seq(Entries), NEW e \in Entries, Append1(e)
  PROVE  /\ e.kind = "halt" => Halted' = Halted \cup e.scopes
         /\ e.kind = "resume" => Halted' = Halted \ e.scopes
<1> DEFINE n == Len(record) + 1
<1>0. /\ DOMAIN record = 1 .. Len(record) /\ Len(record) \in Nat
      /\ DOMAIN record' = 1 .. n
      /\ \A i \in 1 .. Len(record) : record'[i] = record[i]
      /\ record'[n] = e
  BY AppendFolds
<1>1. /\ DOMAIN record' = DOMAIN record \cup {n} /\ n \notin DOMAIN record
      /\ \A i \in DOMAIN record : record'[i] = record[i] /\ i < n /\ ~ (n < i)
      /\ record'[n] = e
  BY <1>0
<1> HIDE DEF n
<1>2. \A k : Positions(k)' = IF e.kind = k THEN Positions(k) \cup {n} ELSE Positions(k)
  BY <1>1 DEF Positions
<1>3. \A k : Positions(k) \subseteq DOMAIN record
  BY DEF Positions
<1>4. e.scopes \subseteq Scopes
  BY DEF Entries
<1>5. ASSUME e.kind = "halt" PROVE Halted' = Halted \cup e.scopes
  <2>1. Positions("halt")' = Positions("halt") \cup {n} /\ Positions("resume")' = Positions("resume")
    BY <1>2, <1>5
  <2>2. \A j \in Positions("resume") : ~ (j > n) /\ record'[j] = record[j]
    BY <1>1, <1>3
  <2>3. \A j \in Positions("halt") : record'[j] = record[j]
    BY <1>1, <1>3
  <2> QED
    BY <1>1, <1>4, <2>1, <2>2, <2>3 DEF Halted
<1>6. ASSUME e.kind = "resume" PROVE Halted' = Halted \ e.scopes
  <2>1. Positions("halt")' = Positions("halt") /\ Positions("resume")' = Positions("resume") \cup {n}
    BY <1>2, <1>6
  <2>2. \A j \in Positions("resume") : record'[j] = record[j]
    BY <1>1, <1>3
  <2>3. \A j \in Positions("halt") : record'[j] = record[j] /\ n > j
    BY <1>0, <1>1, <1>3 DEF n
  <2> QED
    BY <1>1, <1>4, <2>1, <2>2, <2>3 DEF Halted
<1> QED
  BY <1>5, <1>6

\* What an append does to how attempts ended.
LEMMA AppendEnded ==
  ASSUME record \in Seq(Entries), RecordInv, RecordInv', NEW e \in Entries, Append1(e)
  PROVE  /\ \A a \in Concluded : a \in Concluded' /\ Ended'[a] = Ended[a]
         /\ Ends(e) => /\ Concluded' = Concluded \cup {e.att}
                       /\ Ended'[e.att] = IF e.kind = "outcome" THEN e.word ELSE "interrupted"
         /\ ~ Ends(e) => Concluded' = Concluded /\ Ended' = Ended
<1> DEFINE n == Len(record) + 1
<1>0. /\ DOMAIN record = 1 .. Len(record) /\ Len(record) \in Nat
      /\ DOMAIN record' = 1 .. n
      /\ \A i \in 1 .. Len(record) : record'[i] = record[i]
      /\ record'[n] = e
      /\ Concluded' = IF Ends(e) THEN Concluded \cup {e.att} ELSE Concluded
  BY AppendFolds
<1>1. /\ DOMAIN record' = DOMAIN record \cup {n}
      /\ \A i \in DOMAIN record : record'[i] = record[i]
      /\ record'[n] = e
  BY <1>0
<1> HIDE DEF n
<1>2. ASSUME NEW i \in DOMAIN record', Ends(record'[i])
      PROVE  Ended'[record'[i].att] =
               IF record'[i].kind = "outcome" THEN record'[i].word ELSE "interrupted"
  <2> DEFINE a == record'[i].att
             P(j) == Ends(record'[j]) /\ record'[j].att = a
  <2>1. a \in Concluded'
    BY <1>2 DEF Concluded, Ends
  <2>2. /\ P(CHOOSE j \in DOMAIN record' : P(j))
        /\ (CHOOSE j \in DOMAIN record' : P(j)) \in DOMAIN record'
    BY <1>2
  <2>3. (CHOOSE j \in DOMAIN record' : P(j)) = i
    BY <1>2, <2>2 DEF RecordInv, EndsOnce, Ends
  <2> QED
    BY <2>1, <2>3 DEF Ended, Ends
<1>3. ASSUME NEW a \in Concluded PROVE a \in Concluded' /\ Ended'[a] = Ended[a]
  <2>1. PICK i \in DOMAIN record : Ends(record[i]) /\ record[i].att = a
    BY <1>3 DEF Concluded
  <2>2. Ended[a] = IF record[i].kind = "outcome" THEN record[i].word ELSE "interrupted"
    BY <2>1, EndWord DEF RecordInv
  <2>3. i \in DOMAIN record' /\ record'[i] = record[i] /\ Ends(record'[i])
    BY <1>1, <2>1
  <2> QED
    BY <1>0, <1>2, <2>1, <2>2, <2>3
<1>4. Ends(e) => Ended'[e.att] = IF e.kind = "outcome" THEN e.word ELSE "interrupted"
  BY <1>1, <1>2
<1>5. ~ Ends(e) => Ended' = Ended
  <2>1. \E f : Ended = [a \in Concluded |-> f[a]]
    <3>1. Ended = [a \in Concluded |-> Ended[a]]
      BY DEF Ended
    <3> QED
      BY <3>1
  <2>2. Ended' = [a \in Concluded' |-> Ended'[a]]
    BY DEF Ended
  <2>3. Ended = [a \in Concluded |-> Ended[a]]
    BY <2>1
  <2> QED
    BY <1>0, <1>3, <2>2, <2>3
<1> QED
  BY <1>0, <1>3, <1>4, <1>5

\* An entry that neither begins, ends, halts, resumes nor confirms.
LEMMA PlainLedger ==
  ASSUME record \in Seq(Entries), RecordInv, RecordInv',
         \/ UNCHANGED record
         \/ \E e \in Entries :
              /\ Append1(e)
              /\ e.kind \in {"preparing", "prepared", "archived", "reconciled"}
              /\ ~ Ends(e)
  PROVE  UNCHANGED <<Live, Ended, Halted, Asked, Confirmed, Concluded, Intents>>
<1>1. CASE UNCHANGED record
  BY <1>1 DEF Live, Ended, Halted, Asked, Confirmed, Concluded, Intents, Positions
<1>2. ASSUME NEW e \in Entries, Append1(e),
             e.kind \in {"preparing", "prepared", "archived", "reconciled"}, ~ Ends(e)
      PROVE  UNCHANGED <<Live, Ended, Halted, Asked, Confirmed, Concluded, Intents>>
  <2>1. Concluded' = Concluded /\ Intents' = Intents
    BY <1>2, AppendFolds
  <2>2. Live' = Live
    BY <2>1 DEF Live
  <2>3. Ended' = Ended
    BY <1>2, AppendEnded
  <2>4. Halted' = Halted /\ Asked' = Asked /\ Confirmed' = Confirmed
    BY <1>2, AppendApplied, AppendCounts
  <2> QED
    BY <2>1, <2>2, <2>3, <2>4
<1> QED
  BY <1>1, <1>2

\* The numbers of attempts fit the bound on preparations.
LEMMA SmallNumbers ==
  ASSUME IInv, LedgerInv
  PROVE  /\ Intents \subseteq [run : Runs, n : 1 .. MaxLaunches]
         /\ \A p \in Proc : pc[p] = "admitted" => att[p] \in [run : Runs, n : 1 .. MaxLaunches]
<1> USE RunControlAssumption DEF IInv, TypeOK, RecordTypeOK
<1>1. Count("preparing") \in Nat /\ Count("preparing") <= MaxLaunches
  BY CountType DEF LedgerInv, Totals
<1>2. ASSUME NEW a \in Attempts, a.n <= Count("preparing")
      PROVE  a \in [run : Runs, n : 1 .. MaxLaunches]
  <2>1. a = [run |-> a.run, n |-> a.n] /\ a.run \in Runs /\ a.n \in Nat \ {0}
    BY DEF Attempts
  <2>2. a.n \in 1 .. MaxLaunches
    BY <1>1, <1>2, <2>1
  <2> QED
    BY <2>1, <2>2
<1>3. ASSUME NEW a \in Intents PROVE a \in [run : Runs, n : 1 .. MaxLaunches]
  <2>1. a \in Attempts /\ a.run \in Runs /\ a.n \in Nat
    BY IntentsAreAttempts DEF RecordInv, Attempts
  <2>2. a.n <= Cardinality(OfRun(a.run)) /\ Cardinality(OfRun(a.run)) \in Nat
    BY IntentsFinite DEF RecordInv, Numbered, OfRun
  <2>3. Cardinality(OfRun(a.run)) <= Count("preparing")
    BY <2>1 DEF LedgerInv, Totals
  <2> QED
    BY <1>1, <1>2, <2>1, <2>2, <2>3
<1>4. ASSUME NEW p \in Proc, pc[p] = "admitted"
      PROVE  att[p] \in [run : Runs, n : 1 .. MaxLaunches]
  <2>1. att[p] \in Attempts /\ att[p].n <= Cardinality(OfRun(att[p].run)) + 1
    BY <1>4 DEF Fits
  <2>2. att[p].run \in Runs /\ att[p].n \in Nat
    BY <2>1 DEF Attempts
  <2>3. Cardinality(OfRun(att[p].run)) + 1 <= Count("preparing")
        /\ Cardinality(OfRun(att[p].run)) \in Nat
    BY <1>4, <2>2, IntentsFinite DEF LedgerInv, Stands, OfRun
  <2> QED
    BY <1>1, <1>2, <2>1, <2>2, <2>3
<1> QED
  BY <1>3, <1>4

\* Entries that are neither a preparation, an intent nor a confirmation leave the
\* totals as they are.
LEMMA TotalsKept ==
  ASSUME record \in Seq(Entries), Totals,
         \/ UNCHANGED record
         \/ \E e \in Entries :
              Append1(e) /\ e.kind \notin {"preparing", "intent", "stopped"}
  PROVE  Totals' /\ Count("preparing")' = Count("preparing") /\ Intents' = Intents
<1>1. CASE UNCHANGED record
  <2>1. /\ Count("preparing")' = Count("preparing")
        /\ Intents' = Intents
        /\ Confirmed' = Confirmed
        /\ Concluded' = Concluded
    BY <1>1 DEF Count, Intents, Positions, Confirmed, Concluded
  <2> QED
    BY <2>1 DEF Totals, OfRun
<1>2. ASSUME NEW e \in Entries, Append1(e), e.kind \notin {"preparing", "intent", "stopped"}
      PROVE  Totals' /\ Count("preparing")' = Count("preparing") /\ Intents' = Intents
  <2>1. /\ Count("preparing")' = Count("preparing")
        /\ Intents' = Intents
        /\ Confirmed' = Confirmed
        /\ Concluded \subseteq Concluded'
    BY <1>2, AppendCounts, AppendFolds
  <2> QED
    BY <2>1 DEF Totals, OfRun
<1> QED
  BY <1>1, <1>2

\* Others than the process that moves are idle, and rely on nothing.
LEMMA LedgerMoves ==
  ASSUME IInv, NEW p \in Proc, pc[p] # "idle" \/ holder = NoProc,
         \A q \in Proc \ {p} : pc'[q] = pc[q],
         Totals', Stands(p)'
  PROVE  LedgerInv'
<1>1. \A q \in Proc \ {p} : pc'[q] = "idle"
  BY OthersIdle DEF IInv
<1>2. \A q \in Proc \ {p} : Stands(q)'
  BY <1>1 DEF Stands
<1> QED
  BY <1>2 DEF LedgerInv

\* A halt or a resume entry is a step of the ledger.
LEMMA ChangeLedger ==
  ASSUME IInv, IInv', NEW r \in Requests, NEW c \in {"halt", "resume"}, NEW S \in SUBSET Scopes,
         Append1(ChangeEntry(r, c, S))
  PROVE  Ledger!Halt \/ Ledger!Resume
<1> DEFINE e == ChangeEntry(r, c, S)
<1> USE DEF IInv, TypeOK, RecordTypeOK
<1>1. /\ e \in Entries /\ e.kind = c
      /\ e.att \in Live \cup {NoAttempt}
  BY ChangeEntryType
<1>2. e.scopes = S
  BY DEF ChangeEntry, Entry
<1>3. e.att = IF c = "halt" /\ S \cap {"run-admission", "tool-effects"} # {} /\ Live # {}
                THEN CHOOSE a \in Live : TRUE ELSE NoAttempt
  BY DEF ChangeEntry, Entry
<1> HIDE DEF e
<1>4. ~ Ends(e) /\ Append1(e)
  BY <1>1 DEF Ends, e
<1>5. Ended' = Ended /\ Intents' = Intents /\ Concluded' = Concluded /\ Confirmed' = Confirmed
  BY <1>1, <1>4, AppendEnded, AppendFolds, AppendCounts
<1>6. Live' = Live
  BY <1>5 DEF Live
<1>7. CASE c = "halt"
  <2>1. Halted' = Halted \cup S
    BY <1>1, <1>2, <1>4, <1>7, AppendHalts
  <2>2. Asked' = Asked \cup ({e.att} \ {NoAttempt})
    BY <1>1, <1>4, <1>7, AppendCounts
  <2>3. Live \subseteq Attempts /\ \A a, b \in Live : a = b
    BY IntentsAreAttempts DEF RecordInv, OneLiveAttempt, Live
  <2>4. NoAttempt \notin Live
    BY <2>3, RunControlAssumption DEF Attempts
  <2>5. Asked' = IF S \cap {"run-admission", "tool-effects"} # {} THEN Asked \cup Live ELSE Asked
    <3>1. CASE S \cap {"run-admission", "tool-effects"} # {} /\ Live # {}
      <4>1. e.att \in Live
        BY <1>3, <1>7, <3>1
      <4>2. Live = {e.att} /\ e.att # NoAttempt
        BY <2>3, <2>4, <4>1
      <4> QED
        BY <2>2, <3>1, <4>2
    <3>2. CASE ~ (S \cap {"run-admission", "tool-effects"} # {} /\ Live # {})
      <4>1. e.att = NoAttempt
        BY <1>3, <3>2
      <4> QED
        BY <2>2, <3>2, <4>1
    <3> QED
      BY <3>1, <3>2
  <2> QED
    BY <1>5, <1>6, <2>1, <2>5 DEF Ledger!Halt, Ledger!Stopping
<1>8. CASE c = "resume"
  <2>1. Halted' = Halted \ S /\ Asked' = Asked
    BY <1>1, <1>2, <1>4, <1>8, AppendHalts, AppendCounts
  <2> QED
    BY <1>5, <1>6, <2>1 DEF Ledger!Resume
<1> QED
  BY <1>7, <1>8

\* The entry that ends the live attempt is a step of the ledger.
LEMMA EndLedger ==
  ASSUME IInv, IInv', LedgerInv, NEW e \in Entries, Append1(e), Ends(e), e.att \in Live,
         e.kind = "outcome" => e.word \in Said
  PROVE  /\ Ledger!Next
         /\ e.att \in (Concluded \ Confirmed)'
         /\ Ended'[e.att] = IF e.kind = "outcome" THEN e.word ELSE "interrupted"
<1> USE DEF IInv, TypeOK, RecordTypeOK
<1>1. e.kind \in {"outcome", "reconciled"}
  BY DEF Ends
<1>2. Live = {e.att} /\ Live' = {}
  BY EndAppend DEF RecordInv, OneLiveAttempt
<1>3. /\ \A a \in Concluded : Ended'[a] = Ended[a]
      /\ Concluded' = Concluded \cup {e.att}
      /\ Ended'[e.att] = IF e.kind = "outcome" THEN e.word ELSE "interrupted"
  BY AppendEnded
<1>4. Halted' = Halted /\ Asked' = Asked /\ Confirmed' = Confirmed
  BY <1>1, AppendApplied, AppendCounts
<1>5. DOMAIN Ended = Concluded /\ DOMAIN Ended' = Concluded'
  BY DEF Ended
<1>6. Ended'[e.att] \in Said
  BY <1>1, <1>3, WordTypes
<1>7. Ledger!End(e.att)
  BY <1>2, <1>3, <1>4, <1>5, <1>6 DEF Ledger!End
<1>8. e.att \in [run : Runs, n : 1 .. MaxLaunches]
  BY SmallNumbers DEF Live
<1>9. e.att \notin Confirmed
  BY DEF Live, LedgerInv, Totals
<1> QED
  BY <1>3, <1>4, <1>7, <1>8, <1>9 DEF Ledger!Next

LEMMA LedgerStep ==
  ASSUME IInv, IInv', LedgerInv, QueueInv, [Next]_vars
  PROVE  LedgerInv' /\ [Ledger!Next]_(Ledger!vars)
<1> DEFINE Goal == LedgerInv' /\ [Ledger!Next]_(Ledger!vars)
<1> USE StepNames DEF IInv, TypeOK, LocalTypeOK, RecordTypeOK
\* A step that the ledger does not see, to where nothing more is relied on.
<1>1. ASSUME NEW p \in Proc, pc[p] # "idle" \/ holder = NoProc,
             \A q \in Proc \ {p} : pc'[q] = pc[q],
             pc'[p] \notin {"preparing", "admitted", "confirming"},
             pc'[p] \in {"ended", "refusing"} => said'[p] \in Said,
             \/ UNCHANGED record
             \/ \E e \in Entries :
                  Append1(e) /\ e.kind \in {"prepared", "archived", "reconciled"} /\ ~ Ends(e)
      PROVE  Goal
  <2>1. UNCHANGED (Ledger!vars)
    BY <1>1, PlainLedger DEF Ledger!vars
  <2>2. Totals'
    BY <1>1, TotalsKept DEF LedgerInv
  <2>3. Stands(p)'
    BY <1>1 DEF Stands
  <2> QED
    BY <1>1, <2>1, <2>2, <2>3, LedgerMoves
<1>2. ASSUME NEW p \in Proc, pc[p] # "idle", Release(p),
             \/ UNCHANGED record
             \/ \E e \in Entries :
                  Append1(e) /\ e.kind \in {"prepared", "archived", "reconciled"} /\ ~ Ends(e)
      PROVE  Goal
  <2>1. pc'[p] = "idle" /\ \A q \in Proc \ {p} : pc'[q] = pc[q]
    BY <1>2 DEF Release, Goto
  <2> QED
    BY <1>1, <1>2, <2>1
<1>3. ASSUME NEW p \in Proc, pc[p] # "idle", Refuse(p) PROVE Goal
  BY <1>2, <1>3 DEF Refuse
<1>4. ASSUME NEW p \in Proc, NEW v \in {"run", "change", "reconcile"},
             TryAcquire(p, v)
      PROVE  Goal
  <2>1. /\ pc'[p] = "locked" /\ holder = NoProc
        /\ \A q \in Proc \ {p} : pc'[q] = pc[q]
        /\ UNCHANGED record
    BY <1>4 DEF TryAcquire, Goto
  <2> QED
    BY <1>1, <2>1
<1>5. ASSUME NEW p \in Proc, pc[p] # "idle", UNCHANGED record,
             NEW s \in Steps \ {"preparing", "admitted", "confirming"}, Goto(p, s),
             s \in {"ended", "refusing"} => said'[p] \in Said
      PROVE  Goal
  <2>1. pc'[p] = s /\ \A q \in Proc \ {p} : pc'[q] = pc[q]
    BY <1>5 DEF Goto
  <2> QED
    BY <1>1, <1>5, <2>1
<1>6. ASSUME NEW p \in Proc, ListRequests(p) \/ Poll(p) PROVE Goal
  <2>1. CASE Refuse(p)
    BY <1>3, <1>6, <2>1 DEF ListRequests, Poll
  <2>2. CASE ~ Refuse(p)
    <3>1. /\ pc[p] # "idle" /\ UNCHANGED record
          /\ \/ Goto(p, "draining")
             \/ Goto(p, "ended") /\ said' = [said EXCEPT ![p] = "interrupted"]
      BY <1>6, <2>2 DEF ListRequests, Poll
    <3> QED
      BY <1>5, <3>1, WordTypes
  <2> QED
    BY <2>1, <2>2
<1>7. ASSUME NEW p \in Proc, ApplyRequest(p) PROVE Goal
  <2>0. PICK r : r = Oldest(batch[p])
    OBVIOUS
  <2> DEFINE e == ChangeEntry(r, ask[r].change, ask[r].scopes)
  <2>1. pc[p] = "draining" /\ batch[p] # {}
    BY <1>7 DEF ApplyRequest
  <2>2. CASE Refuse(p)
    BY <1>3, <2>1, <2>2
  <2>3. CASE ~ Refuse(p)
    <3>1. /\ Goto(p, "removing")
          /\ UNCHANGED record \/ Append1(e)
      BY <1>7, <2>0, <2>3 DEF ApplyRequest
    <3>2. CASE UNCHANGED record
      BY <1>5, <2>1, <3>1, <3>2
    <3>3. CASE Append1(e)
      <4>1. r \in batch[p] /\ r \in Requests
        BY <2>0, <2>1, OldestLeast, SMTT(30)
      <4>2. ask[r].change \in {"halt", "resume"} /\ ask[r].scopes \in SUBSET Scopes
        BY <4>1 DEF BatchReads, RequestTypeOK
      <4>3. e \in Entries /\ e.kind \in {"halt", "resume"}
        BY <4>1, <4>2, ChangeEntryType
      <4>4. Ledger!Next
        BY <3>3, <4>1, <4>2, ChangeLedger DEF Ledger!Next
      <4> HIDE DEF e
      <4>5. Totals'
        BY <3>3, <4>3, TotalsKept DEF LedgerInv
      <4>6. pc'[p] = "removing" /\ \A q \in Proc \ {p} : pc'[q] = pc[q]
        BY <3>1 DEF Goto
      <4>7. Stands(p)'
        BY <4>6 DEF Stands
      <4> QED
        BY <2>1, <4>4, <4>5, <4>6, <4>7, LedgerMoves
    <3> QED
      BY <3>1, <3>2, <3>3
  <2> QED
    BY <2>2, <2>3
<1>8. ASSUME NEW p \in Proc, RemoveRequest(p) PROVE Goal
  BY <1>5, <1>8 DEF RemoveRequest
<1>9. ASSUME NEW p \in Proc, RemoveFails(p) PROVE Goal
  <2>1. CASE Refuse(p)
    BY <1>3, <1>9, <2>1 DEF RemoveFails
  <2>2. CASE ~ Refuse(p)
    BY <1>5, <1>9, <2>2 DEF RemoveFails
  <2> QED
    BY <2>1, <2>2
<1>10. ASSUME NEW p \in Proc, Drained(p) PROVE Goal
  <2>1. /\ pc[p] # "idle" /\ UNCHANGED record
        /\ \E s \in {"deciding", "ready", "changing", "finding"} : Goto(p, s)
    BY <1>10 DEF Drained
  <2> QED
    BY <1>5, <2>1
<1>11. ASSUME NEW p \in Proc, NEW run \in Runs, Prepare(p, run) PROVE Goal
  <2>1. CASE Refuse(p)
    BY <1>3, <1>11, <2>1 DEF Prepare
  <2>2. CASE ~ Refuse(p)
    <3> DEFINE e == Entry("preparing", NoAttempt, "none")
    <3>1. /\ pc[p] = "ready"
          /\ Count("preparing") < MaxLaunches
          /\ Append1(e)
          /\ Goto(p, "preparing")
      BY <1>11, <2>2 DEF Prepare
    <3>2. e \in Entries /\ e.kind = "preparing"
      BY LaunchEntries
    <3> HIDE DEF e
    <3>3. ~ Ends(e)
      BY <3>2 DEF Ends
    <3>4. UNCHANGED <<Live, Ended, Halted, Asked, Confirmed, Concluded, Intents>>
      BY <3>1, <3>2, <3>3, PlainLedger
    <3>5. Count("preparing")' = Count("preparing") + 1
      BY <3>1, <3>2, AppendCounts
    <3>6. \A r : Cardinality(OfRun(r)) \in Nat /\ OfRun(r)' = OfRun(r)
      <4>1. \A r : Cardinality(OfRun(r)) \in Nat
        BY OfRunType
      <4>2. \A r : OfRun(r)' = OfRun(r)
        BY <3>4 DEF OfRun
      <4> QED
        BY <4>1, <4>2
    <3>7. Count("preparing") \in Nat /\ MaxLaunches \in Nat
      BY CountType, RunControlAssumption
    <3>8. \A r \in Runs : Cardinality(OfRun(r)) <= Count("preparing")
      BY DEF LedgerInv, Totals
    <3>9. Totals'
      <4>1. Confirmed' \subseteq Concluded'
        BY <3>4 DEF LedgerInv, Totals
      <4>2. Count("preparing")' <= MaxLaunches
        BY <3>1, <3>5, <3>7
      <4>3. \A r \in Runs : Cardinality(OfRun(r)') <= Count("preparing")'
        BY <3>5, <3>6, <3>7, <3>8
      <4> QED
        BY <4>1, <4>2, <4>3 DEF Totals
    <3>10. pc'[p] = "preparing" /\ \A q \in Proc \ {p} : pc'[q] = pc[q]
      BY <3>1 DEF Goto
    <3>11. Stands(p)'
      <4>1. \A r \in Runs : Cardinality(OfRun(r)') + 1 <= Count("preparing")'
        BY <3>5, <3>6, <3>7, <3>8
      <4> QED
        BY <3>10, <4>1 DEF Stands
    <3> QED
      BY <3>1, <3>4, <3>9, <3>10, <3>11, LedgerMoves DEF Ledger!vars
  <2> QED
    BY <2>1, <2>2
<1>12. ASSUME NEW p \in Proc, Prepared(p) PROVE Goal
  <2>1. PICK w \in {"admitted", "refused"} :
          /\ Append1(Entry("prepared", NoAttempt, w))
          /\ Goto(p, IF w = "admitted" THEN "admitted" ELSE "archiving")
    BY <1>12 DEF Prepared
  <2> DEFINE e == Entry("prepared", NoAttempt, w)
  <2>2. e \in Entries /\ e.kind = "prepared" /\ Append1(e)
    BY <2>1, LaunchEntries
  <2> HIDE DEF e
  <2>3. ~ Ends(e)
    BY <2>2 DEF Ends
  <2>4. pc[p] = "preparing"
    BY <1>12 DEF Prepared
  <2>5. UNCHANGED <<Live, Ended, Halted, Asked, Confirmed>>
    BY <2>2, <2>3, PlainLedger
  <2>6. Totals' /\ Count("preparing")' = Count("preparing") /\ Intents' = Intents
    BY <2>2, TotalsKept DEF LedgerInv
  <2>7. pc'[p] \in {"admitted", "archiving"} /\ \A q \in Proc \ {p} : pc'[q] = pc[q]
    BY <2>1 DEF Goto
  <2>8. Stands(p)
    BY DEF LedgerInv
  <2>9. Stands(p)'
    BY <2>4, <2>6, <2>7, <2>8 DEF Stands, OfRun
  <2> QED
    BY <2>4, <2>5, <2>6, <2>7, <2>9, LedgerMoves DEF Ledger!vars
<1>13. ASSUME NEW p \in Proc, Archive(p) PROVE Goal
  <2> DEFINE e == Entry("archived", NoAttempt, "none")
  <2>1. e \in Entries /\ e.kind = "archived" /\ ~ Ends(e)
    BY LaunchEntries DEF Ends
  <2>2. pc[p] # "idle" /\ Release(p) /\ (UNCHANGED record \/ Append1(e))
    BY <1>13 DEF Archive
  <2> HIDE DEF e
  <2> QED
    BY <1>2, <2>1, <2>2
<1>14. ASSUME NEW p \in Proc, Begin(p) PROVE Goal
  <2> DEFINE e == IntentOf(att[p], follows[p])
             a == att[p]
  <2>1. pc[p] = "admitted" /\ Append1(e) /\ Goto(p, "intended")
    BY <1>14 DEF Begin, IntentOf
  <2>2. e \in Entries /\ e.kind = "intent" /\ e.att = a
    <3>1. a \in Attempts \cup {NoAttempt} /\ follows[p] \in SUBSET Attempts
      OBVIOUS
    <3> QED
      BY <3>1, IntentEntry
  <2> HIDE DEF e
  <2>3. Live = {} /\ a \in Attempts \ Intents /\ a.n <= Cardinality(OfRun(a.run)) + 1
    BY <2>1 DEF Fits
  <2>4. Live' = {a}
    BY <2>1, <2>2, <2>3, BeginAppend
  <2>5. ~ Ends(e)
    BY <2>2 DEF Ends
  <2>6. Ended' = Ended /\ Concluded' = Concluded
    BY <2>1, <2>2, <2>5, AppendEnded
  <2>7. /\ Halted' = Halted /\ Asked' = Asked /\ Confirmed' = Confirmed
        /\ Count("preparing")' = Count("preparing")
        /\ Intents' = Intents \cup {a}
    BY <2>1, <2>2, AppendApplied, AppendCounts, AppendFolds
  <2>8. a \notin Concluded /\ DOMAIN Ended = Concluded
    BY <2>3 DEF RecordInv, EndsWhatBegan, Ended
  <2>9. "run-admission" \notin Halted
    BY <2>1 DEF QueueInv, Queues, Admitted
  <2>10. Ledger!Start(a)
    BY <2>3, <2>4, <2>6, <2>7, <2>8, <2>9 DEF Ledger!Start
  <2>11. Ledger!Next
    BY <2>1, <2>10, SmallNumbers DEF Ledger!Next
  <2>12. Totals'
    <3>1. Confirmed' \subseteq Concluded' /\ Count("preparing")' <= MaxLaunches
      BY <2>6, <2>7 DEF LedgerInv, Totals
    <3>2. ASSUME NEW run \in Runs PROVE Cardinality(OfRun(run)') <= Count("preparing")'
      <4>1. IsFiniteSet(OfRun(run)) /\ Cardinality(OfRun(run)) \in Nat
        BY OfRunType
      <4>2. Cardinality(OfRun(run)) + 1 <= Count("preparing") /\ Count("preparing") \in Nat
        BY <2>1, CountType DEF LedgerInv, Stands
      <4>3. OfRun(run)' = IF a.run = run THEN OfRun(run) \cup {a} ELSE OfRun(run)
        BY <2>7 DEF OfRun
      <4>4. a \notin OfRun(run)
        BY <2>3 DEF OfRun
      <4>5. Cardinality(OfRun(run) \cup {a}) = Cardinality(OfRun(run)) + 1
        BY <4>1, <4>4, FS_AddElement
      <4> QED
        BY <2>7, <4>1, <4>2, <4>3, <4>5
    <3> QED
      BY <3>1, <3>2 DEF Totals
  <2>13. pc'[p] = "intended" /\ \A q \in Proc \ {p} : pc'[q] = pc[q]
    BY <2>1 DEF Goto
  <2>14. Stands(p)'
    BY <2>13 DEF Stands
  <2> QED
    BY <2>1, <2>11, <2>12, <2>13, <2>14, LedgerMoves
<1>15. ASSUME NEW p \in Proc,
              RefuseBeforeSpawn(p) \/ Spawn(p) \/ Decide(p) \/ AgentEnds(p)
       PROVE  Goal
  <2>1. /\ pc[p] # "idle" /\ UNCHANGED record
        /\ \/ Goto(p, "running")
           \/ /\ Goto(p, "refusing") \/ Goto(p, "ended")
              /\ \E w \in Said : said' = [said EXCEPT ![p] = w]
    BY <1>15, WordTypes DEF RefuseBeforeSpawn, Spawn, Decide, AgentEnds
  <2> QED
    BY <1>5, <2>1
<1>16. ASSUME NEW p \in Proc, LeaveLive(p) PROVE Goal
  BY <1>3, <1>16 DEF LeaveLive
<1>17. ASSUME NEW p \in Proc, Conclude(p) PROVE Goal
  <2>1. PICK w \in {said[p], "refused", "interrupted"} :
          /\ Append1(Entry("outcome", att[p], w))
          /\ \/ w = "cancelled" /\ Goto(p, "confirming") /\ UNCHANGED att
             \/ Release(p)
    BY <1>17 DEF Conclude
  <2>2. pc[p] \in {"ended", "refusing"} /\ att[p] \in Live
    BY <1>17 DEF Conclude, Supervises, Supervising, Fits
  <2>3. w \in Said
    BY <2>1, <2>2, WordTypes DEF LedgerInv, Stands
  <2>4. PICK e : e = Entry("outcome", att[p], w)
    OBVIOUS
  <2>5. w \in Words /\ att[p] \in Attempts \cup {NoAttempt}
    BY <2>3, WordTypes
  <2>6. e \in Entries /\ e.kind = "outcome" /\ e.att = att[p] /\ e.word = w
    <3>1. e \in Entries
      BY <2>4, <2>5, OutcomeEntry
    <3>2. e.kind = "outcome"
      BY <2>4, <2>5, OutcomeEntry
    <3>3. e.att = att[p]
      BY <2>4, <2>5, OutcomeEntry
    <3>4. e.word = w
      BY <2>4 DEF Entry
    <3> QED
      BY <3>1, <3>2, <3>3, <3>4
  <2>7. Append1(e) /\ Ends(e)
    BY <2>1, <2>4, <2>6 DEF Ends
  <2>8. /\ Ledger!Next
        /\ att[p] \in (Concluded \ Confirmed)'
        /\ Ended'[att[p]] = w
    BY <2>2, <2>3, <2>6, <2>7, EndLedger
  <2>9. Totals'
    BY <2>6, <2>7, TotalsKept DEF LedgerInv
  <2>10. /\ pc'[p] \in {"confirming", "idle"}
         /\ pc'[p] = "confirming" => w = "cancelled" /\ att' = att
         /\ \A q \in Proc \ {p} : pc'[q] = pc[q]
    BY <2>1 DEF Release, Goto
  <2>11. Stands(p)'
    BY <2>8, <2>10 DEF Stands
  <2> QED
    BY <2>2, <2>8, <2>9, <2>10, <2>11, LedgerMoves
<1>18. ASSUME NEW p \in Proc, ConfirmStop(p) PROVE Goal
  <2>1. /\ pc[p] = "confirming" /\ Release(p)
        /\ \/ UNCHANGED record
           \/ StopStands(att[p]) /\ Append1(Entry("stopped", att[p], "none"))
    BY <1>18 DEF ConfirmStop
  <2>2. CASE UNCHANGED record
    BY <1>2, <2>1, <2>2
  <2>3. CASE StopStands(att[p]) /\ Append1(Entry("stopped", att[p], "none"))
    <3> DEFINE a == att[p]
    <3>1. PICK e : e = Entry("stopped", a, "none")
      OBVIOUS
    <3>2. e \in Entries /\ e.kind = "stopped" /\ e.att = a
      <4>1. a \in Attempts \cup {NoAttempt}
        OBVIOUS
      <4> QED
        BY <3>1, <4>1, StoppedEntry
    <3>3. Append1(e) /\ ~ Ends(e)
      BY <2>3, <3>1, <3>2 DEF Ends
    <3>4. a \in Concluded \ Confirmed /\ Ended[a] = "cancelled"
      BY <2>1 DEF LedgerInv, Stands
    <3>5. a \in Intents
      BY <3>4 DEF RecordInv, EndsWhatBegan
    <3>6. a \in Attempts /\ a # NoAttempt
      BY <3>5, IntentsAreAttempts, RunControlAssumption DEF RecordInv, Attempts
    <3>7. a \in Asked
      BY <2>3, <3>6 DEF StopStands, Asked
    <3>8. Confirmed' = Confirmed \cup {a} /\ Asked' = Asked /\ Halted' = Halted
      BY <3>2, <3>3, AppendApplied, AppendCounts
    <3>9. Ended' = Ended /\ Concluded' = Concluded /\ Intents' = Intents
      BY <3>2, <3>3, AppendEnded, AppendFolds
    <3>10. DOMAIN Ended = Concluded /\ Live' = Live
      BY <3>9 DEF Ended, Live
    <3>11. Ledger!Confirm(a)
      BY <3>4, <3>7, <3>8, <3>9, <3>10 DEF Ledger!Confirm
    <3>12. Ledger!Next
      BY <3>5, <3>11, SmallNumbers DEF Ledger!Next
    <3>13. Count("preparing")' = Count("preparing")
      BY <3>2, <3>3, AppendCounts
    <3>14. Totals'
      BY <3>4, <3>8, <3>9, <3>13 DEF LedgerInv, Totals, OfRun
    <3>15. pc'[p] = "idle" /\ \A q \in Proc \ {p} : pc'[q] = pc[q]
      BY <2>1 DEF Release, Goto
    <3>16. Stands(p)'
      BY <3>15 DEF Stands
    <3> QED
      BY <2>1, <3>12, <3>14, <3>15, <3>16, LedgerMoves
  <2> QED
    BY <2>1, <2>2, <2>3
<1>19. ASSUME NEW p \in Proc, Change(p) PROVE Goal
  <2>1. CASE Refuse(p)
    BY <1>3, <1>19, <2>1 DEF Change
  <2>2. CASE ~ Refuse(p)
    <3>0. PICK r : r = NextName
      OBVIOUS
    <3>1. PICK c \in Changes \ {"garbled"}, S \in ScopeSets :
            Append1(ChangeEntry(r, c, S)) /\ Release(p)
      BY <1>19, <2>2, <3>0 DEF Change
    <3>2. r \in Requests /\ c \in {"halt", "resume"} /\ S \in SUBSET Scopes
      BY <1>19, <3>0, NextNameType, RunControlAssumption DEF Change, Unused
    <3>3. Ledger!Next
      BY <3>1, <3>2, ChangeLedger DEF Ledger!Next
    <3>4. ChangeEntry(r, c, S) \in Entries /\ ChangeEntry(r, c, S).kind = c
      BY <3>2, ChangeEntryType
    <3>5. Totals'
      BY <3>1, <3>2, <3>4, TotalsKept DEF LedgerInv
    <3>6. pc'[p] = "idle" /\ \A q \in Proc \ {p} : pc'[q] = pc[q]
      BY <3>1 DEF Release, Goto
    <3>7. Stands(p)'
      BY <3>6 DEF Stands
    <3>8. pc[p] # "idle"
      BY <1>19 DEF Change
    <3> QED
      BY <3>3, <3>5, <3>6, <3>7, <3>8, LedgerMoves
  <2> QED
    BY <2>1, <2>2
<1>20. ASSUME NEW p \in Proc, Reconcile(p) PROVE Goal
  <2>1. pc[p] = "finding" /\ Release(p)
    BY <1>20 DEF Reconcile
  <2>2. CASE UNCHANGED record
    BY <1>2, <2>1, <2>2
  <2>3. ASSUME NEW a \in Live, NEW w \in Findings, Append1(Entry("reconciled", a, w))
        PROVE  Goal
    <3>1. PICK e : e = Entry("reconciled", a, w)
      OBVIOUS
    <3>2. "reconciled" \in Kinds /\ w \in Words /\ a \in Attempts \cup {NoAttempt}
      BY WordTypes, FoldTypes
    <3>3. e \in Entries /\ e.kind = "reconciled" /\ e.att = a /\ Append1(e)
      BY <2>3, <3>1, <3>2, EntryType
    <3>4. CASE ~ Ends(e)
      BY <1>2, <2>1, <3>3, <3>4
    <3>5. CASE Ends(e)
      <4>1. Ledger!Next
        BY <3>3, <3>5, EndLedger
      <4>2. Totals'
        BY <3>3, TotalsKept DEF LedgerInv
      <4>3. pc'[p] = "idle" /\ \A q \in Proc \ {p} : pc'[q] = pc[q]
        BY <2>1 DEF Release, Goto
      <4>4. Stands(p)'
        BY <4>3 DEF Stands
      <4> QED
        BY <2>1, <4>1, <4>2, <4>3, <4>4, LedgerMoves
    <3> QED
      BY <3>4, <3>5
  <2> QED
    BY <1>20, <2>2, <2>3 DEF Reconcile
<1>21. ASSUME NEW p \in Proc, Crash(p) PROVE Goal
  BY <1>2, <1>21 DEF Crash
<1>22. ASSUME UNCHANGED <<record, local>> PROVE Goal
  <2>1. UNCHANGED <<Live, Ended, Halted, Asked, Confirmed, Concluded, Intents>>
    BY <1>22, PlainLedger
  <2>2. Totals' /\ Count("preparing")' = Count("preparing")
    BY <1>22, TotalsKept DEF LedgerInv
  <2>3. UNCHANGED <<pc, said, att>>
    BY <1>22 DEF local
  <2>4. ASSUME NEW p \in Proc PROVE Stands(p)'
    <3>1. Stands(p)
      BY DEF LedgerInv
    <3> QED
      BY <2>1, <2>2, <2>3, <3>1 DEF Stands, OfRun
  <2> QED
    BY <2>1, <2>2, <2>4 DEF LedgerInv, Ledger!vars
<1>23. ASSUME NEW c \in Changes, NEW S \in ScopeSets, Ask(c, S) PROVE Goal
  BY <1>22, <1>23 DEF Ask
<1>24. ASSUME NEW r \in Requests, Publish(r) PROVE Goal
  BY <1>22, <1>24 DEF Publish
<1>25. CASE UNCHANGED vars
  BY <1>22, <1>25 DEF vars
<1> QED
  BY <1>4, <1>6, <1>7, <1>8, <1>9, <1>10, <1>11, <1>12, <1>13, <1>14, <1>15, <1>16,
     <1>17, <1>18, <1>19, <1>20, <1>21, <1>23, <1>24, <1>25 DEF Next, Step

LEMMA LedgerInit == Init => LedgerInv /\ Ledger!Init
<1> SUFFICES ASSUME Init PROVE LedgerInv /\ Ledger!Init
  OBVIOUS
<1>1. DOMAIN record = {} /\ \A p \in Proc : pc[p] = "idle"
  BY DEF Init
<1>2. /\ Intents = {} /\ Concluded = {} /\ Live = {} /\ Halted = {} /\ Asked = {}
      /\ Confirmed = {} /\ Positions("preparing") = {}
  BY <1>1 DEF Intents, Concluded, Live, Halted, Asked, Confirmed, Positions
<1>3. Ended = << >>
  BY <1>2 DEF Ended
<1>4. Count("preparing") = 0 /\ \A run : Cardinality(OfRun(run)) = 0
  <2>1. \A run : OfRun(run) = {}
    BY <1>2 DEF OfRun
  <2> QED
    BY <1>2, <2>1, FS_EmptySet DEF Count
<1>5. LedgerInv
  BY <1>1, <1>2, <1>4, RunControlAssumption DEF LedgerInv, Totals, Stands
<1> QED
  BY <1>2, <1>3, <1>5 DEF Ledger!Init

\* Processes, queue, lock and kills implement the ledger of attempts: one live
\* attempt, ended once, started while run-admission is not halted, asked to stop
\* while it is live and confirmed to have stopped only if it ended cancelled.
THEOREM RecordImplementsLedger == Spec => ImplementsAttemptLedger
<1>1. IInv /\ QueueInv /\ IInv' /\ LedgerInv /\ [Next]_vars =>
        LedgerInv' /\ [Ledger!Next]_(Ledger!vars)
  BY LedgerStep
<1> QED
  BY <1>1, LedgerInit, QueueInvariance, PTL DEF Spec, ImplementsAttemptLedger, Ledger!Spec
===============================================================================
