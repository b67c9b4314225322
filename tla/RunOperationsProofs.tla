------------------------- MODULE RunOperationsProofs -------------------------
(***************************************************************************)
(* Theorems about typed operations and controller leases, for any sets of  *)
(* runs, controllers and keys and any bounds.                              *)
(***************************************************************************)
EXTENDS RunOperations, FiniteSetTheorems, WellFoundedInduction, TLAPS

(* ---------------------------------------------------------------------- *)
(* Types.                                                                  *)

Places == {"free", "draining", "own", "applying", "accepted", "acquiring",
           "applied", "run", "supervising", "deciding", "ended", "confirming",
           "completing", "reconcile"}

Words == {"none", "stop-requested", "not-launched", "launched", "expired",
          "released", "broken", "completed", "interrupted", "cancelled",
          "refused"}

Entries ==
  [kind : Kinds, run : Runs, n : Nat, op : Operations \cup Acts \cup {"none"},
   key : Keys \cup {Nothing}, name : Names \cup {Nothing},
   pid : Pids \cup {Nothing}, lease : Nat, ver : Nat, word : Words,
   req : Requests \cup {0}]

Asks ==
  [what : Operations \cup Acts \cup {"garbled", "none"}, run : Runs \cup {NoRun},
   name : Names \cup {Nothing}, pid : Pids \cup {Nothing}, lease : Nat,
   key : Keys \cup {Nothing}, ver : Nat]

TypeOK ==
  /\ record \in Seq(Entries)
  /\ ask \in [Requests -> Asks]
  /\ stage \in [Requests -> {"none", "queued", "gone"}]
  /\ pc \in Places
  /\ verb \in {"none", "op", "lease", "run", "reconcile"}
  /\ batch \subseteq Requests
  /\ cur \in Asks
  /\ from \in Requests \cup {0}
  /\ retry \in Asks
  /\ sup \in Nat
  /\ run \in Runs \cup {NoRun}
  /\ said \in {"none", "completed", "interrupted", "cancelled"}

\* A request that reads names a run and a controller, an operation its key and
\* an acquisition its process.
Reads(q) ==
  /\ q \in Asks
  /\ q.what \in Operations \cup Acts
  /\ q.run \in Runs
  /\ q.name \in Names
  /\ q.what \in Operations => q.key \in Keys
  /\ q.what = "acquire" => q.pid \in Pids

\* A nonempty set of requests has an oldest one.
LEMMA OldestLeast ==
  ASSUME NEW S \in SUBSET Requests, S # {}
  PROVE  Oldest(S) \in S /\ \A f \in S : Oldest(S) <= f
<1>1. S \subseteq Nat
  BY RunOperationsAssumption DEF Requests
<1>2. PICK x \in S : \A y \in S : ~ (<<y, x>> \in OpToRel(<, Nat))
  BY <1>1, NatLessThanWellFounded, WFMin
<1>3. \A y \in S : <<y, x>> \in Nat \X Nat
  BY <1>1
<1>4. \A y \in S : y < x => <<y, x>> \in OpToRel(<, Nat)
  BY <1>3 DEF OpToRel
<1>5. \A y \in S : ~ (y < x)
  BY <1>2, <1>4, Zenon
<1>6. \A y \in S : x <= y
  BY <1>1, <1>5
<1> QED
  BY <1>6 DEF Oldest

\* A nonempty set of the record's positions has a last one.
LEMMA LastOne ==
  ASSUME TypeOK, NEW S \in SUBSET DOMAIN record, S # {}
  PROVE  \E m \in S : \A i \in S : i <= m
<1> DEFINE d(i) == Len(record) - i
           D == {d(i) : i \in S}
<1>1. Len(record) \in Nat /\ DOMAIN record = 1 .. Len(record)
  BY DEF TypeOK
<1>2. D \in SUBSET Nat /\ D # {}
  BY <1>1
<1>3. PICK x \in D : \A y \in D : ~ (<<y, x>> \in OpToRel(<, Nat))
  BY <1>2, NatLessThanWellFounded, WFMin
<1>4. \A y \in D : <<y, x>> \in Nat \X Nat
  BY <1>2
<1>5. \A y \in D : y < x => <<y, x>> \in OpToRel(<, Nat)
  BY <1>4 DEF OpToRel
<1>6. \A y \in D : ~ (y < x)
  BY <1>3, <1>5, Zenon
<1>7. PICK m \in S : x = d(m)
  BY <1>3
<1>8. \A i \in S : ~ (d(i) < d(m))
  BY <1>6, <1>7
<1>9. \A i \in S : i <= m
  BY <1>1, <1>8
<1> QED
  BY <1>9

(* ---------------------------------------------------------------------- *)
(* What one more entry changes.                                            *)

LEMMA Recorded ==
  ASSUME NEW r, NEW k, NEW i \in About(r, k)
  PROVE  /\ i \in DOMAIN record
         /\ record[i].run = r
         /\ record[i].kind = k
BY DEF About

LEMMA AboutFinite ==
  ASSUME TypeOK, NEW r, NEW k
  PROVE  /\ IsFiniteSet(About(r, k))
         /\ Cardinality(About(r, k)) \in Nat
<1>1. Len(record) \in Nat /\ DOMAIN record = 1 .. Len(record)
  BY DEF TypeOK
<1>2. IsFiniteSet(DOMAIN record)
  BY <1>1, FS_Interval
<1>3. About(r, k) \in SUBSET DOMAIN record
  BY DEF About
<1>4. IsFiniteSet(About(r, k))
  BY <1>2, <1>3, FS_Subset
<1> QED
  BY <1>4, FS_CardinalityType

LEMMA VersionType ==
  ASSUME TypeOK, NEW r
  PROVE  Version(r) \in Nat
<1>1. Len(record) \in Nat /\ DOMAIN record = 1 .. Len(record)
  BY DEF TypeOK
<1>2. IsFiniteSet(DOMAIN record)
  BY <1>1, FS_Interval
<1>3. {i \in DOMAIN record : record[i].run = r} \in SUBSET DOMAIN record
  OBVIOUS
<1>4. IsFiniteSet({i \in DOMAIN record : record[i].run = r})
  BY <1>2, <1>3, FS_Subset
<1> QED
  BY <1>4, FS_CardinalityType DEF Version

LEMMA EntryAt ==
  ASSUME TypeOK, NEW i \in DOMAIN record
  PROVE  record[i] \in Entries
BY DEF TypeOK

LEMMA LatestType ==
  ASSUME TypeOK, NEW r
  PROVE  LatestAttempt(r) \in Nat
BY AboutFinite DEF LatestAttempt

\* The record has one entry more, e, at its end n.
Grown(e, n) ==
  /\ n \in Nat
  /\ n \notin DOMAIN record
  /\ DOMAIN record' = DOMAIN record \cup {n}
  /\ record'[n] = e
  /\ \A i \in DOMAIN record : i \in Nat /\ i < n /\ record'[i] = record[i]

LEMMA Appending ==
  ASSUME TypeOK, NEW e \in Entries, Add(e)
  PROVE  /\ record' \in Seq(Entries)
         /\ \E n \in Nat : Grown(e, n)
<1> DEFINE n == Len(record) + 1
<1>1. Len(record) \in Nat /\ DOMAIN record = 1 .. Len(record)
  BY DEF TypeOK
<1>2. record' \in Seq(Entries) /\ Len(record') = n /\ record'[n] = e
  BY <1>1 DEF TypeOK, Add
<1>3. DOMAIN record' = 1 .. n
  BY <1>2
<1>4. \A i \in DOMAIN record : i \in Nat /\ i < n /\ record'[i] = record[i]
  BY <1>1 DEF TypeOK, Add
<1>5. n \in Nat /\ n \notin DOMAIN record
  BY <1>1
<1>6. DOMAIN record' = DOMAIN record \cup {n}
  BY <1>1, <1>3
<1>7. Grown(e, n)
  BY <1>2, <1>4, <1>5, <1>6 DEF Grown
<1> QED
  BY <1>2, <1>5, <1>7

LEMMA AboutAfter ==
  ASSUME NEW e, NEW n, Grown(e, n), NEW r, NEW k
  PROVE  /\ e.run = r /\ e.kind = k => About(r, k)' = About(r, k) \cup {n}
         /\ e.run # r \/ e.kind # k => About(r, k)' = About(r, k)
BY DEF Grown, About

LEMMA AboutStays ==
  ASSUME NEW e, NEW n, Grown(e, n), NEW r, NEW k
  PROVE  \A i \in About(r, k) :
           /\ i \in About(r, k)'
           /\ record'[i] = record[i]
           /\ i \in Nat
           /\ i < n
BY DEF Grown, About

(* ---------------------------------------------------------------------- *)
(* The record: attempts.                                                   *)

\* A run's attempts are numbered from one without a gap, and an outcome follows
\* the intent it ends.
Numbered ==
  \A r \in Runs :
    /\ \A i \in About(r, "intent") : record[i].n \in 1 .. LatestAttempt(r)
    /\ \A i, j \in About(r, "intent") : record[i].n = record[j].n => i = j
    /\ \A m \in 1 .. LatestAttempt(r) : \E i \in About(r, "intent") : record[i].n = m
    /\ \A j \in About(r, "outcome") :
         \E i \in About(r, "intent") : i < j /\ record[i].n = record[j].n

\* An entry of another kind leaves the attempts as they were.
LEMMA NumberedKept ==
  ASSUME Numbered, NEW e, NEW n, Grown(e, n), e.kind \notin {"intent", "outcome"}
  PROVE  Numbered'
<1>1. \A r : About(r, "intent")' = About(r, "intent")
  BY AboutAfter
<1>2. \A r : About(r, "outcome")' = About(r, "outcome")
  BY AboutAfter
<1>3. \A r : LatestAttempt(r)' = LatestAttempt(r)
  BY <1>1 DEF LatestAttempt
<1>4. \A r : \A i \in About(r, "intent") : record'[i] = record[i]
  BY AboutStays
<1>5. \A r : \A i \in About(r, "outcome") : record'[i] = record[i]
  BY AboutStays
<1> QED
  BY <1>1, <1>2, <1>3, <1>4, <1>5 DEF Numbered

\* An intent takes the next number of its run.
LEMMA NumberedIntent ==
  ASSUME TypeOK, Numbered, NEW e, NEW n, Grown(e, n), e.kind = "intent",
         e.n = LatestAttempt(e.run) + 1
  PROVE  Numbered'
<1> SUFFICES ASSUME NEW r \in Runs
             PROVE  /\ \A i \in About(r, "intent")' : record'[i].n \in 1 .. LatestAttempt(r)'
                    /\ \A i, j \in About(r, "intent")' :
                         record'[i].n = record'[j].n => i = j
                    /\ \A m \in 1 .. LatestAttempt(r)' :
                         \E i \in About(r, "intent")' : record'[i].n = m
                    /\ \A j \in About(r, "outcome")' :
                         \E i \in About(r, "intent")' : i < j /\ record'[i].n = record'[j].n
  BY DEF Numbered
<1>1. About(r, "outcome")' = About(r, "outcome")
  BY AboutAfter
<1>2. \A i \in About(r, "intent") \cup About(r, "outcome") : record'[i] = record[i]
  BY AboutStays
<1>3. LatestAttempt(r) \in Nat
  BY LatestType
<1>4. CASE e.run # r
  <2>1. About(r, "intent")' = About(r, "intent")
    BY <1>4, AboutAfter
  <2>2. LatestAttempt(r)' = LatestAttempt(r)
    BY <2>1 DEF LatestAttempt
  <2> QED
    BY <1>1, <1>2, <2>1, <2>2 DEF Numbered
<1>5. CASE e.run = r
  <2>1. About(r, "intent")' = About(r, "intent") \cup {n}
    BY <1>5, AboutAfter
  <2>2. n \notin About(r, "intent") /\ record'[n] = e
    BY DEF Grown, About
  <2>3. LatestAttempt(r)' = LatestAttempt(r) + 1
    BY <2>1, <2>2, AboutFinite, FS_AddElement DEF LatestAttempt
  <2>4. record'[n].n = LatestAttempt(r) + 1
    BY <1>5, <2>2
  <2>5. \A i \in About(r, "intent") : record'[i].n \in 1 .. LatestAttempt(r)
    BY <1>2 DEF Numbered
  <2>6. \A i \in About(r, "intent")' : record'[i].n \in 1 .. LatestAttempt(r)'
    BY <1>3, <2>1, <2>3, <2>4, <2>5
  <2>7. \A i, j \in About(r, "intent")' : record'[i].n = record'[j].n => i = j
    BY <1>2, <1>3, <2>1, <2>4, <2>5 DEF Numbered
  <2>8. ASSUME NEW m \in 1 .. LatestAttempt(r)'
        PROVE  \E i \in About(r, "intent")' : record'[i].n = m
    <3>1. m \in 1 .. LatestAttempt(r) \/ m = LatestAttempt(r) + 1
      BY <1>3, <2>3
    <3> QED
      BY <1>2, <2>1, <2>4, <3>1 DEF Numbered
  <2>9. \A j \in About(r, "outcome")' :
          \E i \in About(r, "intent")' : i < j /\ record'[i].n = record'[j].n
    BY <1>1, <1>2, <2>1 DEF Numbered
  <2> QED
    BY <2>6, <2>7, <2>8, <2>9
<1> QED
  BY <1>4, <1>5

\* An outcome ends an attempt that began.
LEMMA NumberedOutcome ==
  ASSUME Numbered, NEW e, NEW n, Grown(e, n), e.kind = "outcome",
         \E i \in About(e.run, "intent") : record[i].n = e.n
  PROVE  Numbered'
<1>1. \A r : About(r, "intent")' = About(r, "intent")
  BY AboutAfter
<1>2. \A r : LatestAttempt(r)' = LatestAttempt(r)
  BY <1>1 DEF LatestAttempt
<1>3. \A r : \A i \in About(r, "intent") : record'[i] = record[i] /\ i < n
  BY AboutStays
<1>4. \A r : \A i \in About(r, "outcome") : record'[i] = record[i]
  BY AboutStays
<1>5. ASSUME NEW r \in Runs, NEW j \in About(r, "outcome")'
      PROVE  \E i \in About(r, "intent") : i < j /\ record[i].n = record'[j].n
  <2>1. CASE j \in About(r, "outcome")
    BY <1>4, <2>1 DEF Numbered
  <2>2. CASE j \notin About(r, "outcome")
    <3>1. e.run = r /\ j = n
      BY <2>2, AboutAfter
    <3>2. record'[j] = e
      BY <3>1 DEF Grown
    <3> QED
      BY <1>3, <3>1, <3>2
  <2> QED
    BY <2>1, <2>2
<1> QED
  BY <1>1, <1>2, <1>3, <1>5 DEF Numbered

\* An attempt that is not live has its outcome.
LEMMA LiveHasIntent ==
  ASSUME Numbered, NEW r \in Runs
  PROVE  /\ \A m \in Live(r) : \E i \in About(r, "intent") : record[i].n = m
         /\ Live(r) = {} => \A i \in About(r, "intent") :
              \E j \in About(r, "outcome") : record[j].n = record[i].n
BY DEF Numbered, Live

(* ---------------------------------------------------------------------- *)
(* The record: leases.                                                     *)

\* A lease names its holder, and what ended was acquired before.
LeasesTaken ==
  \A r \in Runs :
    /\ \A i \in About(r, "acquired") : record[i].name \in Names /\ record[i].pid \in Pids
    /\ \A k \in About(r, "ended") :
         record[k].lease \in About(r, "acquired") /\ record[k].lease < k

HandedOver(r) ==
  \A i, j \in About(r, "acquired") : i < j =>
    \E k \in About(r, "ended") : i < k /\ k < j /\ record[k].lease = i

ExpiresIdle(r) ==
  \A k \in About(r, "ended") : record[k].word = "expired" =>
    \A i \in About(r, "intent") : i < k =>
      \E j \in About(r, "outcome") : i < j /\ j < k /\ record[j].n = record[i].n

LEMMA LeasesKept ==
  ASSUME LeasesTaken, LeaseHandover, NEW e, NEW n, Grown(e, n),
         e.kind \notin {"acquired", "ended"}
  PROVE  LeasesTaken' /\ LeaseHandover'
<1>1. \A r : About(r, "acquired")' = About(r, "acquired")
  BY AboutAfter
<1>2. \A r : About(r, "ended")' = About(r, "ended")
  BY AboutAfter
<1>3. \A r : \A i \in About(r, "acquired") : record'[i] = record[i]
  BY AboutStays
<1>4. \A r : \A i \in About(r, "ended") : record'[i] = record[i] /\ i \in Nat /\ i < n
  BY AboutStays
<1>5. LeasesTaken'
  BY <1>1, <1>2, <1>3, <1>4 DEF LeasesTaken
<1>6. \A r : HandedOver(r) => HandedOver(r)'
  BY <1>1, <1>2, <1>4 DEF HandedOver
<1>7. ASSUME NEW r, ExpiresIdle(r), NEW k \in About(r, "ended"),
             record[k].word = "expired",
             NEW i \in About(r, "intent")', i < k
      PROVE  \E j \in About(r, "outcome")' : i < j /\ j < k /\ record'[j].n = record'[i].n
  <2>1. i \in About(r, "intent")
    <3>1. i # n
      BY <1>4, <1>7 DEF Grown
    <3> QED
      BY <3>1, AboutAfter
  <2>2. PICK j \in About(r, "outcome") : i < j /\ j < k /\ record[j].n = record[i].n
    BY <1>7, <2>1 DEF ExpiresIdle
  <2> QED
    BY <2>1, <2>2, AboutStays
<1>8. \A r : ExpiresIdle(r) => ExpiresIdle(r)'
  BY <1>2, <1>4, <1>7 DEF ExpiresIdle
<1> QED
  BY <1>5, <1>6, <1>8 DEF LeaseHandover, HandedOver, ExpiresIdle

\* With no lease in force, every lease of the run was ended.
LEMMA AllEnded ==
  ASSUME TypeOK, LeaseHandover, LeasesTaken, NEW r \in Runs, LeaseOf(r) = {},
         NEW i \in About(r, "acquired")
  PROVE  \E k \in About(r, "ended") : i < k /\ record[k].lease = i
<1>1. About(r, "acquired") \in SUBSET DOMAIN record /\ About(r, "acquired") # {}
  BY DEF About
<1>2. PICK m \in About(r, "acquired") : \A j \in About(r, "acquired") : j <= m
  BY <1>1, LastOne
<1>3. PICK k \in About(r, "ended") : record[k].lease = m
  BY <1>2 DEF LeaseOf
<1>4. m < k
  BY <1>3 DEF LeasesTaken
<1>5. i \in Nat /\ m \in Nat /\ i <= m
  <2>1. Len(record) \in Nat /\ DOMAIN record = 1 .. Len(record)
    BY DEF TypeOK
  <2> QED
    BY <1>1, <1>2, <2>1
<1>6. CASE i = m
  BY <1>3, <1>4, <1>6
<1>7. CASE i < m
  BY <1>2, <1>7 DEF LeaseHandover
<1> QED
  BY <1>5, <1>6, <1>7

\* A lease is taken where none is in force.
LEMMA LeasesAcquired ==
  ASSUME TypeOK, LeasesTaken, LeaseHandover, NEW e, NEW n, Grown(e, n),
         e.kind = "acquired", e.run \in Runs, LeaseOf(e.run) = {},
         e.name \in Names, e.pid \in Pids
  PROVE  LeasesTaken' /\ LeaseHandover'
<1>1. \A r : About(r, "ended")' = About(r, "ended")
  BY AboutAfter
<1>2. \A r : About(r, "intent")' = About(r, "intent") /\ About(r, "outcome")' = About(r, "outcome")
  BY AboutAfter
<1>3. \A r, k : \A i \in About(r, k) : record'[i] = record[i] /\ i \in Nat /\ i < n
  BY AboutStays
<1>4. \A r : \A i \in About(r, "acquired")' :
        i \in About(r, "acquired") \/ (e.run = r /\ i = n /\ record'[i] = e)
  BY AboutAfter DEF Grown
<1>5. \A r : \A i \in About(r, "acquired") : i \in About(r, "acquired")'
  BY AboutStays
<1>6. LeasesTaken'
  BY <1>1, <1>3, <1>4, <1>5 DEF LeasesTaken
<1>7. ASSUME NEW r \in Runs, NEW i \in About(r, "acquired")',
             NEW j \in About(r, "acquired")', i < j
      PROVE  \E k \in About(r, "ended") : i < k /\ k < j /\ record[k].lease = i
  <2>1. CASE j \in About(r, "acquired")
    <3>1. i # n
      BY <1>3, <1>7, <2>1 DEF Grown
    <3>2. i \in About(r, "acquired")
      BY <1>4, <3>1
    <3> QED
      BY <1>7, <2>1, <3>2 DEF LeaseHandover
  <2>2. CASE e.run = r /\ j = n
    <3>1. i \in About(r, "acquired")
      <4>1. i # n
        BY <1>7, <2>2 DEF Grown
      <4> QED
        BY <1>4, <4>1
    <3>2. PICK k \in About(r, "ended") : i < k /\ record[k].lease = i
      BY <2>2, <3>1, AllEnded
    <3> QED
      BY <1>3, <2>2, <3>2
  <2> QED
    BY <1>4, <2>1, <2>2
<1>8. \A r \in Runs : HandedOver(r)'
  BY <1>1, <1>3, <1>7 DEF HandedOver
<1>9. \A r \in Runs : ExpiresIdle(r)'
  <2>1. \A r \in Runs : ExpiresIdle(r)
    BY DEF ExpiresIdle, LeaseHandover
  <2>2. \A r : \A i \in About(r, "ended") : record'[i] = record[i]
    BY <1>3
  <2>3. \A r : \A i \in About(r, "intent") : record'[i] = record[i]
    BY <1>3
  <2>4. \A r : \A i \in About(r, "outcome") : record'[i] = record[i]
    BY <1>3
  <2> QED
    BY <1>1, <1>2, <2>1, <2>2, <2>3, <2>4 DEF ExpiresIdle
<1> QED
  BY <1>6, <1>8, <1>9 DEF LeaseHandover, HandedOver, ExpiresIdle

\* The lease in force ends; it expires only with every attempt of its run ended.
LEMMA LeasesEnded ==
  ASSUME TypeOK, Numbered, LeasesTaken, LeaseHandover, NEW e, NEW n, Grown(e, n),
         e.kind = "ended", e.run \in Runs, e.lease \in LeaseOf(e.run),
         e.word = "expired" => Live(e.run) = {}
  PROVE  LeasesTaken' /\ LeaseHandover'
<1>1. \A r : About(r, "acquired")' = About(r, "acquired")
  BY AboutAfter
<1>2. \A r : About(r, "intent")' = About(r, "intent") /\ About(r, "outcome")' = About(r, "outcome")
  BY AboutAfter
<1>3. \A r, k : \A i \in About(r, k) : record'[i] = record[i] /\ i \in Nat /\ i < n
  BY AboutStays
<1>4. \A r : \A i \in About(r, "ended")' :
        i \in About(r, "ended") \/ (e.run = r /\ i = n /\ record'[i] = e)
  BY AboutAfter DEF Grown
<1>5. \A r : \A i \in About(r, "ended") : i \in About(r, "ended")'
  BY AboutStays
<1>6. e.lease \in About(e.run, "acquired") /\ e.lease < n
  BY <1>3 DEF LeaseOf
<1>7. LeasesTaken'
  BY <1>1, <1>3, <1>4, <1>6 DEF LeasesTaken
<1>8. \A r \in Runs : HandedOver(r)'
  BY <1>1, <1>3, <1>5 DEF HandedOver, LeaseHandover
<1>9. ASSUME NEW r \in Runs, NEW k \in About(r, "ended")', record'[k].word = "expired",
             NEW i \in About(r, "intent"), i < k
      PROVE  \E j \in About(r, "outcome") : i < j /\ j < k /\ record[j].n = record[i].n
  <2>1. CASE k \in About(r, "ended")
    BY <1>3, <1>9, <2>1 DEF LeaseHandover
  <2>2. CASE e.run = r /\ k = n /\ record'[k] = e
    <3>1. PICK j \in About(r, "outcome") : record[j].n = record[i].n
      BY <1>9, <2>2, LiveHasIntent
    <3>2. PICK l \in About(r, "intent") : l < j /\ record[l].n = record[j].n
      BY DEF Numbered
    <3>3. l = i
      BY <3>1, <3>2 DEF Numbered
    <3> QED
      BY <1>3, <2>2, <3>1, <3>2, <3>3
  <2> QED
    BY <1>4, <2>1, <2>2
<1>10. \A r \in Runs : ExpiresIdle(r)'
  <2>1. \A r : \A i \in About(r, "intent") : record'[i] = record[i]
    BY <1>3
  <2>2. \A r : \A i \in About(r, "outcome") : record'[i] = record[i]
    BY <1>3
  <2> QED
    BY <1>2, <1>9, <2>1, <2>2 DEF ExpiresIdle
<1> QED
  BY <1>7, <1>8, <1>10 DEF LeaseHandover, HandedOver, ExpiresIdle

(* ---------------------------------------------------------------------- *)
(* The record: keys.                                                       *)

\* The run has an entry of this kind under this key.
Has(kind, r, key) == \E i \in About(r, kind) : record[i].key = key

LEMMA HasAfter ==
  ASSUME NEW e, NEW n, Grown(e, n), NEW kind, NEW r, NEW key
  PROVE  Has(kind, r, key)' <=>
           Has(kind, r, key) \/ (e.kind = kind /\ e.run = r /\ e.key = key)
<1>1. \A i \in About(r, kind) : i \in About(r, kind)' /\ record'[i] = record[i]
  BY AboutStays
<1>2. \A i \in About(r, kind)' :
        i \in About(r, kind) \/ (e.run = r /\ e.kind = kind /\ record'[i] = e)
  BY AboutAfter DEF Grown
<1>3. e.run = r /\ e.kind = kind => n \in About(r, kind)' /\ record'[n] = e
  BY AboutAfter DEF Grown
<1> QED
  BY <1>1, <1>2, <1>3 DEF Has

\* What KeyDecidedOnce says, one run and key at a time.
OncePerKey(kind) ==
  \A r \in Runs : \A i, j \in About(r, kind) : record[i].key = record[j].key => i = j

KeysOrdered ==
  /\ \A kind \in {"accepted", "stale", "completed"} : OncePerKey(kind)
  /\ \A r \in Runs : \A i \in About(r, "accepted"), j \in About(r, "stale") :
       record[i].key # record[j].key
  /\ \A r \in Runs : \A j \in About(r, "completed") :
       \E k \in About(r, "accepted") : k < j /\ record[k].key = record[j].key

LEMMA KeysOrderedSuffices ==
  ASSUME TypeOK, KeysOrdered
  PROVE  KeyDecidedOnce
<1>1. \A i \in DOMAIN record : record[i].run \in Runs
  BY EntryAt DEF Entries
<1>2. \A i \in DOMAIN record : i \in About(record[i].run, record[i].kind)
  BY DEF About
<1> SUFFICES ASSUME NEW i \in DOMAIN record, NEW j \in DOMAIN record,
                    record[i].run = record[j].run, record[i].key = record[j].key,
                    record[j].kind \in {"accepted", "stale", "completed"}
             PROVE  /\ record[i].kind = record[j].kind => i = j
                    /\ ~ (record[i].kind = "accepted" /\ record[j].kind = "stale")
                    /\ record[j].kind = "completed" =>
                         \E k \in About(record[j].run, "accepted") :
                           k < j /\ record[k].key = record[j].key
  BY DEF KeyDecidedOnce
<1>3. record[i].kind = record[j].kind => i = j
  BY <1>1, <1>2 DEF KeysOrdered, OncePerKey
<1>4. ~ (record[i].kind = "accepted" /\ record[j].kind = "stale")
  BY <1>1, <1>2 DEF KeysOrdered
<1>5. record[j].kind = "completed" =>
        \E k \in About(record[j].run, "accepted") :
          k < j /\ record[k].key = record[j].key
  BY <1>1, <1>2 DEF KeysOrdered
<1> QED
  BY <1>3, <1>4, <1>5

LEMMA OnceKept ==
  ASSUME NEW e, NEW n, Grown(e, n), NEW kind, OncePerKey(kind),
         e.kind = kind => ~ Has(kind, e.run, e.key)
  PROVE  OncePerKey(kind)'
<1>1. \A r : \A i \in About(r, kind) : record'[i] = record[i]
  BY AboutStays
<1>2. \A r : \A i \in About(r, kind)' :
        i \in About(r, kind) \/ (e.run = r /\ e.kind = kind /\ i = n /\ record'[i] = e)
  BY AboutAfter DEF Grown
<1> QED
  BY <1>1, <1>2 DEF OncePerKey, Has

\* One more entry keeps the keys decided once: a decision takes a key that no
\* other has, and an outcome follows the one intent it completes.
LEMMA KeysKept ==
  ASSUME KeysOrdered, NEW e, NEW n, Grown(e, n),
         e.kind \in {"accepted", "stale"} =>
           ~ Has("accepted", e.run, e.key) /\ ~ Has("stale", e.run, e.key),
         e.kind = "completed" =>
           Has("accepted", e.run, e.key) /\ ~ Has("completed", e.run, e.key)
  PROVE  KeysOrdered'
<1>1. \A kind \in {"accepted", "stale", "completed"} : OncePerKey(kind)'
  BY OnceKept DEF KeysOrdered
<1>2. \A r, kind : \A i \in About(r, kind) : record'[i] = record[i] /\ i < n
  BY AboutStays
<1>3. \A r, kind : \A i \in About(r, kind)' :
        i \in About(r, kind) \/ (e.run = r /\ e.kind = kind /\ i = n /\ record'[i] = e)
  BY AboutAfter DEF Grown
<1>4. ASSUME NEW r \in Runs, NEW i \in About(r, "accepted")', NEW j \in About(r, "stale")'
      PROVE  record'[i].key # record'[j].key
  <2>1. \/ i \in About(r, "accepted") /\ record'[i] = record[i]
        \/ e.run = r /\ e.kind = "accepted" /\ record'[i] = e
    BY <1>2, <1>3
  <2>2. \/ j \in About(r, "stale") /\ record'[j] = record[j]
        \/ e.run = r /\ e.kind = "stale" /\ record'[j] = e
    BY <1>2, <1>3
  <2> QED
    BY <2>1, <2>2 DEF KeysOrdered, Has
<1>5. ASSUME NEW r \in Runs, NEW j \in About(r, "completed")'
      PROVE  \E k \in About(r, "accepted")' : k < j /\ record'[k].key = record'[j].key
  <2>1. \A k \in About(r, "accepted") : k \in About(r, "accepted")' /\ record'[k] = record[k] /\ k < n
    BY AboutStays
  <2>2. \/ j \in About(r, "completed") /\ record'[j] = record[j]
        \/ e.run = r /\ e.kind = "completed" /\ j = n /\ record'[j] = e
    BY <1>2, <1>3
  <2> QED
    BY <2>1, <2>2 DEF KeysOrdered, Has
<1> QED
  BY <1>1, <1>4, <1>5 DEF KeysOrdered

LEMMA LaunchesKept ==
  ASSUME OneLaunchPerKey, NEW e, NEW n, Grown(e, n),
         e.kind = "intent" /\ e.key # Nothing =>
           /\ ~ Has("intent", e.run, e.key)
           /\ \E k \in About(e.run, "accepted") : record[k].key = e.key /\ record[k].op = "retry"
  PROVE  OneLaunchPerKey'
<1>1. \A r : \A i \in About(r, "intent")' :
        \/ i \in About(r, "intent") /\ record'[i] = record[i]
        \/ e.run = r /\ e.kind = "intent" /\ i = n /\ record'[i] = e
  BY AboutAfter, AboutStays DEF Grown
<1>2. \A r : \A k \in About(r, "accepted") :
        k \in About(r, "accepted")' /\ record'[k] = record[k] /\ k < n
  BY AboutStays
<1> SUFFICES ASSUME NEW r \in Runs, NEW i \in About(r, "intent")', record'[i].key # Nothing
             PROVE  /\ \A j \in About(r, "intent")' : record'[j].key = record'[i].key => i = j
                    /\ \E k \in About(r, "accepted")' :
                         k < i /\ record'[k].key = record'[i].key /\ record'[k].op = "retry"
  BY DEF OneLaunchPerKey
<1>3. \A j \in About(r, "intent")' : record'[j].key = record'[i].key => i = j
  BY <1>1 DEF OneLaunchPerKey, Has
<1>4. \E k \in About(r, "accepted") :
        k < i /\ record[k].key = record'[i].key /\ record[k].op = "retry"
  <2>1. CASE i \in About(r, "intent") /\ record'[i] = record[i]
    BY <2>1 DEF OneLaunchPerKey
  <2>2. CASE e.run = r /\ e.kind = "intent" /\ i = n /\ record'[i] = e
    BY <1>2, <2>2
  <2> QED
    BY <1>1, <2>1, <2>2
<1> QED
  BY <1>2, <1>3, <1>4

(* ---------------------------------------------------------------------- *)
(* The record: decisions and stops.                                        *)

LEMMA DecisionsKept ==
  ASSUME TypeOK, DecidedUnderLease, NEW e, NEW n, Grown(e, n),
         e.kind \in {"accepted", "stale"} =>
           /\ \E l \in LeaseOf(e.run) : l = e.lease /\ record[l].name = e.name
           /\ e.kind = "accepted" => e.ver = Version(e.run)
  PROVE  DecidedUnderLease'
<1> DEFINE Before(r, i) == {j \in DOMAIN record : j < i /\ record[j].run = r}
<1>1. \A r, k : \A i \in About(r, k) :
        i \in About(r, k)' /\ record'[i] = record[i] /\ i \in Nat /\ i < n
  BY AboutStays
<1>2. \A r, k : \A i \in About(r, k)' :
        i \in About(r, k) \/ (e.run = r /\ e.kind = k /\ i = n /\ record'[i] = e)
  BY AboutAfter DEF Grown
<1>3. n \in Nat
  BY DEF Grown
<1>4. ASSUME NEW r, NEW i \in DOMAIN record
      PROVE  Before(r, i)' = Before(r, i)
  BY <1>4 DEF Grown
<1>5. Before(e.run, n)' = {j \in DOMAIN record : record[j].run = e.run}
  BY DEF Grown
<1> SUFFICES ASSUME NEW r \in Runs, NEW i \in About(r, "accepted")' \cup About(r, "stale")'
             PROVE  LET l == record'[i].lease IN
                      /\ l \in About(r, "acquired")' /\ l < i
                      /\ record'[l].name = record'[i].name
                      /\ \A k \in About(r, "ended")' : k < i => record'[k].lease # l
                      /\ record'[i].kind = "accepted" =>
                           record'[i].ver = Cardinality(Before(r, i)')
  BY DEF DecidedUnderLease
<1>6. CASE i \in About(r, "accepted") \cup About(r, "stale")
  <2> DEFINE l == record[i].lease
  <2>1. record'[i] = record[i] /\ i \in DOMAIN record /\ i \in Nat /\ i < n
    BY <1>1, <1>6, Recorded
  <2>2. /\ l \in About(r, "acquired") /\ l < i
        /\ record[l].name = record[i].name
        /\ \A k \in About(r, "ended") : k < i => record[k].lease # l
        /\ record[i].kind = "accepted" => record[i].ver = Cardinality(Before(r, i))
    BY <1>6 DEF DecidedUnderLease
  <2>3. l \in About(r, "acquired")' /\ record'[l] = record[l]
    BY <1>1, <2>2
  <2>4. \A k \in About(r, "ended")' : k < i => k \in About(r, "ended") /\ record'[k] = record[k]
    BY <1>1, <1>2, <1>3, <2>1
  <2>5. Before(r, i)' = Before(r, i)
    BY <1>4, <2>1
  <2> QED
    BY <2>1, <2>2, <2>3, <2>4, <2>5
<1>7. CASE i \notin About(r, "accepted") \cup About(r, "stale")
  <2>1. e.run = r /\ e.kind \in {"accepted", "stale"} /\ i = n /\ record'[i] = e
    BY <1>2, <1>7
  <2>2. PICK l \in LeaseOf(r) : l = e.lease /\ record[l].name = e.name
    BY <2>1
  <2>3. l \in About(r, "acquired")' /\ record'[l] = record[l] /\ l < n
    BY <1>1, <2>2 DEF LeaseOf
  <2>4. \A k \in About(r, "ended")' : k \in About(r, "ended") /\ record'[k] = record[k]
    BY <1>1, <1>2, <2>1
  <2>5. \A k \in About(r, "ended") : record[k].lease # l
    BY <2>2 DEF LeaseOf
  <2>6. e.kind = "accepted" => e.ver = Cardinality(Before(r, n)')
    BY <1>5, <2>1 DEF Version
  <2> QED
    BY <2>1, <2>2, <2>3, <2>4, <2>5, <2>6
<1> QED
  BY <1>6, <1>7

LEMMA StopsKept ==
  ASSUME StopConfirmedAfterCancelled, NEW e, NEW n, Grown(e, n),
         e.kind = "stopped" =>
           /\ ~ Has("stopped", e.run, e.key)
           /\ \E i \in About(e.run, "completed"), j \in About(e.run, "outcome") :
                /\ i < j
                /\ record[i].key = e.key
                /\ record[j].n = e.n /\ record[j].word = "cancelled"
  PROVE  StopConfirmedAfterCancelled'
<1>1. \A r, k : \A i \in About(r, k) : i \in About(r, k)' /\ record'[i] = record[i] /\ i < n
  BY AboutStays
<1>2. \A r, k : \A i \in About(r, k)' :
        \/ i \in About(r, k) /\ record'[i] = record[i]
        \/ e.run = r /\ e.kind = k /\ i = n /\ record'[i] = e
  BY AboutAfter, AboutStays DEF Grown
<1> SUFFICES ASSUME NEW r \in Runs, NEW k \in About(r, "stopped")'
             PROVE  /\ \A s \in About(r, "stopped")' : record'[s].key = record'[k].key => s = k
                    /\ \E i \in About(r, "completed")', j \in About(r, "outcome")' :
                         /\ i < j /\ j < k
                         /\ record'[i].key = record'[k].key
                         /\ record'[j].n = record'[k].n /\ record'[j].word = "cancelled"
  BY DEF StopConfirmedAfterCancelled
<1>3. \A s \in About(r, "stopped")' : record'[s].key = record'[k].key => s = k
  BY <1>2 DEF StopConfirmedAfterCancelled, Has
<1>4. \E i \in About(r, "completed"), j \in About(r, "outcome") :
        /\ i < j /\ j < k
        /\ record[i].key = record'[k].key
        /\ record[j].n = record'[k].n /\ record[j].word = "cancelled"
  <2>1. CASE k \in About(r, "stopped") /\ record'[k] = record[k]
    BY <2>1 DEF StopConfirmedAfterCancelled
  <2>2. CASE e.run = r /\ e.kind = "stopped" /\ k = n /\ record'[k] = e
    <3>1. PICK i \in About(r, "completed"), j \in About(r, "outcome") :
                /\ i < j
                /\ record[i].key = e.key
                /\ record[j].n = e.n /\ record[j].word = "cancelled"
      BY <2>2
    <3>2. j < k
      BY <1>1, <2>2
    <3> QED
      BY <2>2, <3>1, <3>2
  <2> QED
    BY <1>2, <2>1, <2>2
<1> QED
  BY <1>1, <1>3, <1>4

(* ---------------------------------------------------------------------- *)
(* The record as a whole, and what may be appended to it.                  *)

RecordInv ==
  /\ Numbered
  /\ LeasesTaken
  /\ LeaseHandover
  /\ KeysOrdered
  /\ OneLaunchPerKey
  /\ DecidedUnderLease
  /\ StopConfirmedAfterCancelled

\* What the record must say for e to be appended.
Rightful(e) ==
  /\ e.kind = "intent" =>
       /\ e.n = LatestAttempt(e.run) + 1
       /\ e.key # Nothing =>
            /\ ~ Has("intent", e.run, e.key)
            /\ \E k \in About(e.run, "accepted") :
                 record[k].key = e.key /\ record[k].op = "retry"
  /\ e.kind = "outcome" => \E i \in About(e.run, "intent") : record[i].n = e.n
  /\ e.kind = "acquired" => LeaseOf(e.run) = {} /\ e.name \in Names /\ e.pid \in Pids
  /\ e.kind = "ended" =>
       e.lease \in LeaseOf(e.run) /\ (e.word = "expired" => Live(e.run) = {})
  /\ e.kind \in {"accepted", "stale"} =>
       /\ ~ Has("accepted", e.run, e.key)
       /\ ~ Has("stale", e.run, e.key)
       /\ \E l \in LeaseOf(e.run) : l = e.lease /\ record[l].name = e.name
       /\ e.kind = "accepted" => e.ver = Version(e.run)
  /\ e.kind = "completed" =>
       Has("accepted", e.run, e.key) /\ ~ Has("completed", e.run, e.key)
  /\ e.kind = "stopped" =>
       /\ ~ Has("stopped", e.run, e.key)
       /\ \E i \in About(e.run, "completed"), j \in About(e.run, "outcome") :
            /\ i < j
            /\ record[i].key = e.key
            /\ record[j].n = e.n /\ record[j].word = "cancelled"

LEMMA RecordGrows ==
  ASSUME TypeOK, RecordInv, NEW e \in Entries, NEW n, Grown(e, n), Rightful(e)
  PROVE  RecordInv'
<1>0. e.run \in Runs /\ e.kind \in Kinds
  BY DEF Entries
<1>1. Numbered'
  BY NumberedKept, NumberedIntent, NumberedOutcome DEF RecordInv, Rightful
<1>2. LeasesTaken' /\ LeaseHandover'
  <2>1. CASE e.kind = "acquired"
    BY <1>0, <2>1, LeasesAcquired DEF RecordInv, Rightful
  <2>2. CASE e.kind = "ended"
    BY <1>0, <2>2, LeasesEnded DEF RecordInv, Rightful
  <2>3. CASE e.kind \notin {"acquired", "ended"}
    BY <2>3, LeasesKept DEF RecordInv
  <2> QED
    BY <2>1, <2>2, <2>3
<1>3. KeysOrdered'
  BY KeysKept DEF RecordInv, Rightful
<1>4. OneLaunchPerKey'
  BY LaunchesKept DEF RecordInv, Rightful
<1>5. DecidedUnderLease'
  BY DecisionsKept DEF RecordInv, Rightful
<1>6. StopConfirmedAfterCancelled'
  BY StopsKept DEF RecordInv, Rightful
<1> QED
  BY <1>1, <1>2, <1>3, <1>4, <1>5, <1>6 DEF RecordInv

LEMMA RecordSame ==
  ASSUME RecordInv, UNCHANGED record
  PROVE  RecordInv'
<1>1. \A r, k : About(r, k)' = About(r, k)
  BY DEF About
<1>2. \A r : LatestAttempt(r)' = LatestAttempt(r)
  BY <1>1 DEF LatestAttempt
<1>3. Numbered'
  BY <1>1, <1>2 DEF RecordInv, Numbered
<1>4. LeasesTaken' /\ LeaseHandover'
  BY <1>1 DEF RecordInv, LeasesTaken, LeaseHandover
<1>5. KeysOrdered' /\ OneLaunchPerKey' /\ StopConfirmedAfterCancelled'
  BY <1>1 DEF RecordInv, KeysOrdered, OncePerKey, OneLaunchPerKey, StopConfirmedAfterCancelled
<1> DEFINE Before(r, i) == {j \in DOMAIN record : j < i /\ record[j].run = r}
<1>6. \A r, i : Before(r, i)' = Before(r, i)
  OBVIOUS
<1>7. ASSUME NEW r \in Runs, NEW i \in About(r, "accepted")' \cup About(r, "stale")'
      PROVE  LET l == record'[i].lease IN
               /\ l \in About(r, "acquired")' /\ l < i
               /\ record'[l].name = record'[i].name
               /\ \A k \in About(r, "ended")' : k < i => record'[k].lease # l
               /\ record'[i].kind = "accepted" => record'[i].ver = Cardinality(Before(r, i)')
  <2>1. LET l == record[i].lease IN
          /\ l \in About(r, "acquired") /\ l < i
          /\ record[l].name = record[i].name
          /\ \A k \in About(r, "ended") : k < i => record[k].lease # l
          /\ record[i].kind = "accepted" => record[i].ver = Cardinality(Before(r, i))
    BY <1>1, <1>7 DEF RecordInv, DecidedUnderLease
  <2> HIDE DEF Before
  <2> QED
    BY <1>1, <1>6, <2>1
<1>8. DecidedUnderLease'
  BY <1>7 DEF DecidedUnderLease
<1> QED
  BY <1>3, <1>4, <1>5, <1>8 DEF RecordInv

(* ---------------------------------------------------------------------- *)
(* What the holder of the lock knows where it stands.                      *)

Applying == {"applying", "accepted", "acquiring", "applied"}

\* What was queued and reads is an abort or an act of a lease.
Posted ==
  \A f \in Requests : stage[f] # "none" /\ ask[f].what # "garbled" =>
    Reads(ask[f]) /\ ask[f].what \in {"abort"} \cup Acts

Placed ==
  /\ pc \in {"free", "own"} => sup = 0 /\ retry = NoRequest /\ batch = {}
  /\ pc = "run" => sup = 0
  /\ pc \in {"supervising", "deciding", "ended", "confirming"} => sup # 0
  /\ pc = "completing" => retry # NoRequest
  /\ pc \in Applying \cup {"draining"} =>
       batch \subseteq Readable /\ (retry # NoRequest => sup # 0)
  /\ pc \in Applying /\ from = 0 => sup = 0 /\ batch = {}
  /\ from # 0 =>
       pc \in Applying /\ from \in batch /\ from = Oldest(batch) /\ cur = ask[from]
  /\ pc \in {"applying", "accepted", "acquiring"} => Reads(cur)
  /\ pc = "acquiring" => cur.what = "acquire"
  /\ pc = "accepted" => cur.what \in {"abort", "retry"}
  /\ retry # NoRequest => Reads(retry) /\ retry.what = "retry"

\* The run accepted this operation under this key.
Intended(r, key, op) ==
  \E i \in About(r, "accepted") : record[i].key = key /\ record[i].op = op

RetryKnown ==
  retry # NoRequest =>
    /\ Intended(retry.run, retry.key, "retry")
    /\ ~ Has("completed", retry.run, retry.key)

Supervised ==
  sup # 0 => run \in Runs /\ \E i \in About(run, "intent") : record[i].n = sup

Knows ==
  /\ pc = "accepted" =>
       /\ Intended(cur.run, cur.key, cur.what)
       /\ ~ Has("completed", cur.run, cur.key)
       /\ ~ Has("intent", cur.run, cur.key)
  /\ pc = "acquiring" => LeaseOf(cur.run) = {}
  /\ RetryKnown
  /\ retry # NoRequest /\ pc = "run" => ~ Has("intent", retry.run, retry.key)
  /\ Supervised
  /\ pc = "confirming" =>
       \E j \in About(run, "outcome") :
         /\ record[j].n = sup /\ record[j].word = "cancelled"
         /\ \A i \in About(run, "completed") : i < j

IInv == TypeOK /\ Posted /\ Placed /\ Knows /\ RecordInv

(* ---------------------------------------------------------------------- *)
(* Every step appends what it may.                                         *)

LEMMA OperandsType ==
  ASSUME TypeOK, NEW what \in Operations \cup Acts \cup {"garbled"}, NEW r \in Runs,
         NEW q \in Operands(what, r)
  PROVE  q \in Asks /\ q.what = what /\ (what # "garbled" => Reads(q))
<1>1. LeaseIds \subseteq Nat
  <2>1. Len(record) \in Nat /\ DOMAIN record = 1 .. Len(record)
    BY DEF TypeOK
  <2> QED
    BY <2>1 DEF LeaseIds, About
<1>2. Version(r) \in Nat
  BY VersionType
<1>3. CASE what \in Operations
  <2>1. q \in {Submission(what, r, c, l, k, v) :
                 c \in Names, l \in LeaseIds, k \in Keys, v \in Versions(r)}
    BY <1>3 DEF Operands
  <2>2. PICK c \in Names, l \in LeaseIds, k \in Keys, v \in Versions(r) :
          q = Submission(what, r, c, l, k, v)
    BY <2>1
  <2>3. /\ q.what = what /\ q.run = r /\ q.name = c /\ q.pid = Nothing
        /\ q.lease = l /\ q.key = k /\ q.ver = v
    BY <2>2 DEF Submission, NoRequest
  <2>4. l \in Nat /\ v \in Nat
    BY <1>1, <1>2 DEF Versions
  <2>5. q \in Asks
    BY <2>2, <2>4 DEF Submission, NoRequest, Asks
  <2> QED
    BY <1>3, <2>3, <2>5 DEF Reads, Operations
<1>4. CASE what \notin Operations
  <2> DEFINE P == IF what = "acquire" THEN Pids ELSE {Nothing}
             L == IF what = "release" THEN LeaseIds ELSE {0}
  <2>1. q \in {LeaseAct(what, r, c, p, l) : c \in Names, p \in P, l \in L}
    BY <1>4 DEF Operands
  <2>2. PICK c \in Names, p \in P, l \in L : q = LeaseAct(what, r, c, p, l)
    <3> HIDE DEF P, L
    <3> QED
      BY <2>1
  <2>3. /\ q.what = what /\ q.run = r /\ q.name = c /\ q.pid = p
        /\ q.lease = l /\ q.key = Nothing /\ q.ver = 0
    BY <2>2 DEF LeaseAct, NoRequest
  <2>4. l \in Nat /\ p \in Pids \cup {Nothing} /\ (what = "acquire" => p \in Pids)
    BY <1>1
  <2>5. q \in Asks
    BY <2>2, <2>4 DEF LeaseAct, NoRequest, Asks
  <2> QED
    BY <1>4, <2>3, <2>4, <2>5 DEF Reads
<1> QED
  BY <1>3, <1>4

\* An entry about the request in hand carries what that asked.
LEMMA EntryFields ==
  ASSUME TypeOK, Reads(cur), NEW k \in Kinds
  PROVE  /\ Entry(k) \in Entries
         /\ Entry(k).kind = k /\ Entry(k).run = cur.run /\ Entry(k).key = cur.key
         /\ Entry(k).op = cur.what /\ Entry(k).name = cur.name
         /\ Entry(k).ver = cur.ver /\ Entry(k).lease = cur.lease
         /\ Entry(k).req = from /\ Entry(k).word = "none"
<1>1. LatestAttempt(cur.run) \in Nat
  BY LatestType
<1>2. /\ Entry(k).kind = k /\ Entry(k).run = cur.run /\ Entry(k).key = cur.key
      /\ Entry(k).op = cur.what /\ Entry(k).name = cur.name
      /\ Entry(k).ver = cur.ver /\ Entry(k).lease = cur.lease
      /\ Entry(k).req = from /\ Entry(k).word = "none"
  BY DEF Entry, Blank
<1>3. Entry(k) \in Entries
  BY <1>1 DEF Entry, Blank, Entries, Reads, Asks, TypeOK, Words
<1> QED
  BY <1>2, <1>3

LEMMA EndingFields ==
  ASSUME TypeOK, Reads(cur), NEW l \in Nat, NEW w \in Words
  PROVE  /\ Ending(l, w) \in Entries
         /\ Ending(l, w).kind = "ended" /\ Ending(l, w).run = cur.run
         /\ Ending(l, w).lease = l /\ Ending(l, w).word = w /\ Ending(l, w).req = from
<1>1. /\ Ending(l, w).kind = "ended" /\ Ending(l, w).run = cur.run
      /\ Ending(l, w).lease = l /\ Ending(l, w).word = w /\ Ending(l, w).req = from
  BY DEF Ending, Entry, Blank
<1>2. Entry("ended") \in Entries
  BY EntryFields DEF Kinds
<1>3. Ending(l, w) \in Entries
  BY <1>2 DEF Ending, Entries
<1> QED
  BY <1>1, <1>3

TheStop     == [Entry("completed") EXCEPT !.word = "stop-requested"]
TheLease    == [Entry("acquired") EXCEPT !.pid = cur.pid, !.ver = Version(cur.run)]
TheLaunched == [Blank EXCEPT !.kind = "completed", !.run = retry.run, !.op = "retry",
                             !.key = retry.key, !.n = sup,
                             !.word = IF sup = 0 THEN "not-launched" ELSE "launched"]
TheIntent(r)     == [Blank EXCEPT !.kind = "intent", !.run = r,
                                  !.n = LatestAttempt(r) + 1, !.key = retry.key]
TheOutcome(r, m, w) == [Blank EXCEPT !.kind = "outcome", !.run = r, !.n = m, !.word = w]
TheStopped(k)    == [Blank EXCEPT !.kind = "stopped", !.run = run, !.n = sup, !.key = k]

LEMMA StopFields ==
  ASSUME TypeOK, Reads(cur)
  PROVE  /\ TheStop \in Entries /\ TheStop.kind = "completed" /\ TheStop.run = cur.run
         /\ TheStop.key = cur.key /\ TheStop.req = from
<1>1. LatestAttempt(cur.run) \in Nat
  BY LatestType
<1>2. /\ TheStop.kind = "completed" /\ TheStop.run = cur.run
      /\ TheStop.key = cur.key /\ TheStop.req = from
  BY DEF TheStop, Entry, Blank
<1>3. TheStop \in Entries
  BY <1>1 DEF TheStop, Entry, Blank, Entries, Reads, Asks, TypeOK, Words, Kinds
<1> QED
  BY <1>2, <1>3

LEMMA LeaseFields ==
  ASSUME TypeOK, Reads(cur), cur.what = "acquire"
  PROVE  /\ TheLease \in Entries /\ TheLease.kind = "acquired" /\ TheLease.run = cur.run
         /\ TheLease.name = cur.name /\ TheLease.pid = cur.pid /\ TheLease.req = from
<1>1. LatestAttempt(cur.run) \in Nat /\ Version(cur.run) \in Nat
  BY LatestType, VersionType
<1>2. /\ TheLease.kind = "acquired" /\ TheLease.run = cur.run
      /\ TheLease.name = cur.name /\ TheLease.pid = cur.pid /\ TheLease.req = from
  BY DEF TheLease, Entry, Blank
<1>3. TheLease \in Entries
  BY <1>1 DEF TheLease, Entry, Blank, Entries, Reads, Asks, TypeOK, Words, Kinds
<1> QED
  BY <1>2, <1>3

LEMMA LaunchedFields ==
  ASSUME TypeOK, Reads(retry), retry.what = "retry"
  PROVE  /\ TheLaunched \in Entries /\ TheLaunched.kind = "completed"
         /\ TheLaunched.run = retry.run /\ TheLaunched.key = retry.key
         /\ TheLaunched.req = 0
<1>1. /\ TheLaunched.kind = "completed"
      /\ TheLaunched.run = retry.run /\ TheLaunched.key = retry.key
      /\ TheLaunched.req = 0
  BY DEF TheLaunched, Blank
<1>2. TheLaunched \in Entries
  BY DEF TheLaunched, Blank, Entries, Reads, Asks, TypeOK, Words, Kinds, Operations
<1> QED
  BY <1>1, <1>2

AnIntent(r, m, k) == [Blank EXCEPT !.kind = "intent", !.run = r, !.n = m, !.key = k]

LEMMA IntentType ==
  ASSUME NEW r \in Runs, NEW m \in Nat, NEW k \in Keys \cup {Nothing}
  PROVE  AnIntent(r, m, k) \in Entries
BY DEF AnIntent, Blank, Entries, Words, Kinds

LEMMA IntentFields ==
  ASSUME TypeOK, NEW r \in Runs
  PROVE  /\ TheIntent(r) \in Entries /\ TheIntent(r).kind = "intent"
         /\ TheIntent(r).run = r /\ TheIntent(r).n = LatestAttempt(r) + 1
         /\ TheIntent(r).key = retry.key /\ TheIntent(r).req = 0
<1>1. LatestAttempt(r) \in Nat
  BY LatestType
<1>2. /\ TheIntent(r).kind = "intent"
      /\ TheIntent(r).run = r /\ TheIntent(r).n = LatestAttempt(r) + 1
      /\ TheIntent(r).key = retry.key /\ TheIntent(r).req = 0
  BY DEF TheIntent, Blank
<1>3. PICK m \in Nat, k \in Keys \cup {Nothing} : m = LatestAttempt(r) + 1 /\ k = retry.key
  BY <1>1 DEF TypeOK, Asks
<1>4. TheIntent(r) = AnIntent(r, m, k)
  BY <1>3 DEF TheIntent, AnIntent
<1>5. TheIntent(r) \in Entries
  BY <1>4, IntentType
<1> QED
  BY <1>2, <1>5

LEMMA OutcomeFields ==
  ASSUME NEW r \in Runs, NEW m \in Nat, NEW w \in Words
  PROVE  /\ TheOutcome(r, m, w) \in Entries /\ TheOutcome(r, m, w).kind = "outcome"
         /\ TheOutcome(r, m, w).run = r /\ TheOutcome(r, m, w).n = m
         /\ TheOutcome(r, m, w).word = w /\ TheOutcome(r, m, w).req = 0
         /\ TheOutcome(r, m, w).key = Nothing
BY DEF TheOutcome, Blank, Entries, Words, Kinds

LEMMA StoppedFields ==
  ASSUME TypeOK, run \in Runs, NEW k \in Keys \cup {Nothing}
  PROVE  /\ TheStopped(k) \in Entries /\ TheStopped(k).kind = "stopped"
         /\ TheStopped(k).run = run /\ TheStopped(k).n = sup
         /\ TheStopped(k).key = k /\ TheStopped(k).req = 0
BY DEF TheStopped, Blank, Entries, Words, Kinds, TypeOK

Grows ==
  \/ UNCHANGED record
  \/ \E e \in Entries : Add(e) /\ Rightful(e)

\* No step appends an entry that the record does not support.
LEMMA RightfulStep ==
  ASSUME IInv, Next
  PROVE  Grows
<1>0. TypeOK /\ Placed /\ Knows /\ RecordInv
  BY DEF IInv
<1>1. CASE RefuseStale
  <2>1. Reads(cur) /\ LeaseFits(cur) /\ ~ KeyHeld(cur) /\ Add(Entry("stale"))
    BY <1>0, <1>1 DEF RefuseStale, Placed
  <2>2. Entry("stale") \in Entries /\ Rightful(Entry("stale"))
    BY <1>0, <2>1, EntryFields DEF Rightful, Kinds, KeyHeld, Has, LeaseFits
  <2> QED
    BY <1>0, <2>1, <2>2 DEF Grows
<1>2. CASE Accept
  <2>1. /\ Reads(cur) /\ LeaseFits(cur) /\ ~ KeyHeld(cur) /\ cur.ver = Version(cur.run)
        /\ Add(Entry("accepted"))
    BY <1>0, <1>2 DEF Accept, Placed
  <2>2. Entry("accepted") \in Entries /\ Rightful(Entry("accepted"))
    BY <1>0, <2>1, EntryFields DEF Rightful, Kinds, KeyHeld, Has, LeaseFits
  <2> QED
    BY <1>0, <2>1, <2>2 DEF Grows
<1>3. CASE RequestStop
  <2>1. /\ Reads(cur)
        /\ Intended(cur.run, cur.key, cur.what)
        /\ ~ Has("completed", cur.run, cur.key)
    BY <1>0, <1>3 DEF RequestStop, Placed, Knows, RetryKnown, Supervised
  <2>2. Add(TheStop)
    BY <1>3 DEF RequestStop, TheStop
  <2>3. TheStop \in Entries /\ Rightful(TheStop)
    BY <1>0, <2>1, StopFields DEF Rightful, Intended, Has
  <2> QED
    BY <1>0, <2>2, <2>3 DEF Grows
<1>4. CASE CompleteRetry
  <2>1. /\ Reads(retry) /\ retry.what = "retry"
        /\ Intended(retry.run, retry.key, "retry")
        /\ ~ Has("completed", retry.run, retry.key)
    BY <1>0, <1>4 DEF CompleteRetry, Placed, Knows, RetryKnown, Supervised
  <2>2. Add(TheLaunched)
    BY <1>4 DEF CompleteRetry, TheLaunched
  <2>3. TheLaunched \in Entries /\ Rightful(TheLaunched)
    BY <1>0, <2>1, LaunchedFields DEF Rightful, Intended, Has
  <2> QED
    BY <1>0, <2>2, <2>3 DEF Grows
<1>5. ASSUME NEW w \in {"expired", "released", "broken"}, Reads(cur),
             w = "expired" => Live(cur.run) = {},
             NEW l \in LeaseOf(cur.run), Add(Ending(l, w))
      PROVE  Grows
  <2>1. l \in Nat
    <3>1. Len(record) \in Nat /\ DOMAIN record = 1 .. Len(record)
      BY <1>0 DEF TypeOK
    <3> QED
      BY <3>1 DEF LeaseOf, About
  <2>2. w \in Words
    BY DEF Words
  <2>3. Ending(l, w) \in Entries /\ Rightful(Ending(l, w))
    BY <1>0, <1>5, <2>1, <2>2, EndingFields DEF Rightful
  <2> QED
    BY <1>0, <1>5, <2>3 DEF Grows
<1>6. CASE Expire
  <2>1. Reads(cur) /\ Live(cur.run) = {}
    BY <1>0, <1>6 DEF Expire, Expirable, Placed
  <2>2. PICK l \in LeaseOf(cur.run) : Add(Ending(l, "expired"))
    BY <1>6 DEF Expire
  <2> QED
    BY <1>5, <2>1, <2>2
<1>7. CASE Acquire
  <2>1. Reads(cur) /\ cur.what = "acquire" /\ LeaseOf(cur.run) = {}
    BY <1>0, <1>7 DEF Acquire, Placed, Knows, RetryKnown, Supervised
  <2>2. Add(TheLease)
    BY <1>7 DEF Acquire, TheLease
  <2>3. cur.name \in Names /\ cur.pid \in Pids
    BY <2>1 DEF Reads
  <2>4. TheLease \in Entries /\ Rightful(TheLease)
    BY <1>0, <2>1, <2>3, LeaseFields DEF Rightful
  <2> QED
    BY <1>0, <2>2, <2>4 DEF Grows
<1>8. CASE UNCHANGED record
  BY <1>8 DEF Grows
<1>9. CASE ReleaseLease
  <2>1. Reads(cur)
    BY <1>0, <1>9 DEF ReleaseLease, Placed
  <2>2. CASE LeaseFits(cur)
    <3>1. cur.lease \in LeaseOf(cur.run) /\ Add(Ending(cur.lease, "released"))
      BY <1>9, <2>2 DEF ReleaseLease, LeaseFits
    <3> QED
      BY <1>5, <2>1, <3>1
  <2>3. CASE ~ LeaseFits(cur)
    BY <1>8, <1>9, <2>3 DEF ReleaseLease, Refuse
  <2> QED
    BY <2>2, <2>3
<1>10. CASE BreakLease
  <2>1. Reads(cur)
    BY <1>0, <1>10 DEF BreakLease, Placed
  <2>2. CASE LeaseOf(cur.run) # {} /\ ~ BreakRecorded
    <3>1. PICK l \in LeaseOf(cur.run) : Add(Ending(l, "broken"))
      BY <1>10, <2>2 DEF BreakLease
    <3> QED
      BY <1>5, <2>1, <3>1
  <2>3. CASE ~ (LeaseOf(cur.run) # {} /\ ~ BreakRecorded)
    BY <1>8, <1>10, <2>3 DEF BreakLease, Refuse
  <2> QED
    BY <2>2, <2>3
<1>11. CASE Launch
  <2>1. PICK r \in IF retry # NoRequest THEN {retry.run} ELSE Runs : Add(TheIntent(r))
    BY <1>11 DEF Launch, TheIntent
  <2>2. pc = "run"
    BY <1>11 DEF Launch
  <2>3. r \in Runs
    BY <1>0, <2>1 DEF Placed, Reads
  <2>4. retry.key # Nothing =>
          /\ ~ Has("intent", r, retry.key)
          /\ Intended(r, retry.key, "retry")
    <3>1. NoRequest.key = Nothing
      BY DEF NoRequest
    <3> QED
      BY <1>0, <2>1, <2>2, <3>1 DEF Knows, RetryKnown, Supervised
  <2>5. TheIntent(r) \in Entries /\ Rightful(TheIntent(r))
    BY <1>0, <2>3, <2>4, IntentFields DEF Rightful, Intended
  <2> QED
    BY <1>0, <2>1, <2>5 DEF Grows
<1>12. ASSUME NEW r \in Runs, NEW m \in Nat, NEW w \in Words, Add(TheOutcome(r, m, w)),
              \E i \in About(r, "intent") : record[i].n = m
       PROVE  Grows
  <2>1. TheOutcome(r, m, w) \in Entries /\ Rightful(TheOutcome(r, m, w))
    BY <1>12, OutcomeFields DEF Rightful
  <2> QED
    BY <1>0, <1>12, <2>1 DEF Grows
<1>13. CASE Conclude
  <2>1. PICK w \in {said, "refused", "interrupted"} : Add(TheOutcome(run, sup, w))
    BY <1>13 DEF Conclude, TheOutcome
  <2>2. w \in Words /\ sup \in Nat
    BY <1>0 DEF TypeOK, Words
  <2>3. run \in Runs /\ \E i \in About(run, "intent") : record[i].n = sup
    BY <1>0, <1>13 DEF Conclude, Placed, Knows, RetryKnown, Supervised
  <2> QED
    BY <1>12, <2>1, <2>2, <2>3
<1>14. CASE Reconcile
  <2>1. CASE UNCHANGED record
    BY <1>8, <2>1
  <2>2. CASE record' # record
    <3>0. PICK r \in Runs : \E m \in Live(r) : Add(TheOutcome(r, m, "interrupted"))
      BY <1>14, <2>2 DEF Reconcile, TheOutcome
    <3>1. PICK m \in Live(r) : Add(TheOutcome(r, m, "interrupted"))
      BY <3>0
    <3>2. \E i \in About(r, "intent") : record[i].n = m
      BY <1>0, LiveHasIntent DEF RecordInv
    <3>3. m \in Nat /\ "interrupted" \in Words
      BY <1>0, LatestType DEF Live, Words
    <3> QED
      BY <1>12, <3>1, <3>2, <3>3
  <2> QED
    BY <2>1, <2>2
<1>15. CASE ConfirmStop
  <2>1. CASE StopsOf(run, sup) = {}
    BY <1>8, <1>15, <2>1 DEF ConfirmStop
  <2>2. CASE StopsOf(run, sup) # {}
    <3>1. PICK k \in StopsOf(run, sup) : Add(TheStopped(k))
      BY <1>15, <2>2 DEF ConfirmStop, TheStopped
    <3>2. pc = "confirming" /\ sup # 0
      BY <1>0, <1>15 DEF ConfirmStop, Placed
    <3>3. run \in Runs
      BY <1>0, <3>2 DEF Knows, RetryKnown, Supervised
    <3>4. PICK j \in About(run, "outcome") :
            /\ record[j].n = sup /\ record[j].word = "cancelled"
            /\ \A i \in About(run, "completed") : i < j
      BY <1>0, <3>2 DEF Knows, RetryKnown, Supervised
    <3>5. PICK a \in About(run, "accepted") :
            /\ k = record[a].key
            /\ Requested(run, record[a].key)
            /\ \A s \in About(run, "stopped") : record[s].key # record[a].key
      BY DEF StopsOf
    <3>6. PICK i \in About(run, "completed") : record[i].key = k
      BY <3>5 DEF Requested
    <3>7. ~ Has("stopped", run, k)
      BY <3>5 DEF Has
    <3>8. k \in Keys \cup {Nothing}
      <4>1. a \in DOMAIN record
        BY Recorded
      <4> QED
        BY <1>0, <3>5, <4>1, EntryAt DEF Entries
    <3>9. TheStopped(k) \in Entries
      BY <1>0, <3>3, <3>8, StoppedFields
    <3>10. Rightful(TheStopped(k))
      BY <1>0, <3>3, <3>4, <3>6, <3>7, <3>8, StoppedFields DEF Rightful
    <3> QED
      BY <1>0, <3>1, <3>9, <3>10 DEF Grows
  <2> QED
    BY <2>1, <2>2
<1>16. CASE \/ TakeRequest \/ Drained \/ OwnRequest \/ Applied \/ RemoveFails
            \/ TurnAway \/ StartRetry \/ AcquireRefused \/ LaunchRefused \/ Poll
            \/ Decide \/ LeaveLive \/ AgentEnds \/ Crash
            \/ \E v \in Verbs : TakeLock(v)
            \/ \E what \in Wants, r \in Runs : Ask(what, r)
  <2>1. UNCHANGED record
    BY <1>16 DEF TakeRequest, Drained, OwnRequest, Applied, RemoveFails, TurnAway,
         StartRetry, AcquireRefused, Refuse, LaunchRefused, Poll, Decide, LeaveLive,
         AgentEnds, Crash, TakeLock, Ask
  <2> QED
    BY <1>8, <2>1
<1> QED
  BY <1>1, <1>2, <1>3, <1>4, <1>6, <1>7, <1>9, <1>10, <1>11, <1>13, <1>14, <1>15, <1>16
     DEF Next, Step

LEMMA RecordStep ==
  ASSUME IInv, Next
  PROVE  record' \in Seq(Entries) /\ RecordInv'
<1>1. Grows /\ TypeOK /\ RecordInv
  BY RightfulStep DEF IInv
<1>2. CASE UNCHANGED record
  BY <1>1, <1>2, RecordSame DEF TypeOK
<1>3. CASE \E e \in Entries : Add(e) /\ Rightful(e)
  BY <1>1, <1>3, Appending, RecordGrows
<1> QED
  BY <1>1, <1>2, <1>3 DEF Grows

(* ---------------------------------------------------------------------- *)
(* Every step keeps the types and the places.                              *)

LEMMA Blanks ==
  NoRequest \in Asks /\ NoRequest.what = "none" /\ NoRequest.key = Nothing
BY DEF NoRequest, Asks

LEMMA ReleaseType ==
  ASSUME TypeOK, Release
  PROVE  /\ pc' \in Places /\ cur' \in Asks /\ retry' \in Asks
         /\ verb' \in {"none", "op", "lease", "run", "reconcile"}
         /\ batch' \subseteq Requests /\ from' \in Requests \cup {0} /\ sup' \in Nat
         /\ run' \in Runs \cup {NoRun}
         /\ said' \in {"none", "completed", "interrupted", "cancelled"}
BY Blanks DEF Release, Places

LEMMA ReleasePlaced ==
  ASSUME Release
  PROVE  Placed' /\ Knows'
<1>1. Placed'
  BY DEF Release, Placed, Applying
<1>2. Knows'
  BY DEF Release, Knows, RetryKnown, Supervised
<1> QED
  BY <1>1, <1>2

\* A request that is queued takes the oldest name never used.
LEMMA Asking ==
  ASSUME TypeOK, Posted, NEW what \in Wants, NEW r \in Runs, Ask(what, r)
  PROVE  /\ ask' \in [Requests -> Asks]
         /\ stage' \in [Requests -> {"none", "queued", "gone"}]
         /\ Posted'
         /\ \E f \in Unused :
              /\ \A g \in Requests \ {f} : ask'[g] = ask[g] /\ stage'[g] = stage[g]
              /\ stage'[f] = "queued"
              /\ \A g \in Unused : f <= g
<1>1. Unused \in SUBSET Requests /\ Unused # {}
  BY DEF Ask, Unused
<1>2. PICK f \in Unused : f = Oldest(Unused) /\ \A g \in Unused : f <= g
  BY <1>1, OldestLeast
<1>3. PICK q \in Operands(what, r) : ask' = [ask EXCEPT ![f] = q]
  BY <1>2 DEF Ask
<1>4. stage' = [stage EXCEPT ![f] = "queued"]
  BY <1>2 DEF Ask
<1>5. what \in {"abort"} \cup Acts \cup {"garbled"}
  BY RunOperationsAssumption DEF Acts
<1>6. q \in Asks /\ q.what = what /\ (what # "garbled" => Reads(q))
  BY <1>5, OperandsType DEF Operations
<1>7. ask'[f] = q /\ stage'[f] = "queued"
  BY <1>1, <1>2, <1>3, <1>4 DEF TypeOK
<1>8. \A g \in Requests \ {f} : ask'[g] = ask[g] /\ stage'[g] = stage[g]
  BY <1>1, <1>3, <1>4 DEF TypeOK
<1>9. ask' \in [Requests -> Asks] /\ stage' \in [Requests -> {"none", "queued", "gone"}]
  BY <1>3, <1>4, <1>6 DEF TypeOK
<1>10. ASSUME NEW g \in Requests, stage'[g] # "none", ask'[g].what # "garbled"
       PROVE  Reads(ask'[g]) /\ ask'[g].what \in {"abort"} \cup Acts
  <2>1. CASE g = f
    BY <1>5, <1>6, <1>7, <1>10, <2>1
  <2>2. CASE g # f
    BY <1>8, <1>10, <2>2 DEF Posted
  <2> QED
    BY <2>1, <2>2
<1>11. Posted'
  <2>1. \A g \in Requests : stage'[g] # "none" /\ ask'[g].what # "garbled" =>
          Reads(ask'[g]) /\ ask'[g].what \in {"abort"} \cup Acts
    BY <1>10
  <2> QED
    BY <2>1 DEF Posted, Reads, Asks
<1> QED
  BY <1>2, <1>7, <1>8, <1>9, <1>11

LEMMA TypeStep ==
  ASSUME IInv, Next
  PROVE  TypeOK'
<1> USE DEF IInv
<1>0. record' \in Seq(Entries)
  BY RecordStep
<1>1. CASE \E v \in Verbs : TakeLock(v)
  <2>1. PICK v \in Verbs : TakeLock(v)
    BY <1>1
  <2>2. v \in {"op", "lease", "run", "reconcile"}
    BY RunOperationsAssumption
  <2> QED
    BY <1>0, <2>1, <2>2 DEF TakeLock, TypeOK, Places, queue, Readable
<1>2. CASE \E what \in Wants, r \in Runs : Ask(what, r)
  <2>1. PICK what \in Wants, r \in Runs : Ask(what, r)
    BY <1>2
  <2> QED
    BY <1>0, <2>1, Asking DEF Ask, TypeOK, local
<1>3. CASE TakeRequest
  <2>1. Oldest(batch) \in Requests
    BY <1>3, OldestLeast DEF TakeRequest, TypeOK
  <2>2. ask[Oldest(batch)] \in Asks
    BY <2>1 DEF TypeOK
  <2> QED
    BY <1>0, <1>3, <2>1, <2>2 DEF TakeRequest, TypeOK, Places, queue
<1>4. CASE OwnRequest
  <2>1. cur' \in Asks
    <3>1. PICK what \in IF verb = "op" THEN Operations ELSE Acts, r \in Runs :
                 \E q \in Operands(what, r) : cur' = q
      BY <1>4 DEF OwnRequest
    <3>2. what \in Operations \cup Acts \cup {"garbled"}
      OBVIOUS
    <3> QED
      BY <3>1, <3>2, OperandsType
  <2> QED
    BY <1>0, <1>4, <2>1 DEF OwnRequest, TypeOK, Places, queue
<1>5. CASE Launch
  <2>1. PICK r \in IF retry # NoRequest THEN {retry.run} ELSE Runs :
          run' = r /\ sup' = LatestAttempt(r) + 1
    BY <1>5 DEF Launch
  <2>2. r \in Runs /\ LatestAttempt(r) \in Nat
    BY <2>1, LatestType DEF Placed, Reads
  <2> QED
    BY <1>0, <1>5, <2>1, <2>2 DEF Launch, TypeOK, Places, queue
<1>6. CASE Applied
  BY <1>0, <1>6, Blanks, ReleaseType DEF Applied, TypeOK, Places
<1>7. CASE RemoveFails
  BY <1>0, <1>7, Blanks, ReleaseType DEF RemoveFails, TypeOK, Places, queue
<1>8. CASE StartRetry
  BY <1>0, <1>8, Blanks DEF StartRetry, TypeOK, Places, queue
<1>9. CASE Release /\ UNCHANGED queue
  BY <1>0, <1>9, ReleaseType DEF TypeOK, queue
<1>10. ASSUME NEW s \in Places, Goto(s), UNCHANGED queue
       PROVE  TypeOK'
  BY <1>0, <1>10 DEF Goto, TypeOK, queue
<1>11. CASE Over /\ UNCHANGED queue
  BY <1>9, <1>10, <1>11 DEF Over, Places
<1>12. CASE Drained
  BY <1>10, <1>12 DEF Drained, Places
<1>13. CASE TurnAway \/ RefuseStale \/ Accept \/ RequestStop
  BY <1>10, <1>13 DEF TurnAway, RefuseStale, Accept, RequestStop, Places
<1>14. CASE AcquireRefused \/ Expire \/ Acquire \/ ReleaseLease \/ BreakLease
  BY <1>10, <1>14 DEF AcquireRefused, Expire, Acquire, ReleaseLease, BreakLease,
     Refuse, Places
<1>15. CASE CompleteRetry \/ Reconcile \/ Crash
  BY <1>9, <1>15 DEF CompleteRetry, Reconcile, Crash
<1>16. CASE LaunchRefused \/ LeaveLive
  BY <1>11, <1>16 DEF LaunchRefused, LeaveLive
<1>17. CASE Conclude \/ ConfirmStop
  BY <1>10, <1>11, <1>17 DEF Conclude, ConfirmStop, Places
<1>18. CASE Poll \/ Decide \/ AgentEnds
  BY <1>0, <1>18 DEF Poll, Decide, AgentEnds, TypeOK, Places, queue, Readable
<1> QED
  BY <1>1, <1>2, <1>3, <1>4, <1>5, <1>6, <1>7, <1>8, <1>12, <1>13, <1>14, <1>15,
     <1>16, <1>17, <1>18 DEF Next, Step

LEMMA PostedStep ==
  ASSUME IInv, Next
  PROVE  Posted'
<1> USE DEF IInv
<1>1. CASE \E what \in Wants, r \in Runs : Ask(what, r)
  BY <1>1, Asking
<1>2. CASE UNCHANGED queue
  BY <1>2 DEF queue, Posted, Reads, Asks
<1>3. CASE Applied
  <2>1. ask' = ask /\ \A f \in Requests : stage'[f] # "none" => stage[f] # "none"
    <3>1. CASE from = 0
      BY <1>3, <3>1 DEF Applied
    <3>2. CASE from # 0
      <4>1. from \in Requests /\ from \in batch /\ batch \subseteq Readable
        BY <3>2 DEF TypeOK, Placed
      <4>2. stage[from] # "none"
        BY <4>1 DEF Readable
      <4> QED
        BY <1>3, <3>2, <4>1, <4>2 DEF Applied, TypeOK
    <3> QED
      BY <3>1, <3>2
  <2> QED
    BY <2>1 DEF Posted, Reads, Asks
<1>4. CASE \/ TakeRequest \/ Drained \/ OwnRequest \/ RemoveFails
           \/ TurnAway \/ RefuseStale \/ Accept \/ RequestStop \/ StartRetry
           \/ CompleteRetry \/ AcquireRefused \/ Expire \/ Acquire \/ ReleaseLease
           \/ BreakLease \/ LaunchRefused \/ Launch \/ Poll \/ Decide \/ Conclude
           \/ LeaveLive \/ ConfirmStop \/ Reconcile \/ AgentEnds \/ Crash
           \/ \E v \in Verbs : TakeLock(v)
  <2>1. UNCHANGED queue
    BY <1>4 DEF TakeRequest, Drained, OwnRequest, RemoveFails, TurnAway, RefuseStale,
       Accept, RequestStop, StartRetry, CompleteRetry, AcquireRefused, Expire, Acquire,
       ReleaseLease, BreakLease, Refuse, LaunchRefused, Launch, Poll, Decide, Conclude,
       LeaveLive, ConfirmStop, Reconcile, AgentEnds, Crash, TakeLock
  <2> QED
    BY <1>2, <2>1
<1> QED
  BY <1>1, <1>3, <1>4 DEF Next, Step

\* A step that only moves the counter, to a place that asks for no more than is
\* known already.
LEMMA GotoPlaced ==
  ASSUME TypeOK, Placed, NEW s \in Places, Goto(s), UNCHANGED queue,
         \/ pc \in Applying /\ s = "applied"
         \/ pc = "applying" /\ s = "acquiring" /\ cur.what = "acquire"
         \/ pc = "applying" /\ s = "accepted" /\ cur.what \in {"abort", "retry"}
         \/ pc = "draining" /\ s = "own" /\ sup = 0 /\ batch = {}
         \/ pc \notin Applying /\ s = "completing" /\ retry # NoRequest
         \/ pc \notin Applying /\ s \in {"deciding", "confirming"} /\ sup # 0
  PROVE  Placed'
<1>1. Readable' = Readable
  BY DEF queue, Readable
<1>2. /\ pc' = s /\ batch' = batch /\ cur' = cur /\ from' = from
      /\ retry' = retry /\ sup' = sup /\ ask' = ask
  BY DEF Goto, queue
<1> QED
  BY <1>1, <1>2 DEF Placed, Applying, Reads, Asks

LEMMA OverPlaced ==
  ASSUME TypeOK, Placed, pc \notin Applying, Over, UNCHANGED queue
  PROVE  Placed'
<1>1. CASE retry # NoRequest
  BY <1>1, GotoPlaced DEF Over, Places
<1>2. CASE retry = NoRequest
  BY <1>2, ReleasePlaced DEF Over
<1> QED
  BY <1>1, <1>2

LEMMA PlacedStep ==
  ASSUME IInv, Next
  PROVE  Placed'
<1> USE DEF IInv
<1>1. CASE \E v \in Verbs : TakeLock(v)
  <2>1. PICK v \in Verbs : TakeLock(v)
    BY <1>1
  <2>2. v \in {"op", "lease", "run", "reconcile"}
    BY RunOperationsAssumption
  <2>3. Readable' = Readable
    BY <2>1 DEF TakeLock, queue, Readable
  <2>4. /\ pc = "free" /\ cur' = cur /\ from' = from /\ retry' = retry /\ sup' = sup
        /\ IF v \in {"op", "lease"} THEN pc' = "draining" /\ batch' = Readable
                                    ELSE pc' = v /\ batch' = batch
    BY <2>1 DEF TakeLock
  <2>5. from = 0 /\ sup = 0 /\ retry = NoRequest /\ batch = {}
    BY <2>4 DEF Placed, Applying
  <2>6. CASE v \in {"op", "lease"}
    BY <2>3, <2>4, <2>5, <2>6 DEF Placed, Applying
  <2>7. CASE v \in {"run", "reconcile"}
    BY <2>3, <2>4, <2>5, <2>7 DEF Placed, Applying
  <2> QED
    BY <2>2, <2>6, <2>7
<1>2. CASE \E what \in Wants, r \in Runs : Ask(what, r)
  <2>1. PICK what \in Wants, r \in Runs : Ask(what, r)
    BY <1>2
  <2>2. PICK f \in Unused :
          /\ \A g \in Requests \ {f} : ask'[g] = ask[g] /\ stage'[g] = stage[g]
          /\ stage'[f] = "queued"
    BY <2>1, Asking
  <2>3. UNCHANGED local
    BY <2>1 DEF Ask
  <2>4. f \notin Readable /\ Readable \subseteq Readable'
    BY <2>2 DEF Unused, Readable
  <2>5. pc \in Applying => f \notin batch
    BY <2>4 DEF Placed
  <2>6. from # 0 => ask'[from] = ask[from]
    BY <2>2, <2>5 DEF Placed, TypeOK
  <2> QED
    BY <2>3, <2>4, <2>6 DEF local, Placed, Reads, Asks
<1>3. CASE TakeRequest
  <2>1. PICK f \in Requests : f = Oldest(batch) /\ f \in batch
    BY <1>3, OldestLeast DEF TakeRequest, TypeOK
  <2>2. /\ pc = "draining" /\ pc' = "applying" /\ from' = f /\ cur' = ask[f]
        /\ batch' = batch /\ retry' = retry /\ sup' = sup /\ UNCHANGED queue
    BY <1>3, <2>1 DEF TakeRequest
  <2>3. batch \subseteq Readable /\ (retry # NoRequest => sup # 0)
    BY <2>2 DEF Placed
  <2>4. Reads(ask[f])
    BY <2>1, <2>3 DEF Readable, Posted
  <2>5. f # 0
    BY DEF Requests
  <2>6. Readable' = Readable /\ ask' = ask
    BY <2>2 DEF queue, Readable
  <2>7. Oldest(batch') = f /\ cur' = ask'[f] /\ Reads(cur')
    BY <2>1, <2>2, <2>4, <2>6
  <2>8. from' \in batch' /\ from' = Oldest(batch') /\ cur' = ask'[from'] /\ Reads(cur)'
    BY <2>1, <2>2, <2>7 DEF Reads, Asks
  <2>9. retry # NoRequest => Reads(retry)' /\ retry'.what = "retry"
    BY <2>2 DEF Placed, Reads, Asks
  <2> QED
    BY <2>2, <2>3, <2>5, <2>6, <2>8, <2>9 DEF Placed, Applying
<1>4. CASE Drained
  <2>1. pc = "draining" /\ batch = {} /\ UNCHANGED queue
        /\ Goto(IF sup = 0 THEN "own" ELSE "deciding")
    BY <1>4 DEF Drained
  <2> QED
    BY <2>1, GotoPlaced DEF Places, Applying
<1>5. CASE OwnRequest
  <2>1. Reads(cur')
    <3>1. PICK what \in IF verb = "op" THEN Operations ELSE Acts, r \in Runs :
                 \E q \in Operands(what, r) : cur' = q
      BY <1>5 DEF OwnRequest
    <3>2. what \in Operations \cup Acts \cup {"garbled"} /\ what # "garbled"
      BY DEF Operations, Acts
    <3> QED
      BY <3>1, <3>2, OperandsType
  <2>2. /\ pc = "own" /\ pc' = "applying" /\ batch' = batch /\ from' = from
        /\ retry' = retry /\ sup' = sup
    BY <1>5 DEF OwnRequest
  <2>3. from = 0 /\ sup = 0 /\ retry = NoRequest /\ batch = {}
    BY <2>2 DEF Placed, Applying
  <2>4. Reads(cur)'
    BY <2>1 DEF Reads, Asks
  <2> QED
    BY <2>2, <2>3, <2>4 DEF Placed, Applying
<1>6. CASE Applied
  <2>1. CASE from = 0
    BY <1>6, <2>1, ReleasePlaced DEF Applied
  <2>2. CASE from # 0
    <3>1. /\ pc = "applied" /\ stage' = [stage EXCEPT ![from] = "gone"]
          /\ batch' = batch \ {from} /\ from' = 0 /\ pc' = "draining" /\ cur' = NoRequest
          /\ retry' = retry /\ sup' = sup /\ ask' = ask
      BY <1>6, <2>2 DEF Applied
    <3>2. batch' \subseteq Readable'
      BY <3>1 DEF Placed, Applying, Readable, TypeOK
    <3>3. retry # NoRequest => Reads(retry)' /\ retry'.what = "retry"
      BY <3>1 DEF Placed, Reads, Asks
    <3>4. retry # NoRequest => sup # 0
      BY <3>1 DEF Placed, Applying
    <3> QED
      BY <3>1, <3>2, <3>3, <3>4 DEF Placed, Applying
  <2> QED
    BY <2>1, <2>2
<1>7. CASE RemoveFails
  <2>1. CASE sup = 0
    BY <1>7, <2>1, ReleasePlaced DEF RemoveFails
  <2>2. CASE sup # 0
    <3>1. /\ batch' = {} /\ from' = 0 /\ pc' = "deciding" /\ cur' = NoRequest
          /\ retry' = retry /\ sup' = sup
      BY <1>7, <2>2 DEF RemoveFails
    <3>2. retry # NoRequest => Reads(retry)' /\ retry'.what = "retry"
      BY <3>1 DEF Placed, Reads, Asks
    <3> QED
      BY <2>2, <3>1, <3>2 DEF Placed, Applying
  <2> QED
    BY <2>1, <2>2
<1>8. CASE TurnAway \/ RefuseStale \/ RequestStop \/ AcquireRefused \/ Acquire
           \/ ReleaseLease \/ BreakLease
  <2>1. Goto("applied") /\ UNCHANGED queue /\ pc \in Applying
    BY <1>8 DEF TurnAway, RefuseStale, RequestStop, AcquireRefused, Acquire,
       ReleaseLease, BreakLease, Refuse, Applying
  <2> QED
    BY <2>1, GotoPlaced DEF Places
<1>9. CASE Accept
  <2>1. cur.what \in {"abort", "retry"}
    BY <1>9 DEF Accept, Permitted
  <2> QED
    BY <1>9, <2>1, GotoPlaced DEF Accept, Places
<1>10. CASE Expire
  BY <1>10, GotoPlaced DEF Expire, Places
<1>11. CASE StartRetry
  <2>1. /\ pc = "accepted" /\ cur.what = "retry" /\ pc' = "run" /\ retry' = cur
        /\ cur' = NoRequest /\ batch' = batch /\ from' = from /\ sup' = sup
    BY <1>11 DEF StartRetry
  <2>2. from = 0
    <3>1. SUFFICES ASSUME from # 0 PROVE FALSE
      OBVIOUS
    <3>2. from \in Readable /\ from \in Requests /\ cur = ask[from]
      BY <3>1 DEF Placed, TypeOK
    <3>3. cur.what \in {"abort"} \cup Acts
      BY <3>2 DEF Readable, Posted
    <3> QED
      BY <2>1, <3>3 DEF Acts
  <2>3. sup = 0 /\ batch = {} /\ Reads(cur)
    BY <2>1, <2>2 DEF Placed, Applying
  <2>4. Reads(retry)' /\ retry'.what = "retry"
    BY <2>1, <2>3 DEF Reads, Asks
  <2> QED
    BY <2>1, <2>2, <2>3, <2>4 DEF Placed, Applying
<1>12. CASE CompleteRetry \/ Reconcile \/ Crash
  BY <1>12, ReleasePlaced DEF CompleteRetry, Reconcile, Crash
<1>13. CASE LaunchRefused \/ LeaveLive
  BY <1>13, OverPlaced DEF LaunchRefused, LeaveLive, Applying
<1>14. CASE Launch
  <2>1. PICK r \in IF retry # NoRequest THEN {retry.run} ELSE Runs :
          sup' = LatestAttempt(r) + 1
    BY <1>14 DEF Launch
  <2>2. sup' # 0
    BY <2>1, LatestType
  <2>3. /\ pc = "run" /\ pc' = "supervising" /\ batch' = batch /\ cur' = cur
        /\ from' = from /\ retry' = retry
    BY <1>14 DEF Launch
  <2>4. from = 0
    BY <2>3 DEF Placed, Applying
  <2>5. retry # NoRequest => Reads(retry)' /\ retry'.what = "retry"
    BY <2>3 DEF Placed, Reads, Asks
  <2> QED
    BY <2>2, <2>3, <2>4, <2>5 DEF Placed, Applying
<1>15. CASE Poll
  <2>1. /\ pc = "supervising" /\ pc' = "draining" /\ batch' = Readable /\ cur' = cur
        /\ from' = from /\ retry' = retry /\ sup' = sup /\ UNCHANGED queue
    BY <1>15 DEF Poll
  <2>2. from = 0 /\ sup # 0
    BY <2>1 DEF Placed, Applying
  <2>3. Readable' = Readable
    BY <2>1 DEF queue, Readable
  <2>4. retry # NoRequest => Reads(retry)' /\ retry'.what = "retry"
    BY <2>1 DEF Placed, Reads, Asks
  <2> QED
    BY <2>1, <2>2, <2>3, <2>4 DEF Placed, Applying
<1>16. CASE Decide \/ AgentEnds
  <2>1. /\ pc \in {"deciding", "supervising"} /\ pc' \in {"ended", "supervising"}
        /\ batch' = batch /\ cur' = cur /\ from' = from /\ retry' = retry /\ sup' = sup
    BY <1>16 DEF Decide, AgentEnds
  <2>2. from = 0 /\ sup # 0
    BY <2>1 DEF Placed, Applying
  <2>3. retry # NoRequest => Reads(retry)' /\ retry'.what = "retry"
    BY <2>1 DEF Placed, Reads, Asks
  <2> QED
    BY <2>1, <2>2, <2>3 DEF Placed, Applying
<1>17. CASE Conclude \/ ConfirmStop
  <2>1. /\ pc \in {"ended", "confirming"} /\ UNCHANGED queue
        /\ Over \/ Goto("confirming")
    BY <1>17 DEF Conclude, ConfirmStop
  <2>2. sup # 0 /\ pc \notin Applying
    BY <2>1 DEF Placed, Applying
  <2> QED
    BY <2>1, <2>2, OverPlaced, GotoPlaced DEF Places
<1> QED
  BY <1>1, <1>2, <1>3, <1>4, <1>5, <1>6, <1>7, <1>8, <1>9, <1>10, <1>11, <1>12, <1>13,
     <1>14, <1>15, <1>16, <1>17 DEF Next, Step

(* ---------------------------------------------------------------------- *)
(* Every step keeps what the holder of the lock knows.                     *)

LEMMA IntendedStays ==
  ASSUME NEW e, NEW n, Grown(e, n), NEW r, NEW key, NEW op, Intended(r, key, op)
  PROVE  Intended(r, key, op)'
<1>1. PICK i \in About(r, "accepted") : record[i].key = key /\ record[i].op = op
  BY DEF Intended
<1>2. i \in About(r, "accepted")' /\ record'[i] = record[i]
  BY AboutStays
<1> QED
  BY <1>1, <1>2 DEF Intended

LEMMA IntendedOnce ==
  ASSUME RecordInv, NEW r \in Runs, NEW key, NEW o, NEW p,
         Intended(r, key, o), Intended(r, key, p)
  PROVE  o = p
BY DEF RecordInv, KeysOrdered, OncePerKey, Intended

\* An entry that is not the retry's own outcome leaves it accepted and open.
LEMMA RetryGrows ==
  ASSUME RetryKnown, NEW e, NEW n, Grown(e, n), retry' = retry,
         retry # NoRequest =>
           e.kind # "completed" \/ e.run # retry.run \/ e.key # retry.key
  PROVE  RetryKnown'
<1>1. PICK q : q = retry
  OBVIOUS
<1>2. CASE q # NoRequest
  <2>1. Intended(q.run, q.key, "retry") /\ ~ Has("completed", q.run, q.key)
    BY <1>1, <1>2 DEF RetryKnown
  <2>2. Intended(q.run, q.key, "retry")'
    BY <2>1, IntendedStays
  <2>3. ~ Has("completed", q.run, q.key)'
    BY <1>1, <1>2, <2>1, HasAfter
  <2> QED
    BY <1>1, <2>2, <2>3 DEF RetryKnown
<1> QED
  BY <1>1, <1>2 DEF RetryKnown

LEMMA SupervisedGrows ==
  ASSUME Supervised, NEW e, NEW n, Grown(e, n), sup' = sup, run' = run
  PROVE  Supervised'
<1>1. PICK r : r = run
  OBVIOUS
<1>2. \A i \in About(r, "intent") : i \in About(r, "intent")' /\ record'[i] = record[i]
  BY AboutStays
<1> QED
  BY <1>1, <1>2 DEF Supervised

LEMMA RecordStands ==
  ASSUME UNCHANGED record
  PROVE  /\ \A r, k : About(r, k)' = About(r, k)
         /\ \A kind, r, key : Has(kind, r, key)' = Has(kind, r, key)
         /\ \A r, key, op : Intended(r, key, op)' = Intended(r, key, op)
         /\ \A r : LeaseOf(r)' = LeaseOf(r)
BY DEF About, Has, Intended, LeaseOf

LEMMA KnownStands ==
  ASSUME RetryKnown, Supervised, UNCHANGED <<record, retry, sup, run>>
  PROVE  RetryKnown' /\ Supervised'
BY DEF RetryKnown, Supervised, Intended, Has, About

\* How one entry changes the lease in force.
LEMMA LeaseOfSame ==
  ASSUME NEW e, NEW n, Grown(e, n), NEW r,
         e.kind \notin {"acquired", "ended"} \/ e.run # r
  PROVE  LeaseOf(r)' = LeaseOf(r)
<1>1. About(r, "acquired")' = About(r, "acquired") /\ About(r, "ended")' = About(r, "ended")
  BY AboutAfter
<1>2. \A i \in About(r, "ended") : record'[i] = record[i]
  BY AboutStays
<1> QED
  BY <1>1, <1>2 DEF LeaseOf

LEMMA LeaseOfEnded ==
  ASSUME NEW e, NEW n, Grown(e, n), e.kind = "ended", e.lease \in LeaseOf(e.run)
  PROVE  LeaseOf(e.run)' = {}
<1>1. About(e.run, "acquired")' = About(e.run, "acquired")
  BY AboutAfter
<1>2. n \in About(e.run, "ended")' /\ record'[n] = e
  BY AboutAfter DEF Grown
<1>3. \A i \in About(e.run, "acquired") : i \in Nat
  BY AboutStays
<1>4. \A i \in LeaseOf(e.run)' : i = e.lease
  BY <1>1, <1>3 DEF LeaseOf
<1>5. e.lease \notin LeaseOf(e.run)'
  BY <1>2 DEF LeaseOf
<1> QED
  BY <1>4, <1>5

LEMMA LeaseOfAcquired ==
  ASSUME LeasesTaken, NEW e, NEW n, Grown(e, n), e.kind = "acquired", e.run \in Runs
  PROVE  LeaseOf(e.run)' = {n}
<1>1. About(e.run, "acquired")' = About(e.run, "acquired") \cup {n}
  BY AboutAfter
<1>2. About(e.run, "ended")' = About(e.run, "ended")
  BY AboutAfter
<1>3. \A i \in About(e.run, "ended") : record'[i] = record[i] /\ record[i].lease # n
  <2>1. \A i \in About(e.run, "ended") : record'[i] = record[i] /\ i \in Nat /\ i < n
    BY AboutStays
  <2>2. \A i \in About(e.run, "ended") : record[i].lease \in About(e.run, "acquired")
    BY DEF LeasesTaken
  <2>3. n \notin About(e.run, "acquired")
    BY DEF Grown, About
  <2> QED
    BY <2>1, <2>2, <2>3
<1>4. n \in Nat /\ \A i \in About(e.run, "acquired") : i \in Nat /\ i < n
  BY AboutStays DEF Grown
<1>5. n \in LeaseOf(e.run)'
  BY <1>1, <1>2, <1>3, <1>4 DEF LeaseOf
<1>6. \A i \in LeaseOf(e.run)' : i = n
  BY <1>1, <1>4 DEF LeaseOf
<1> QED
  BY <1>5, <1>6

\* Moving on to a place where nothing but the retry and the attempt matters.
LEMMA KnownAtRest ==
  ASSUME RetryKnown', Supervised',
         pc' \notin {"accepted", "acquiring", "run", "confirming"}
  PROVE  Knows'
BY DEF Knows

LEMMA OneGrown ==
  ASSUME TypeOK, NEW e \in Entries, Add(e)
  PROVE  \E n \in Nat : Grown(e, n)
BY Appending

LEMMA KnowsAppended ==
  ASSUME TypeOK, RetryKnown, Supervised, NEW e \in Entries, Add(e), NEW s, Goto(s),
         retry # NoRequest =>
           e.kind # "completed" \/ e.run # retry.run \/ e.key # retry.key
  PROVE  /\ RetryKnown' /\ Supervised'
         /\ s \notin {"accepted", "acquiring", "run", "confirming"} => Knows'
<1>1. PICK n \in Nat : Grown(e, n)
  BY OneGrown
<1>2. RetryKnown'
  BY <1>1, RetryGrows DEF Goto
<1>3. Supervised'
  BY <1>1, SupervisedGrows DEF Goto
<1> QED
  BY <1>2, <1>3, KnownAtRest DEF Goto

LEMMA KnowsMoved ==
  ASSUME RetryKnown, Supervised, UNCHANGED <<record, retry, sup, run>>,
         pc' \notin {"accepted", "acquiring", "run", "confirming"}
  PROVE  Knows'
BY KnownStands, KnownAtRest

LEMMA KnowsOver ==
  ASSUME TypeOK, RetryKnown, Supervised, Over,
         \/ UNCHANGED record
         \/ \E e \in Entries : e.kind # "completed" /\ Add(e)
  PROVE  Knows'
<1>1. CASE retry = NoRequest
  BY <1>1, ReleasePlaced DEF Over
<1>2. CASE retry # NoRequest /\ UNCHANGED record
  BY <1>2, KnowsMoved DEF Over, Goto
<1>3. CASE retry # NoRequest /\ \E e \in Entries : e.kind # "completed" /\ Add(e)
  <2>1. Goto("completing")
    BY <1>3 DEF Over
  <2> QED
    BY <1>3, <2>1, KnowsAppended
<1> QED
  BY <1>1, <1>2, <1>3

LEMMA KnowsStep ==
  ASSUME IInv, Next
  PROVE  Knows'
<1>0. TypeOK /\ Placed /\ Knows /\ RecordInv /\ RetryKnown /\ Supervised
  BY DEF IInv, Knows
<1>1. CASE Accept
  <2>1. /\ pc = "applying" /\ ~ KeyHeld(cur) /\ Add(Entry("accepted")) /\ Goto("accepted")
        /\ cur.what \in Operations
    BY <1>1 DEF Accept
  <2>2. Reads(cur)
    BY <1>0, <2>1 DEF Placed
  <2>3. PICK e \in Entries : e = Entry("accepted") /\ e.kind = "accepted"
          /\ e.run = cur.run /\ e.key = cur.key /\ e.op = cur.what
    BY <1>0, <2>2, EntryFields DEF Kinds
  <2>4. PICK n \in Nat : Grown(e, n)
    BY <1>0, <2>1, <2>3, OneGrown
  <2>5. RetryKnown' /\ Supervised'
    BY <1>0, <2>1, <2>3, KnowsAppended
  <2>6. PICK q : q = cur
    OBVIOUS
  <2>7. Intended(q.run, q.key, q.what)'
    <3>1. n \in About(q.run, "accepted")' /\ record'[n] = e
      BY <2>3, <2>4, <2>6, AboutAfter DEF Grown
    <3> QED
      BY <2>3, <2>6, <3>1 DEF Intended
  <2>8. q.run \in Runs /\ q.key # Nothing /\ ~ Has("accepted", q.run, q.key)
    BY <2>1, <2>2, <2>6, RunOperationsAssumption DEF Reads, KeyHeld, Has
  <2>9. ~ Has("completed", q.run, q.key)
    BY <1>0, <2>8 DEF RecordInv, KeysOrdered, Has
  <2>10. ~ Has("intent", q.run, q.key)
    BY <1>0, <2>8 DEF RecordInv, OneLaunchPerKey, Has
  <2>11. ~ Has("completed", q.run, q.key)' /\ ~ Has("intent", q.run, q.key)'
    BY <2>3, <2>4, <2>9, <2>10, HasAfter
  <2>12. pc' = "accepted" /\ q = cur'
    BY <2>1, <2>6 DEF Goto
  <2> QED
    BY <2>5, <2>7, <2>11, <2>12 DEF Knows
<1>2. CASE RefuseStale
  <2>1. Add(Entry("stale")) /\ Goto("applied") /\ Reads(cur)
    BY <1>0, <1>2 DEF RefuseStale, Placed
  <2>2. Entry("stale") \in Entries /\ Entry("stale").kind = "stale"
    BY <1>0, <2>1, EntryFields DEF Kinds
  <2> QED
    BY <1>0, <2>1, <2>2, KnowsAppended
<1>3. CASE RequestStop
  <2>1. /\ Reads(cur) /\ cur.what = "abort" /\ Goto("applied")
        /\ Intended(cur.run, cur.key, "abort")
    BY <1>0, <1>3 DEF RequestStop, Placed, Knows
  <2>2. Add(TheStop)
    BY <1>3 DEF RequestStop, TheStop
  <2>3. retry # NoRequest => cur.run # retry.run \/ cur.key # retry.key
    <3>1. SUFFICES ASSUME retry # NoRequest, cur.run = retry.run, cur.key = retry.key
                   PROVE  FALSE
      OBVIOUS
    <3>2. Intended(cur.run, cur.key, "retry") /\ cur.run \in Runs
      BY <1>0, <2>1, <3>1 DEF RetryKnown, Reads
    <3> QED
      BY <1>0, <2>1, <3>2, IntendedOnce
  <2>4. TheStop \in Entries /\ TheStop.run = cur.run /\ TheStop.key = cur.key
    BY <1>0, <2>1, StopFields
  <2>5. retry # NoRequest =>
          TheStop.kind # "completed" \/ TheStop.run # retry.run \/ TheStop.key # retry.key
    BY <2>3, <2>4
  <2> QED
    BY <1>0, <2>1, <2>2, <2>4, <2>5, KnowsAppended
<1>4. CASE StartRetry
  <2>1. /\ pc = "accepted" /\ cur.what = "retry" /\ pc' = "run" /\ retry' = cur
        /\ UNCHANGED <<record, sup, run>>
    BY <1>4 DEF StartRetry
  <2>2. /\ Intended(cur.run, cur.key, "retry") /\ ~ Has("completed", cur.run, cur.key)
        /\ ~ Has("intent", cur.run, cur.key)
    BY <1>0, <2>1 DEF Knows
  <2>3. PICK q : q = cur
    OBVIOUS
  <2>4. /\ Intended(q.run, q.key, "retry")' /\ ~ Has("completed", q.run, q.key)'
        /\ ~ Has("intent", q.run, q.key)'
    BY <2>1, <2>2, <2>3, RecordStands
  <2>5. Supervised'
    BY <1>0, <2>1, RecordStands DEF Supervised
  <2>6. retry' = q
    BY <2>1, <2>3
  <2> QED
    BY <2>1, <2>4, <2>5, <2>6 DEF Knows, RetryKnown
<1>5. CASE CompleteRetry \/ Reconcile \/ Crash
  BY <1>5, ReleasePlaced DEF CompleteRetry, Reconcile, Crash
<1>6. ASSUME NEW l \in LeaseOf(cur.run), NEW w \in Words, Reads(cur), Add(Ending(l, w)),
             NEW s, Goto(s)
      PROVE  /\ RetryKnown' /\ Supervised' /\ LeaseOf(cur.run)' = {}
             /\ s = "applied" => Knows'
  <2>1. l \in Nat
    <3>1. Len(record) \in Nat /\ DOMAIN record = 1 .. Len(record)
      BY <1>0 DEF TypeOK
    <3> QED
      BY <3>1 DEF LeaseOf, About
  <2>2. PICK e \in Entries : e = Ending(l, w) /\ e.kind = "ended" /\ e.run = cur.run
          /\ e.lease = l
    BY <1>0, <1>6, <2>1, EndingFields
  <2>3. PICK n \in Nat : Grown(e, n)
    BY <1>0, <1>6, <2>2, OneGrown
  <2>4. LeaseOf(e.run)' = {}
    BY <2>2, <2>3, LeaseOfEnded
  <2>5. cur' = cur
    BY <1>6 DEF Goto
  <2>6. RetryKnown' /\ Supervised' /\ (s = "applied" => Knows')
    BY <1>0, <1>6, <2>2, KnowsAppended
  <2> QED
    BY <2>2, <2>4, <2>5, <2>6
<1>7. CASE Expire
  <2>1. Reads(cur) /\ Goto("acquiring")
    BY <1>0, <1>7 DEF Expire, Placed
  <2>2. PICK l \in LeaseOf(cur.run) : Add(Ending(l, "expired"))
    BY <1>7 DEF Expire
  <2>3. RetryKnown' /\ Supervised' /\ LeaseOf(cur.run)' = {}
    BY <1>6, <2>1, <2>2 DEF Words
  <2>4. pc' = "acquiring"
    BY <2>1 DEF Goto
  <2> QED
    BY <2>3, <2>4 DEF Knows
<1>8. CASE ReleaseLease \/ BreakLease
  <2>1. Reads(cur) /\ Goto("applied")
    BY <1>0, <1>8 DEF ReleaseLease, BreakLease, Placed, Refuse
  <2>2. CASE UNCHANGED record
    BY <1>0, <2>1, <2>2, KnowsMoved DEF Goto
  <2>3. CASE record' # record
    <3>1. PICK l \in LeaseOf(cur.run), w \in {"released", "broken"} : Add(Ending(l, w))
      BY <1>8, <2>3 DEF ReleaseLease, BreakLease, Refuse, LeaseFits
    <3>2. w \in Words
      BY DEF Words
    <3> QED
      BY <1>6, <2>1, <3>1, <3>2
  <2> QED
    BY <2>2, <2>3
<1>9. CASE Acquire
  <2>1. Reads(cur) /\ cur.what = "acquire" /\ Goto("applied")
    BY <1>0, <1>9 DEF Acquire, Placed
  <2>2. Add(TheLease)
    BY <1>9 DEF Acquire, TheLease
  <2>3. TheLease \in Entries /\ TheLease.kind = "acquired"
    BY <1>0, <2>1, LeaseFields
  <2> QED
    BY <1>0, <2>1, <2>2, <2>3, KnowsAppended
<1>10. CASE Launch
  <2>1. PICK r \in IF retry # NoRequest THEN {retry.run} ELSE Runs :
          /\ run' = r /\ sup' = LatestAttempt(r) + 1 /\ Add(TheIntent(r))
    BY <1>10 DEF Launch, TheIntent
  <2>2. pc' = "supervising" /\ retry' = retry
    BY <1>10 DEF Launch
  <2>3. r \in Runs
    BY <1>0, <2>1 DEF Placed, Reads
  <2>4. PICK e \in Entries : e = TheIntent(r) /\ e.kind = "intent" /\ e.run = r
          /\ e.n = LatestAttempt(r) + 1
    BY <1>0, <2>3, IntentFields
  <2>5. PICK n \in Nat : Grown(e, n)
    BY <1>0, <2>1, <2>4, OneGrown
  <2>6. RetryKnown'
    BY <1>0, <2>2, <2>4, <2>5, RetryGrows
  <2>7. n \in About(r, "intent")' /\ record'[n] = e
    BY <2>4, <2>5, AboutAfter DEF Grown
  <2>8. Supervised'
    BY <2>1, <2>3, <2>4, <2>7 DEF Supervised
  <2> QED
    BY <2>2, <2>6, <2>8, KnownAtRest
<1>11. CASE Conclude
  <2>1. PICK w \in {said, "refused", "interrupted"} :
          /\ Add(TheOutcome(run, sup, w))
          /\ IF w = "cancelled" THEN Goto("confirming") ELSE Over
    BY <1>11 DEF Conclude, TheOutcome
  <2>2. w \in Words /\ sup \in Nat
    BY <1>0 DEF TypeOK, Words
  <2>3. run \in Runs
    BY <1>0, <1>11 DEF Conclude, Placed, Supervised
  <2>4. PICK e \in Entries : e = TheOutcome(run, sup, w) /\ e.kind = "outcome"
          /\ e.run = run /\ e.n = sup /\ e.word = w
    BY <2>2, <2>3, OutcomeFields
  <2>5. CASE w # "cancelled"
    BY <1>0, <2>1, <2>4, <2>5, KnowsOver
  <2>6. CASE w = "cancelled"
    <3>1. Goto("confirming")
      BY <2>1, <2>6
    <3>2. RetryKnown' /\ Supervised'
      BY <1>0, <2>1, <2>4, <3>1, KnowsAppended
    <3>3. PICK n \in Nat : Grown(e, n)
      BY <1>0, <2>1, <2>4, OneGrown
    <3>4. PICK r : r = run
      OBVIOUS
    <3>5. n \in About(r, "outcome")' /\ record'[n] = e
      BY <2>4, <3>3, <3>4, AboutAfter DEF Grown
    <3>6. \A i \in About(r, "completed")' : i < n
      <4>1. About(r, "completed")' = About(r, "completed")
        BY <2>4, <3>3, AboutAfter
      <4> QED
        BY <3>3, <4>1, AboutStays
    <3>7. pc' = "confirming" /\ run' = r /\ sup' = e.n /\ e.word = "cancelled"
      BY <2>4, <2>6, <3>1, <3>4 DEF Goto
    <3> QED
      BY <3>2, <3>5, <3>6, <3>7 DEF Knows
  <2> QED
    BY <2>5, <2>6
<1>12. CASE ConfirmStop
  <2>1. pc = "confirming"
    BY <1>12 DEF ConfirmStop
  <2>2. CASE StopsOf(run, sup) = {}
    BY <1>0, <1>12, <2>2, KnowsOver DEF ConfirmStop
  <2>3. CASE StopsOf(run, sup) # {}
    <3>1. PICK k \in StopsOf(run, sup) : Add(TheStopped(k)) /\ Goto("confirming")
      BY <1>12, <2>3 DEF ConfirmStop, TheStopped
    <3>2. run \in Runs
      BY <1>0, <2>1 DEF Placed, Supervised
    <3>3. k \in Keys \cup {Nothing}
      <4>1. PICK a \in About(run, "accepted") : k = record[a].key
        BY DEF StopsOf
      <4>2. a \in DOMAIN record
        BY Recorded
      <4> QED
        BY <1>0, <4>1, <4>2, EntryAt DEF Entries
    <3>4. PICK e \in Entries : e = TheStopped(k) /\ e.kind = "stopped" /\ e.run = run
      BY <1>0, <3>2, <3>3, StoppedFields
    <3>5. RetryKnown' /\ Supervised'
      BY <1>0, <3>1, <3>4, KnowsAppended
    <3>6. PICK n \in Nat : Grown(e, n)
      BY <1>0, <3>1, <3>4, OneGrown
    <3>7. PICK r : r = run
      OBVIOUS
    <3>8. PICK j \in About(r, "outcome") :
            /\ record[j].n = sup /\ record[j].word = "cancelled"
            /\ \A i \in About(r, "completed") : i < j
      BY <1>0, <2>1, <3>7 DEF Knows
    <3>9. j \in About(r, "outcome")' /\ record'[j] = record[j]
      BY <3>6, AboutStays
    <3>10. About(r, "completed")' = About(r, "completed")
      BY <3>4, <3>6, AboutAfter
    <3>11. pc' = "confirming" /\ run' = r /\ sup' = sup
      BY <3>1, <3>7 DEF Goto
    <3> QED
      BY <3>5, <3>8, <3>9, <3>10, <3>11 DEF Knows
  <2> QED
    BY <2>2, <2>3
<1>13. CASE Applied \/ RemoveFails
  <2>1. Release \/ (pc' \in {"draining", "deciding"} /\ UNCHANGED <<record, retry, sup, run>>)
    BY <1>13 DEF Applied, RemoveFails
  <2> QED
    BY <1>0, <2>1, ReleasePlaced, KnowsMoved
<1>14. CASE TurnAway \/ AcquireRefused \/ Drained
  <2>1. UNCHANGED record /\ \E s \in {"applied", "own", "deciding"} : Goto(s)
    BY <1>14 DEF TurnAway, AcquireRefused, Refuse, Drained
  <2> QED
    BY <1>0, <2>1, KnowsMoved DEF Goto
<1>15. CASE LaunchRefused \/ LeaveLive
  BY <1>0, <1>15, KnowsOver DEF LaunchRefused, LeaveLive
<1>16. CASE TakeRequest \/ OwnRequest \/ Poll \/ Decide \/ AgentEnds
  <2>1. UNCHANGED <<record, retry, sup, run>>
        /\ pc' \in {"applying", "draining", "ended", "supervising"}
    BY <1>16 DEF TakeRequest, OwnRequest, Poll, Decide, AgentEnds
  <2> QED
    BY <1>0, <2>1, KnowsMoved
<1>17. CASE \E v \in Verbs : TakeLock(v)
  <2>1. PICK v \in Verbs : TakeLock(v)
    BY <1>17
  <2>2. UNCHANGED <<record, retry, sup, run>>
        /\ pc' \in {"draining", "run", "reconcile"} /\ retry = NoRequest
    BY <1>0, <2>1, RunOperationsAssumption DEF TakeLock, Placed
  <2>3. RetryKnown' /\ Supervised'
    BY <1>0, <2>2, KnownStands
  <2> QED
    BY <2>2, <2>3 DEF Knows
<1>18. CASE \E what \in Wants, r \in Runs : Ask(what, r)
  <2>1. UNCHANGED <<record, local>>
    BY <1>18 DEF Ask
  <2>2. UNCHANGED <<record, pc, cur, retry, sup, run>>
    BY <2>1 DEF local
  <2> QED
    BY <1>0, <2>2 DEF Knows, RetryKnown, Supervised, Intended, Has, About, LeaseOf
<1> QED
  BY <1>1, <1>2, <1>3, <1>4, <1>5, <1>7, <1>8, <1>9, <1>10, <1>11, <1>12, <1>13, <1>14,
     <1>15, <1>16, <1>17, <1>18 DEF Next, Step

LEMMA InvInit == Init => IInv
<1> SUFFICES ASSUME Init PROVE IInv
  OBVIOUS
<1>1. \A r, k : About(r, k) = {}
  BY DEF Init, About
<1>2. TypeOK
  BY Blanks DEF Init, TypeOK, Places
<1>3. Posted
  BY DEF Init, Posted
<1>4. Placed
  BY DEF Init, Placed, Applying
<1>5. Knows
  BY DEF Init, Knows, RetryKnown, Supervised
<1>6. \A r : LatestAttempt(r) = 0
  BY <1>1, FS_EmptySet DEF LatestAttempt
<1>7. Numbered
  BY <1>1, <1>6 DEF Numbered
<1>8. RecordInv
  BY <1>1, <1>7 DEF RecordInv, LeasesTaken, LeaseHandover, KeysOrdered, OncePerKey,
     OneLaunchPerKey, DecidedUnderLease, StopConfirmedAfterCancelled
<1> QED
  BY <1>2, <1>3, <1>4, <1>5, <1>8 DEF IInv

LEMMA InvStep == IInv /\ [Next]_vars => IInv'
<1> SUFFICES ASSUME IInv, [Next]_vars PROVE IInv'
  OBVIOUS
<1>1. CASE Next
  BY <1>1, TypeStep, PostedStep, PlacedStep, KnowsStep, RecordStep DEF IInv
<1>2. CASE UNCHANGED vars
  <2>1. UNCHANGED <<record, ask, stage, pc, verb, batch, cur, from, retry, sup, run, said>>
    BY <1>2 DEF vars, queue, local
  <2>2. RecordInv'
    BY <2>1, RecordSame DEF IInv
  <2>3. TypeOK' /\ Posted'
    BY <2>1 DEF IInv, TypeOK, Posted, Reads, Asks
  <2>4. Readable' = Readable
    BY <2>1 DEF Readable
  <2>5. Placed'
    BY <2>1, <2>4 DEF IInv, Placed, Reads, Asks
  <2>6. Knows'
    BY <2>1 DEF IInv, Knows, RetryKnown, Supervised, Intended, Has, About, LeaseOf
  <2> QED
    BY <2>2, <2>3, <2>5, <2>6 DEF IInv
<1> QED
  BY <1>1, <1>2

LEMMA Invariance == Spec => []IInv
BY InvInit, InvStep, PTL DEF Spec

\* Every variable keeps its type, for any runs, controllers, keys and bounds.
THEOREM TypeCorrect == Spec => []TypeOK
<1>1. IInv => TypeOK
  BY DEF IInv
<1> QED
  BY <1>1, Invariance, PTL

\* A key is decided once and launches at most one attempt, after its intent,
\* whatever is resent, drained twice or killed in between (operation.rs, rules 1
\* to 3).
THEOREM KeysStayDecided == Spec => []KeysDecided
<1>1. IInv => KeysDecided
  BY KeysOrderedSuffices DEF IInv, RecordInv, KeysDecided
<1> QED
  BY <1>1, Invariance, PTL

\* A lease passes on only after a record ended it, and expires only with every
\* attempt of its run ended.
THEOREM LeasesHandOver == Spec => []LeaseHandover
<1>1. IInv => LeaseHandover
  BY DEF IInv, RecordInv
<1> QED
  BY <1>1, Invariance, PTL

(* ---------------------------------------------------------------------- *)
(* The queue and the record.                                               *)

\* An entry that came of a queued request says what that asked.
AsAsked(e) ==
  LET f == e.req IN f # 0 =>
    /\ stage[f] # "none" /\ ask[f].what # "garbled"
    /\ e.run = ask[f].run
    /\ e.kind \in {"accepted", "stale", "completed"} =>
         ask[f].what = "abort" /\ e.key = ask[f].key
    /\ e.kind = "acquired" => ask[f].what = "acquire"
    /\ e.kind = "ended" =>
         \/ ask[f].what = "release" /\ e.lease = ask[f].lease
         \/ ask[f].what = "break" /\ e.word = "broken"
         \/ ask[f].what = "acquire"

Asked == \A i \in DOMAIN record : AsAsked(record[i])

EntriesOf(f) == {i \in DOMAIN record : record[i].req = f}

Keeps(q) == \E l \in LeaseOf(q.run) : record[l].name = q.name /\ record[l].pid = q.pid

\* Of an acquisition that left entries and is still queued, the lease is free
\* or its own; and its own once it was acquired.
Held ==
  \A f \in Readable : ask[f].what = "acquire" =>
    /\ EntriesOf(f) # {} => LeaseOf(ask[f].run) = {} \/ Keeps(ask[f])
    /\ (\E i \in EntriesOf(f) : record[i].kind = "acquired") => Keeps(ask[f])

\* Only the oldest request that reads can have left entries.
Ahead == \A f, g \in Readable : EntriesOf(f) # {} => f <= g

\* What was queued since the files were listed is younger and left nothing.
Drains ==
  /\ pc \in Applying \cup {"draining"} =>
       \A g \in Readable \ batch : EntriesOf(g) = {} /\ \A f \in batch : f < g
  /\ pc = "own" => \A g \in Readable : EntriesOf(g) = {}

\* Names are given out in order.
Upper == \A f, g \in Requests : stage[f] = "none" /\ f < g => stage[g] = "none"

QueueInv == Asked /\ Held /\ Ahead /\ Drains /\ Upper /\ AppliedOnce

LEMMA EntriesAfter ==
  ASSUME NEW e, NEW n, Grown(e, n), NEW f
  PROVE  /\ e.req = f => EntriesOf(f)' = EntriesOf(f) \cup {n}
         /\ e.req # f => EntriesOf(f)' = EntriesOf(f)
         /\ \A i \in EntriesOf(f) : record'[i] = record[i]
BY DEF Grown, EntriesOf

\* Whoever applies the oldest request listed applies the only one that can have
\* been applied before, and a verb's own comes when none has.
LEMMA Foremost ==
  ASSUME IInv, QueueInv, pc \in Applying
  PROVE  /\ from = 0 => \A f \in Readable : EntriesOf(f) = {}
         /\ from # 0 =>
              /\ from \in Readable
              /\ cur = ask[from]
              /\ from \in batch
              /\ \A f \in Readable : from <= f /\ (EntriesOf(f) # {} => f = from)
<1>1. CASE from = 0
  <2>1. batch = {}
    BY <1>1 DEF IInv, Placed
  <2> QED
    BY <1>1, <2>1 DEF QueueInv, Drains
<1>2. CASE from # 0
  <2>1. from \in batch /\ from = Oldest(batch) /\ batch \subseteq Readable /\ cur = ask[from]
    BY <1>2 DEF IInv, Placed
  <2>2. batch \in SUBSET Requests /\ batch # {}
    BY <2>1 DEF IInv, TypeOK
  <2>3. \A f \in batch : from <= f
    BY <2>1, <2>2, OldestLeast
  <2>4. \A f \in Readable \ batch : EntriesOf(f) = {} /\ from < f
    BY <2>1 DEF QueueInv, Drains
  <2>5. \A f \in Readable : f \in Nat
    BY RunOperationsAssumption DEF Readable, Requests
  <2>6. \A f \in Readable : from <= f
    BY <2>1, <2>3, <2>4, <2>5
  <2>7. \A f \in Readable : EntriesOf(f) # {} => f <= from
    BY <2>1 DEF QueueInv, Ahead
  <2>8. \A f \in Readable : EntriesOf(f) # {} => f = from
    BY <2>1, <2>5, <2>6, <2>7
  <2> QED
    BY <1>2, <2>1, <2>6, <2>8
<1> QED
  BY <1>1, <1>2

LEMMA AskedGrows ==
  ASSUME Asked, NEW e, NEW n, Grown(e, n), AsAsked(e), UNCHANGED queue
  PROVE  Asked'
<1>1. \A i \in DOMAIN record' : record'[i] = e \/ (i \in DOMAIN record /\ record'[i] = record[i])
  BY DEF Grown
<1>2. ask' = ask /\ stage' = stage
  BY DEF queue
<1>3. \A i \in DOMAIN record' : AsAsked(record'[i])
  BY <1>1 DEF Asked
<1> QED
  BY <1>2, <1>3 DEF Asked, AsAsked

LEMMA OnceGrows ==
  ASSUME AppliedOnce, NEW e, NEW n, Grown(e, n),
         e.req # 0 => \A i \in EntriesOf(e.req) : record[i].kind # e.kind
  PROVE  AppliedOnce'
<1>1. \A i \in DOMAIN record' :
        \/ i = n /\ record'[i] = e
        \/ i \in DOMAIN record /\ record'[i] = record[i]
  BY DEF Grown
<1> QED
  BY <1>1 DEF AppliedOnce, EntriesOf

LEMMA ReadableStands ==
  ASSUME UNCHANGED queue
  PROVE  Readable' = Readable /\ ask' = ask /\ stage' = stage
BY DEF queue, Readable

\* An entry that came of no request, and touches no lease, with nobody applying
\* one afterwards.
LEMMA PlainAppend ==
  ASSUME QueueInv, NEW e \in Entries, NEW n, Grown(e, n), e.req = 0,
         e.kind \notin {"acquired", "ended"}, UNCHANGED queue,
         pc' \notin Applying \cup {"draining", "own"}
  PROVE  QueueInv'
<1>1. \A f \in Requests : EntriesOf(f)' = EntriesOf(f) /\ \A i \in EntriesOf(f) : record'[i] = record[i]
  <2>1. \A f \in Requests : f # e.req
    BY DEF Requests
  <2> QED
    BY <2>1, EntriesAfter
<1>2. Readable' = Readable /\ ask' = ask /\ stage' = stage /\ Readable \subseteq Requests
  BY ReadableStands DEF Readable
<1>3. Asked'
  BY AskedGrows DEF QueueInv, AsAsked
<1>4. AppliedOnce'
  BY OnceGrows DEF QueueInv
<1>5. \A r : LeaseOf(r)' = LeaseOf(r)
  BY LeaseOfSame
<1>6. \A r : \A l \in LeaseOf(r) : record'[l] = record[l]
  BY DEF Grown, LeaseOf, About
<1>7. Held'
  BY <1>1, <1>2, <1>5, <1>6 DEF QueueInv, Held, Keeps
<1>8. Ahead' /\ Upper'
  BY <1>1, <1>2 DEF QueueInv, Ahead, Upper
<1>9. Drains'
  BY DEF Drains, Applying
<1> QED
  BY <1>3, <1>4, <1>7, <1>8, <1>9 DEF QueueInv

\* An entry about the request in hand.
LEMMA OwnAppend ==
  ASSUME IInv, QueueInv, pc \in Applying, NEW e \in Entries, NEW n, Grown(e, n),
         e.req = from, UNCHANGED queue, NEW s \in Applying, Goto(s), AsAsked(e),
         from # 0 => \A i \in EntriesOf(from) : record[i].kind # e.kind,
         Held'
  PROVE  QueueInv'
<1>1. \A f \in Requests : f # from => EntriesOf(f)' = EntriesOf(f)
  BY EntriesAfter
<1>2. Readable' = Readable /\ ask' = ask /\ stage' = stage /\ Readable \subseteq Requests
  BY ReadableStands DEF Readable
<1>3. Asked'
  BY AskedGrows DEF QueueInv
<1>4. AppliedOnce'
  BY OnceGrows DEF QueueInv
<1>5. 0 \notin Requests
  BY DEF Requests
<1>6. Upper'
  BY <1>2 DEF QueueInv, Upper
<1>7. Ahead'
  <2>1. CASE from = 0
    BY <1>1, <1>2, <1>5, <2>1 DEF QueueInv, Ahead
  <2>2. CASE from # 0
    BY <1>1, <1>2, <2>2, Foremost DEF QueueInv, Ahead
  <2> QED
    BY <2>1, <2>2
<1>8. Drains'
  <2>1. pc' = s /\ batch' = batch
    BY DEF Goto
  <2>2. pc' # "own"
    BY <2>1 DEF Applying
  <2>3. \A g \in Readable \ batch : EntriesOf(g) = {} /\ \A f \in batch : f < g
    BY DEF QueueInv, Drains
  <2>4. \A g \in Readable \ batch : g # from
    <3>1. from # 0 => from \in batch
      BY Foremost
    <3> QED
      BY <1>2, <1>5, <3>1
  <2>5. \A g \in Readable' \ batch' : EntriesOf(g)' = {} /\ \A f \in batch' : f < g
    BY <1>1, <1>2, <2>1, <2>3, <2>4
  <2> QED
    BY <2>2, <2>5 DEF Drains
<1> QED
  BY <1>3, <1>4, <1>6, <1>7, <1>8 DEF QueueInv

LEMMA HeldDecision ==
  ASSUME QueueInv, NEW e, NEW n, Grown(e, n), UNCHANGED queue,
         e.kind \notin {"acquired", "ended"},
         e.req = 0 \/ ask[e.req].what # "acquire"
  PROVE  Held'
<1>1. \A f \in Requests : f # e.req => EntriesOf(f)' = EntriesOf(f)
  BY EntriesAfter
<1>2. \A f : \A i \in EntriesOf(f) : record'[i] = record[i]
  BY EntriesAfter
<1>3. Readable' = Readable /\ ask' = ask /\ Readable \subseteq Requests /\ 0 \notin Requests
  BY ReadableStands DEF Readable, Requests
<1>4. \A r : LeaseOf(r)' = LeaseOf(r)
  BY LeaseOfSame
<1>5. \A r : \A l \in LeaseOf(r) : record'[l] = record[l]
  BY DEF Grown, LeaseOf, About
<1>6. ASSUME NEW f \in Readable, ask[f].what = "acquire"
      PROVE  /\ EntriesOf(f)' = EntriesOf(f)
             /\ \A i \in EntriesOf(f) : record'[i] = record[i]
             /\ LeaseOf(ask[f].run)' = LeaseOf(ask[f].run)
             /\ (\E l \in LeaseOf(ask[f].run) :
                   record[l].name = ask[f].name /\ record[l].pid = ask[f].pid) =>
                 \E l \in LeaseOf(ask[f].run) :
                   record'[l].name = ask[f].name /\ record'[l].pid = ask[f].pid
  BY <1>1, <1>2, <1>3, <1>4, <1>5, <1>6
<1> QED
  BY <1>3, <1>4, <1>6 DEF QueueInv, Held, Keeps

LEMMA HeldLease ==
  ASSUME IInv, QueueInv, pc \in Applying, NEW e, NEW n, Grown(e, n), e.req = from,
         UNCHANGED queue, NEW q, q = cur,
         from # 0 /\ q.what = "acquire" =>
           \/ /\ LeaseOf(q.run)' = {}
              /\ e.kind # "acquired"
              /\ \A i \in EntriesOf(from) : record[i].kind # "acquired"
           \/ LeaseOf(q.run)' = {n} /\ e.name = q.name /\ e.pid = q.pid
  PROVE  Held'
<1>1. Readable' = Readable /\ ask' = ask
  BY ReadableStands
<1>2. PICK f : f = from
  OBVIOUS
<1>3. \A g : g # f => EntriesOf(g)' = EntriesOf(g)
  BY <1>2, EntriesAfter
<1>4. 0 \notin Readable
  BY DEF Readable, Requests
<1>5. \A g \in Readable : EntriesOf(g)' # {} => g = f /\ f # 0
  <2>1. CASE from = 0
    BY <1>2, <1>3, <1>4, <2>1, Foremost
  <2>2. CASE from # 0
    BY <1>2, <1>3, <2>2, Foremost
  <2> QED
    BY <2>1, <2>2
<1>6. f # 0 => q = ask[f]
  BY <1>2, Foremost
<1>7. ASSUME f # 0, q.what = "acquire"
      PROVE  /\ LeaseOf(q.run)' = {} \/ Keeps(q)'
             /\ (\E i \in EntriesOf(f)' : record'[i].kind = "acquired") => Keeps(q)'
  <2>1. CASE /\ LeaseOf(q.run)' = {}
             /\ e.kind # "acquired"
             /\ \A i \in EntriesOf(from) : record[i].kind # "acquired"
    <3>1. EntriesOf(f)' = EntriesOf(f) \cup {n} /\ record'[n] = e
          /\ \A i \in EntriesOf(f) : record'[i] = record[i]
      BY <1>2, EntriesAfter DEF Grown
    <3> QED
      BY <1>2, <2>1, <3>1
  <2>2. CASE LeaseOf(q.run)' = {n} /\ e.name = q.name /\ e.pid = q.pid
    <3>1. record'[n] = e
      BY DEF Grown
    <3> QED
      BY <2>2, <3>1 DEF Keeps
  <2> QED
    BY <1>2, <1>7, <2>1, <2>2
<1>8. ASSUME NEW g \in Readable, ask[g].what = "acquire"
      PROVE  /\ EntriesOf(g)' # {} => LeaseOf(ask[g].run)' = {} \/ Keeps(ask[g])'
             /\ (\E i \in EntriesOf(g)' : record'[i].kind = "acquired") => Keeps(ask[g])'
  <2>1. CASE EntriesOf(g)' = {}
    BY <2>1
  <2>2. CASE EntriesOf(g)' # {}
    <3>1. g = f /\ f # 0 /\ q = ask[g] /\ q = ask'[g]
      BY <1>1, <1>5, <1>6, <2>2
    <3>2. /\ LeaseOf(q.run)' = {} \/ Keeps(q)'
          /\ (\E i \in EntriesOf(g)' : record'[i].kind = "acquired") => Keeps(q)'
      BY <1>7, <1>8, <3>1
    <3>3. LeaseOf(ask[g].run)' = LeaseOf(q.run)' /\ Keeps(ask[g])' = Keeps(q)'
      BY <3>1 DEF Keeps, LeaseOf, About
    <3> QED
      BY <3>2, <3>3
  <2> QED
    BY <2>1, <2>2
<1> QED
  BY <1>1, <1>8 DEF Held

\* A decision, or a stop's request, on the request in hand.
LEMMA DecisionQueued ==
  ASSUME IInv, QueueInv, pc \in Applying, NEW e \in Entries, Add(e), UNCHANGED queue,
         e.kind \in {"accepted", "stale", "completed"}, e.run = cur.run, e.key = cur.key,
         cur.what \in Operations, e.req = from, NEW s \in Applying, Goto(s),
         ~ Has(e.kind, cur.run, cur.key)
  PROVE  QueueInv'
<1>1. TypeOK
  BY DEF IInv
<1>2. PICK n \in Nat : Grown(e, n)
  BY <1>1, OneGrown
<1>3. from # 0 => from \in Requests /\ cur = ask[from] /\ stage[from] # "none"
                  /\ ask[from].what # "garbled" /\ ask[from].what = "abort"
  <2>1. SUFFICES ASSUME from # 0
                 PROVE  from \in Requests /\ cur = ask[from] /\ stage[from] # "none"
                        /\ ask[from].what # "garbled" /\ ask[from].what = "abort"
    OBVIOUS
  <2>2. from \in Readable /\ cur = ask[from]
    BY <2>1, Foremost
  <2>3. ask[from].what \in {"abort"} \cup Acts
    BY <2>2 DEF IInv, Posted, Readable
  <2> QED
    BY <2>2, <2>3 DEF Readable, Operations, Acts
<1>4. AsAsked(e)
  BY <1>3 DEF AsAsked
<1>5. from # 0 => \A i \in EntriesOf(from) : record[i].kind # e.kind
  <2>1. SUFFICES ASSUME from # 0, NEW i \in EntriesOf(from), record[i].kind = e.kind
                 PROVE  FALSE
    OBVIOUS
  <2>2. i \in DOMAIN record /\ record[i].req = from
    BY <2>1 DEF EntriesOf
  <2>3. AsAsked(record[i])
    BY <2>2 DEF QueueInv, Asked
  <2>4. record[i].run = cur.run /\ record[i].key = cur.key
    BY <1>3, <2>1, <2>2, <2>3 DEF AsAsked
  <2> QED
    BY <2>1, <2>2, <2>4 DEF Has, About
<1>6. Held'
  BY <1>2, <1>3, HeldDecision
<1> QED
  BY <1>2, <1>4, <1>5, <1>6, OwnAppend

\* The end of a lease, recorded for the request in hand.
LEMMA EndingQueued ==
  ASSUME IInv, QueueInv, pc \in Applying, Reads(cur), NEW l \in LeaseOf(cur.run),
         NEW w \in {"expired", "released", "broken"}, Add(Ending(l, w)),
         UNCHANGED queue, NEW s \in Applying, Goto(s),
         \/ w = "expired" /\ cur.what = "acquire" /\ ~ KeepsLease
         \/ w = "released" /\ cur.what = "release" /\ l = cur.lease
         \/ w = "broken" /\ cur.what = "break" /\ ~ BreakRecorded
  PROVE  QueueInv'
<1>0. TypeOK
  BY DEF IInv
<1>1. l \in Nat
  <2>1. Len(record) \in Nat /\ DOMAIN record = 1 .. Len(record)
    BY <1>0 DEF TypeOK
  <2> QED
    BY <2>1 DEF LeaseOf, About
<1>2. PICK e \in Entries : e = Ending(l, w) /\ e.kind = "ended" /\ e.run = cur.run
        /\ e.lease = l /\ e.word = w /\ e.req = from
  BY <1>0, <1>1, EndingFields DEF Words
<1>3. PICK n \in Nat : Grown(e, n)
  BY <1>0, <1>2, OneGrown
<1>4. PICK q : q = cur
  OBVIOUS
<1>5. LeaseOf(q.run)' = {}
  BY <1>2, <1>3, <1>4, LeaseOfEnded
<1>6. from # 0 => from \in Readable /\ q = ask[from] /\ stage[from] # "none"
                  /\ ask[from].what # "garbled"
  BY <1>4, Foremost DEF Readable
<1>7. AsAsked(e)
  BY <1>2, <1>4, <1>6 DEF AsAsked
<1>8. ASSUME from # 0, NEW i \in EntriesOf(from)
      PROVE  /\ record[i].kind # "ended"
             /\ cur.what = "acquire" => record[i].kind # "acquired"
  <2>1. i \in DOMAIN record /\ record[i].req = from
    BY <1>8 DEF EntriesOf
  <2>2. AsAsked(record[i])
    BY <2>1 DEF QueueInv, Asked
  <2>3. record[i].run = q.run
    BY <1>6, <1>8, <2>1, <2>2 DEF AsAsked
  <2>4. CASE w = "expired"
    <3>1. cur.what = "acquire" /\ ~ KeepsLease
      BY <2>4
    <3>2. ~ Keeps(q)
      BY <1>4, <3>1 DEF KeepsLease, Keeps
    <3>3. LeaseOf(q.run) # {}
      BY <1>4
    <3> QED
      BY <1>4, <1>6, <1>8, <3>1, <3>2, <3>3 DEF QueueInv, Held
  <2>5. CASE w = "released"
    <3>1. cur.what = "release" /\ l = cur.lease
      BY <2>5
    <3>2. record[i].kind = "ended" => record[i].lease = l
      BY <1>4, <1>6, <1>8, <2>1, <2>2, <3>1 DEF AsAsked
    <3>3. record[i].kind = "ended" => i \in About(q.run, "ended")
      BY <2>1, <2>3 DEF About
    <3>4. record[i].kind # "ended"
      BY <1>4, <3>2, <3>3 DEF LeaseOf
    <3> QED
      BY <3>1, <3>4
  <2>6. CASE w = "broken"
    <3>1. cur.what = "break" /\ ~ BreakRecorded
      BY <2>6
    <3>2. record[i].kind = "ended" => record[i].word = "broken"
      BY <1>4, <1>6, <1>8, <2>1, <2>2, <3>1 DEF AsAsked
    <3>3. record[i].word # "broken"
      BY <1>8, <2>1, <3>1 DEF BreakRecorded
    <3> QED
      BY <3>1, <3>2, <3>3
  <2> QED
    BY <2>4, <2>5, <2>6
<1>9. Held'
  BY <1>2, <1>3, <1>4, <1>5, <1>8, HeldLease
<1> QED
  BY <1>2, <1>3, <1>7, <1>8, <1>9, OwnAppend

LEMMA AcquireQueued ==
  ASSUME IInv, QueueInv, Acquire
  PROVE  QueueInv'
<1>0. TypeOK /\ LeasesTaken
  BY DEF IInv, RecordInv
<1>1. /\ pc \in Applying /\ Reads(cur) /\ cur.what = "acquire" /\ LeaseOf(cur.run) = {}
      /\ Goto("applied") /\ UNCHANGED queue /\ Add(TheLease)
  BY DEF Acquire, TheLease, IInv, Placed, Knows, Applying
<1>2. PICK e \in Entries : e = TheLease /\ e.kind = "acquired" /\ e.run = cur.run
        /\ e.name = cur.name /\ e.pid = cur.pid /\ e.req = from
  BY <1>0, <1>1, LeaseFields
<1>3. PICK n \in Nat : Grown(e, n)
  BY <1>0, <1>1, <1>2, OneGrown
<1>4. PICK q : q = cur
  OBVIOUS
<1>5. LeaseOf(q.run)' = {n}
  BY <1>0, <1>1, <1>2, <1>3, <1>4, LeaseOfAcquired DEF Reads
<1>6. from # 0 => from \in Readable /\ q = ask[from] /\ stage[from] # "none"
                  /\ ask[from].what # "garbled"
  BY <1>1, <1>4, Foremost DEF Readable
<1>7. AsAsked(e)
  BY <1>1, <1>2, <1>4, <1>6 DEF AsAsked
<1>8. ASSUME from # 0, NEW i \in EntriesOf(from)
      PROVE  record[i].kind # "acquired"
  BY <1>1, <1>4, <1>6, <1>8 DEF QueueInv, Held, Keeps
<1>9. Held'
  BY <1>1, <1>2, <1>3, <1>4, <1>5, HeldLease
<1> QED
  BY <1>1, <1>2, <1>3, <1>7, <1>8, <1>9, OwnAppend DEF Applying

\* A step that leaves the record and the queue alone.
LEMMA QueueMoved ==
  ASSUME QueueInv, UNCHANGED record, UNCHANGED queue, Drains'
  PROVE  QueueInv'
<1>1. Readable' = Readable /\ ask' = ask /\ stage' = stage
  BY ReadableStands
<1>2. Asked' /\ Upper' /\ AppliedOnce'
  BY <1>1 DEF QueueInv, Asked, AsAsked, Upper, AppliedOnce
<1>3. \A f : EntriesOf(f)' = EntriesOf(f)
  BY DEF EntriesOf
<1>4. \A r : LeaseOf(r)' = LeaseOf(r)
  BY RecordStands
<1>5. Held'
  BY <1>1, <1>3, <1>4 DEF QueueInv, Held, Keeps
<1>6. Ahead'
  BY <1>1, <1>3 DEF QueueInv, Ahead
<1> QED
  BY <1>2, <1>5, <1>6 DEF QueueInv

LEMMA AskQueued ==
  ASSUME IInv, QueueInv, NEW what \in Wants, NEW r \in Runs, Ask(what, r)
  PROVE  QueueInv'
<1>0. TypeOK /\ Posted
  BY DEF IInv
<1>1. PICK f \in Unused :
        /\ \A g \in Requests \ {f} : ask'[g] = ask[g] /\ stage'[g] = stage[g]
        /\ stage'[f] = "queued"
        /\ \A g \in Unused : f <= g
  BY <1>0, Asking
<1>2. f \in Requests /\ stage[f] = "none"
  BY DEF Unused
<1>3. record' = record /\ pc' = pc /\ batch' = batch
  BY DEF Ask, local
<1>4. \A g : EntriesOf(g)' = EntriesOf(g)
  BY <1>3 DEF EntriesOf
<1>5. \A r1 : LeaseOf(r1)' = LeaseOf(r1)
  BY <1>3, RecordStands
<1>6. EntriesOf(f) = {}
  BY <1>2 DEF QueueInv, Asked, AsAsked, EntriesOf, Requests
<1>7. \A g \in Readable : g # f /\ g \in Requests /\ g <= f
  <2>1. \A g \in Readable : g # f /\ g \in Requests /\ ~ (f < g)
    BY <1>2 DEF Readable, QueueInv, Upper
  <2> QED
    BY <1>2, <2>1, RunOperationsAssumption DEF Requests
<1>8. \A g \in Readable' : g = f \/ (g \in Readable /\ ask'[g] = ask[g])
  BY <1>1 DEF Readable
<1>9. Asked'
  <2>1. \A i \in DOMAIN record : record[i].req # 0 =>
          LET g == record[i].req IN ask'[g] = ask[g] /\ stage'[g] = stage[g]
    <3>1. SUFFICES ASSUME NEW i \in DOMAIN record, NEW g, g = record[i].req, g # 0
                   PROVE  ask'[g] = ask[g] /\ stage'[g] = stage[g]
      OBVIOUS
    <3>2. g \in Requests
      BY <1>0, <3>1, EntryAt DEF Entries
    <3>3. stage[g] # "none"
      BY <3>1 DEF QueueInv, Asked, AsAsked
    <3> QED
      BY <1>1, <1>2, <3>2, <3>3
  <2> QED
    BY <1>3, <2>1 DEF QueueInv, Asked, AsAsked
<1>10. Held'
  <2>1. ASSUME NEW g \in Readable', NEW q, q = ask'[g], q.what = "acquire"
        PROVE  /\ EntriesOf(g) # {} => LeaseOf(q.run) = {} \/ Keeps(q)
               /\ (\E i \in EntriesOf(g) : record[i].kind = "acquired") => Keeps(q)
    <3>1. CASE g = f
      BY <1>6, <3>1
    <3>2. CASE g \in Readable /\ q = ask[g]
      BY <2>1, <3>2 DEF QueueInv, Held
    <3> QED
      BY <1>8, <2>1, <3>1, <3>2
  <2>2. SUFFICES ASSUME NEW g \in Readable', ask'[g].what = "acquire"
                 PROVE  /\ EntriesOf(g)' # {} => LeaseOf(ask[g].run)' = {} \/ Keeps(ask[g])'
                        /\ (\E i \in EntriesOf(g)' : record'[i].kind = "acquired") =>
                             Keeps(ask[g])'
    BY DEF Held
  <2>3. PICK q : q = ask'[g]
    OBVIOUS
  <2>4. LeaseOf(ask[g].run)' = LeaseOf(q.run) /\ Keeps(ask[g])' = Keeps(q)
    BY <1>3, <2>3 DEF LeaseOf, About, Keeps
  <2> QED
    BY <1>3, <1>4, <2>1, <2>2, <2>3, <2>4
<1>11. Ahead'
  BY <1>4, <1>6, <1>7, <1>8 DEF QueueInv, Ahead
<1>12. Drains'
  <2>1. pc = "own" => \A g \in Readable' : EntriesOf(g) = {}
    BY <1>6, <1>8 DEF QueueInv, Drains
  <2>2. ASSUME pc \in Applying \cup {"draining"}, NEW g \in Readable' \ batch
        PROVE  EntriesOf(g) = {} /\ \A h \in batch : h < g
    <3>1. CASE g = f
      <4>1. batch \subseteq Readable
        BY <2>2 DEF IInv, Placed
      <4> QED
        BY <1>2, <1>6, <1>7, <3>1, <4>1, RunOperationsAssumption DEF Requests
    <3>2. CASE g \in Readable
      BY <2>2, <3>2 DEF QueueInv, Drains
    <3> QED
      BY <1>8, <3>1, <3>2
  <2> QED
    BY <1>3, <1>4, <2>1, <2>2 DEF Drains
<1>13. Upper'
  <2>1. SUFFICES ASSUME NEW a \in Requests, NEW b \in Requests, stage'[a] = "none", a < b
                 PROVE  stage'[b] = "none"
    BY DEF Upper
  <2>2. a # f /\ stage[a] = "none"
    BY <1>1, <2>1
  <2>3. stage[b] = "none"
    BY <2>1, <2>2 DEF QueueInv, Upper
  <2>4. b # f
    <3>1. a \in Unused
      BY <2>1, <2>2 DEF Unused
    <3>2. f <= a
      BY <1>1, <3>1
    <3> QED
      BY <2>1, <3>2, RunOperationsAssumption DEF Requests
  <2> QED
    BY <1>1, <2>3, <2>4
<1>14. AppliedOnce'
  BY <1>3 DEF QueueInv, AppliedOnce
<1> QED
  BY <1>9, <1>10, <1>11, <1>12, <1>13, <1>14 DEF QueueInv

LEMMA RemovedQueued ==
  ASSUME IInv, QueueInv, Applied, from # 0
  PROVE  QueueInv'
<1>1. /\ pc = "applied" /\ stage' = [stage EXCEPT ![from] = "gone"]
      /\ batch' = batch \ {from} /\ pc' = "draining" /\ record' = record /\ ask' = ask
  BY DEF Applied
<1>2. from \in batch /\ from \in Requests /\ batch \subseteq Readable
  BY <1>1 DEF IInv, Placed, Applying, TypeOK
<1>3. \A g : EntriesOf(g)' = EntriesOf(g)
  BY <1>1 DEF EntriesOf
<1>4. \A r : LeaseOf(r)' = LeaseOf(r)
  BY <1>1, RecordStands
<1>5. stage[from] # "none" /\ stage'[from] # "none"
      /\ \A g \in Requests \ {from} : stage'[g] = stage[g]
  BY <1>1, <1>2 DEF Readable, IInv, TypeOK
<1>6. Readable' = Readable \ {from}
  BY <1>1, <1>2, <1>5 DEF Readable, IInv, TypeOK
<1>7. Asked'
  <2>1. \A i \in DOMAIN record : record[i].req # 0 => record[i].req \in Requests
    BY EntryAt DEF IInv, Entries
  <2> QED
    BY <1>1, <1>5, <2>1 DEF QueueInv, Asked, AsAsked
<1>8. Held'
  BY <1>1, <1>3, <1>4, <1>6 DEF QueueInv, Held, Keeps
<1>9. Ahead'
  BY <1>1, <1>3, <1>6 DEF QueueInv, Ahead
<1>10. Drains'
  BY <1>1, <1>2, <1>3, <1>6 DEF QueueInv, Drains, Applying
<1>11. Upper'
  BY <1>5 DEF QueueInv, Upper
<1>12. AppliedOnce'
  BY <1>1 DEF QueueInv, AppliedOnce
<1> QED
  BY <1>7, <1>8, <1>9, <1>10, <1>11, <1>12 DEF QueueInv

LEMMA QueueStep ==
  ASSUME IInv, QueueInv, Next
  PROVE  QueueInv'
<1>0. TypeOK /\ Placed /\ Knows /\ RecordInv
  BY DEF IInv
<1>1. CASE \E what \in Wants, r \in Runs : Ask(what, r)
  BY <1>1, AskQueued
<1>2. CASE Applied
  <2>1. CASE from # 0
    BY <1>2, <2>1, RemovedQueued
  <2>2. CASE from = 0
    <3>1. pc' = "free" /\ UNCHANGED record /\ UNCHANGED queue
      BY <1>2, <2>2 DEF Applied, Release, queue
    <3> QED
      BY <3>1, QueueMoved DEF Drains, Applying
  <2> QED
    BY <2>1, <2>2
<1>3. CASE Accept \/ RefuseStale
  <2>1. /\ pc \in Applying /\ UNCHANGED queue /\ ~ KeyHeld(cur) /\ cur.what \in Operations
        /\ Reads(cur)
        /\ \E k \in {"accepted", "stale"}, s \in {"accepted", "applied"} :
             Add(Entry(k)) /\ Goto(s)
    BY <1>0, <1>3 DEF Accept, RefuseStale, Applying, Placed
  <2>2. PICK k \in {"accepted", "stale"}, s \in {"accepted", "applied"} :
          Add(Entry(k)) /\ Goto(s)
    BY <2>1
  <2>3. /\ Entry(k) \in Entries /\ Entry(k).kind = k /\ Entry(k).run = cur.run
        /\ Entry(k).key = cur.key /\ Entry(k).req = from
    BY <1>0, <2>1, EntryFields DEF Kinds
  <2>4. ~ Has(k, cur.run, cur.key)
    BY <2>1 DEF KeyHeld, Has
  <2>5. PICK e \in Entries : e = Entry(k)
    BY <2>3
  <2> QED
    BY <2>1, <2>2, <2>3, <2>4, <2>5, DecisionQueued DEF Applying
<1>4. CASE RequestStop
  <2>1. /\ pc \in Applying /\ UNCHANGED queue /\ cur.what = "abort" /\ Reads(cur)
        /\ Goto("applied") /\ Add(TheStop) /\ ~ Has("completed", cur.run, cur.key)
    BY <1>0, <1>4 DEF RequestStop, TheStop, Applying, Placed, Knows
  <2>2. PICK e \in Entries : e = TheStop /\ e.kind = "completed" /\ e.run = cur.run
          /\ e.key = cur.key /\ e.req = from
    BY <1>0, <2>1, StopFields
  <2> QED
    BY <2>1, <2>2, DecisionQueued DEF Applying, Operations
<1>5. CASE Expire
  <2>1. /\ pc \in Applying /\ Reads(cur) /\ cur.what = "acquire" /\ ~ KeepsLease
        /\ UNCHANGED queue /\ Goto("acquiring")
    BY <1>0, <1>5 DEF Expire, Expirable, Placed, Applying
  <2>2. PICK l \in LeaseOf(cur.run) : Add(Ending(l, "expired"))
    BY <1>5 DEF Expire
  <2> QED
    BY <2>1, <2>2, EndingQueued DEF Applying
<1>6. CASE Acquire
  BY <1>6, AcquireQueued
<1>7. ASSUME UNCHANGED record, UNCHANGED queue, UNCHANGED batch,
             pc' \in Applying \cup {"draining"} => pc \in Applying \cup {"draining"},
             pc' # "own"
      PROVE  QueueInv'
  <2>1. Readable' = Readable
    BY <1>7, ReadableStands
  <2>2. \A g : EntriesOf(g)' = EntriesOf(g)
    BY <1>7 DEF EntriesOf
  <2>3. Drains'
    BY <1>7, <2>1, <2>2 DEF QueueInv, Drains
  <2> QED
    BY <1>7, <2>3, QueueMoved
<1>8. ASSUME UNCHANGED record, UNCHANGED queue,
             pc' \notin Applying \cup {"draining", "own"}
      PROVE  QueueInv'
  BY <1>8, QueueMoved DEF Drains
<1>9. CASE ReleaseLease
  <2>1. pc \in Applying /\ Reads(cur) /\ cur.what = "release" /\ UNCHANGED queue
        /\ Goto("applied")
    BY <1>0, <1>9 DEF ReleaseLease, Refuse, Placed, Applying
  <2>2. CASE LeaseFits(cur)
    <3>1. cur.lease \in LeaseOf(cur.run) /\ Add(Ending(cur.lease, "released"))
      BY <1>9, <2>2 DEF ReleaseLease, LeaseFits
    <3> QED
      BY <2>1, <3>1, EndingQueued DEF Applying
  <2>3. CASE ~ LeaseFits(cur)
    <3>1. UNCHANGED record
      BY <1>9, <2>3 DEF ReleaseLease, Refuse
    <3> QED
      BY <1>7, <2>1, <3>1 DEF Goto, Applying
  <2> QED
    BY <2>2, <2>3
<1>10. CASE BreakLease
  <2>1. pc \in Applying /\ Reads(cur) /\ cur.what = "break" /\ UNCHANGED queue
        /\ Goto("applied")
    BY <1>0, <1>10 DEF BreakLease, Refuse, Placed, Applying
  <2>2. CASE LeaseOf(cur.run) # {} /\ ~ BreakRecorded
    <3>1. PICK l \in LeaseOf(cur.run) : Add(Ending(l, "broken"))
      BY <1>10, <2>2 DEF BreakLease
    <3> QED
      BY <2>1, <2>2, <3>1, EndingQueued DEF Applying
  <2>3. CASE ~ (LeaseOf(cur.run) # {} /\ ~ BreakRecorded)
    <3>1. UNCHANGED record
      BY <1>10, <2>3 DEF BreakLease, Refuse
    <3> QED
      BY <1>7, <2>1, <3>1 DEF Goto, Applying
  <2> QED
    BY <2>2, <2>3
<1>11. ASSUME NEW e \in Entries, Add(e), e.req = 0, e.kind \notin {"acquired", "ended"},
              UNCHANGED queue, pc' \notin Applying \cup {"draining", "own"}
       PROVE  QueueInv'
  BY <1>0, <1>11, OneGrown, PlainAppend
<1>12. Over => pc' \notin Applying \cup {"draining", "own"}
  BY DEF Over, Release, Goto, Applying
<1>13. CASE CompleteRetry
  <2>1. Reads(retry) /\ retry.what = "retry" /\ Add(TheLaunched) /\ UNCHANGED queue
        /\ pc' = "free"
    BY <1>0, <1>13 DEF CompleteRetry, TheLaunched, Placed, Release
  <2> QED
    BY <1>0, <1>11, <2>1, LaunchedFields DEF Applying
<1>14. CASE Launch
  <2>1. PICK r \in IF retry # NoRequest THEN {retry.run} ELSE Runs : Add(TheIntent(r))
    BY <1>14 DEF Launch, TheIntent
  <2>2. r \in Runs
    BY <1>0, <2>1 DEF Placed, Reads
  <2>3. pc' = "supervising" /\ UNCHANGED queue
    BY <1>14 DEF Launch
  <2> QED
    BY <1>0, <1>11, <2>1, <2>2, <2>3, IntentFields DEF Applying
<1>15. CASE Conclude
  <2>1. PICK w \in {said, "refused", "interrupted"} :
          /\ Add(TheOutcome(run, sup, w))
          /\ Goto("confirming") \/ Over
    BY <1>15 DEF Conclude, TheOutcome
  <2>2. w \in Words /\ sup \in Nat
    BY <1>0 DEF TypeOK, Words
  <2>3. run \in Runs /\ UNCHANGED queue
    BY <1>0, <1>15 DEF Conclude, Placed, Knows, Supervised
  <2>4. pc' \notin Applying \cup {"draining", "own"}
    BY <1>12, <2>1 DEF Goto, Applying
  <2> QED
    BY <1>11, <2>1, <2>2, <2>3, <2>4, OutcomeFields
<1>16. CASE Reconcile
  <2>1. pc' = "free" /\ UNCHANGED queue
    BY <1>16 DEF Reconcile, Release
  <2>2. CASE UNCHANGED record
    BY <1>8, <2>1, <2>2 DEF Applying
  <2>3. CASE record' # record
    <3>1. PICK r \in Runs : \E m \in Live(r) : Add(TheOutcome(r, m, "interrupted"))
      BY <1>16, <2>3 DEF Reconcile, TheOutcome
    <3>2. PICK m \in Live(r) : Add(TheOutcome(r, m, "interrupted"))
      BY <3>1
    <3>3. m \in Nat /\ "interrupted" \in Words
      BY <1>0, LatestType DEF Live, Words
    <3> QED
      BY <1>11, <2>1, <3>2, <3>3, OutcomeFields DEF Applying
  <2> QED
    BY <2>2, <2>3
<1>17. CASE ConfirmStop
  <2>1. Over \/ Goto("confirming")
    BY <1>17 DEF ConfirmStop
  <2>2. pc' \notin Applying \cup {"draining", "own"} /\ UNCHANGED queue
    BY <1>12, <1>17, <2>1 DEF Goto, Applying, ConfirmStop
  <2>3. CASE UNCHANGED record
    BY <1>8, <2>2, <2>3
  <2>4. CASE record' # record
    <3>1. PICK k \in StopsOf(run, sup) : Add(TheStopped(k))
      BY <1>17, <2>4 DEF ConfirmStop, TheStopped
    <3>2. run \in Runs
      BY <1>0, <1>17 DEF ConfirmStop, Placed, Knows, Supervised
    <3>3. k \in Keys \cup {Nothing}
      <4>1. PICK a \in About(run, "accepted") : k = record[a].key
        BY DEF StopsOf
      <4>2. a \in DOMAIN record
        BY Recorded
      <4> QED
        BY <1>0, <4>1, <4>2, EntryAt DEF Entries
    <3> QED
      BY <1>0, <1>11, <2>2, <3>1, <3>2, <3>3, StoppedFields
  <2> QED
    BY <2>3, <2>4
<1>18. CASE TurnAway \/ AcquireRefused
  <2>1. UNCHANGED record /\ UNCHANGED queue /\ Goto("applied") /\ pc \in Applying
    BY <1>18 DEF TurnAway, AcquireRefused, Refuse, Applying
  <2> QED
    BY <1>7, <2>1 DEF Goto, Applying
<1>19. CASE TakeRequest
  BY <1>7, <1>19 DEF TakeRequest, Applying
<1>20. CASE Drained
  <2>1. /\ pc = "draining" /\ batch = {} /\ UNCHANGED record /\ UNCHANGED queue
        /\ pc' \in {"own", "deciding"}
    BY <1>20 DEF Drained, Goto
  <2>2. \A g \in Readable : EntriesOf(g) = {}
    BY <2>1 DEF QueueInv, Drains
  <2>3. Readable' = Readable /\ \A g : EntriesOf(g)' = EntriesOf(g)
    BY <2>1, ReadableStands DEF EntriesOf
  <2>4. Drains'
    BY <2>1, <2>2, <2>3 DEF Drains, Applying
  <2> QED
    BY <2>1, <2>4, QueueMoved
<1>21. CASE OwnRequest
  <2>1. /\ pc = "own" /\ pc' = "applying" /\ UNCHANGED <<record, batch>> /\ UNCHANGED queue
    BY <1>21 DEF OwnRequest
  <2>2. batch = {}
    BY <1>0, <2>1 DEF Placed
  <2>3. Readable' = Readable /\ \A g : EntriesOf(g)' = EntriesOf(g)
    BY <2>1, ReadableStands DEF EntriesOf
  <2>4. Drains'
    BY <2>1, <2>2, <2>3 DEF QueueInv, Drains, Applying
  <2> QED
    BY <2>1, <2>4, QueueMoved
<1>22. ASSUME UNCHANGED record, UNCHANGED queue, batch' = Readable, pc' = "draining"
       PROVE  QueueInv'
  <2>1. Drains'
    BY <1>22, ReadableStands DEF Drains
  <2> QED
    BY <1>22, <2>1, QueueMoved
<1>23. CASE Poll
  BY <1>22, <1>23 DEF Poll
<1>24. CASE \E v \in Verbs : TakeLock(v)
  <2>1. PICK v \in Verbs : TakeLock(v)
    BY <1>24
  <2>2. CASE v \in {"op", "lease"}
    BY <1>22, <2>1, <2>2 DEF TakeLock
  <2>3. CASE v \in {"run", "reconcile"}
    BY <1>8, <2>1, <2>3 DEF TakeLock, Applying
  <2> QED
    BY <2>2, <2>3, RunOperationsAssumption
<1>25. CASE RemoveFails \/ StartRetry \/ LaunchRefused \/ LeaveLive \/ Decide \/ AgentEnds
            \/ Crash
  <2>1. UNCHANGED record /\ UNCHANGED queue
    BY <1>25 DEF RemoveFails, StartRetry, LaunchRefused, LeaveLive, Decide, AgentEnds, Crash
  <2>2. pc' \notin Applying \cup {"draining", "own"}
    BY <1>12, <1>25 DEF RemoveFails, StartRetry, LaunchRefused, LeaveLive, Decide,
       AgentEnds, Crash, Release, Applying
  <2> QED
    BY <1>8, <2>1, <2>2
<1> QED
  BY <1>1, <1>2, <1>3, <1>4, <1>5, <1>6, <1>9, <1>10, <1>13, <1>14, <1>15, <1>16, <1>17,
     <1>18, <1>19, <1>20, <1>21, <1>23, <1>24, <1>25 DEF Next, Step

LEMMA QueueInit == Init => QueueInv
<1> SUFFICES ASSUME Init PROVE QueueInv
  OBVIOUS
<1>1. Readable = {} /\ DOMAIN record = {}
  BY DEF Init, Readable
<1>2. \A f \in Requests : stage[f] = "none"
  BY DEF Init
<1> QED
  BY <1>1, <1>2 DEF QueueInv, Asked, Held, Ahead, Drains, Upper, AppliedOnce, Init, Applying

LEMMA QueueInvariance == Spec => [](IInv /\ QueueInv)
<1>1. IInv /\ QueueInv /\ [Next]_vars => (IInv /\ QueueInv)'
  <2> SUFFICES ASSUME IInv, QueueInv, [Next]_vars PROVE IInv' /\ QueueInv'
    OBVIOUS
  <2>1. CASE Next
    BY <2>1, InvStep, QueueStep
  <2>2. CASE UNCHANGED vars
    <3>1. UNCHANGED record /\ UNCHANGED queue /\ UNCHANGED <<pc, batch>>
      BY <2>2 DEF vars, local
    <3>2. Readable' = Readable /\ \A g : EntriesOf(g)' = EntriesOf(g)
      BY <3>1, ReadableStands DEF EntriesOf
    <3>3. Drains'
      BY <3>1, <3>2 DEF QueueInv, Drains
    <3> QED
      BY <2>2, <3>1, <3>3, InvStep, QueueMoved
  <2> QED
    BY <2>1, <2>2
<1> QED
  BY <1>1, InvInit, QueueInit, PTL DEF Spec

\* What a controller asked was decided under the lease it presented and, of
\* what was accepted, against exactly the records before it; a queued request
\* left each of its records once, however often it was drained; and a stop is
\* confirmed once, after it was requested and after its attempt ended cancelled.
THEOREM RequestsStayDecided == Spec => []RequestsDecided
<1>1. IInv /\ QueueInv => RequestsDecided
  BY DEF IInv, RecordInv, QueueInv, RequestsDecided
<1> QED
  BY <1>1, QueueInvariance, PTL

(* ---------------------------------------------------------------------- *)
(* The abstract lease.                                                     *)

LEMMA VerdictIs ==
  ASSUME NEW r, NEW k
  PROVE  VerdictOf(r, k) =
           IF Has("stopped", r, k) THEN "stopped"
           ELSE IF Has("completed", r, k) THEN "completed"
           ELSE IF Has("accepted", r, k) THEN "accepted"
           ELSE IF Has("stale", r, k) THEN "refused"
           ELSE "undecided"
<1> DEFINE kinds == {record[i].kind : i \in {j \in DOMAIN record :
                       record[j].run = r /\ record[j].key = k}}
<1>1. \A kind : kind \in kinds <=> Has(kind, r, k)
  BY DEF Has, About
<1>2. VerdictOf(r, k) =
           IF "stopped" \in kinds THEN "stopped"
           ELSE IF "completed" \in kinds THEN "completed"
           ELSE IF "accepted" \in kinds THEN "accepted"
           ELSE IF "stale" \in kinds THEN "refused"
           ELSE "undecided"
  BY DEF VerdictOf
<1> HIDE DEF kinds
<1> QED
  BY <1>1, <1>2

LEMMA VerdictIsNext ==
  ASSUME NEW r, NEW k
  PROVE  VerdictOf(r, k)' =
           IF Has("stopped", r, k)' THEN "stopped"
           ELSE IF Has("completed", r, k)' THEN "completed"
           ELSE IF Has("accepted", r, k)' THEN "accepted"
           ELSE IF Has("stale", r, k)' THEN "refused"
           ELSE "undecided"
<1> DEFINE kinds == {record[i].kind : i \in {j \in DOMAIN record :
                       record[j].run = r /\ record[j].key = k}}'
<1>1. \A kind : kind \in kinds <=> Has(kind, r, k)'
  BY DEF Has, About
<1>2. VerdictOf(r, k)' =
           IF "stopped" \in kinds THEN "stopped"
           ELSE IF "completed" \in kinds THEN "completed"
           ELSE IF "accepted" \in kinds THEN "accepted"
           ELSE IF "stale" \in kinds THEN "refused"
           ELSE "undecided"
  BY DEF VerdictOf
<1> HIDE DEF kinds
<1> QED
  BY <1>1, <1>2

\* What is stopped was completed, and what is completed accepted.
LEMMA VerdictOrder ==
  ASSUME RecordInv, NEW r \in Runs, NEW k
  PROVE  /\ Has("stopped", r, k) => Has("completed", r, k)
         /\ Has("completed", r, k) => Has("accepted", r, k)
BY DEF RecordInv, StopConfirmedAfterCancelled, KeysOrdered, Has

LEMMA HolderFree ==
  ASSUME NEW r, LeaseOf(r) = {}
  PROVE  HolderOf(r) = Nobody
BY DEF HolderOf

LEMMA HolderTaken ==
  ASSUME RecordInv, NEW r \in Runs, LeaseOf(r) # {}
  PROVE  HolderOf(r) # Nobody
<1> DEFINE l == CHOOSE l \in LeaseOf(r) : TRUE
<1>1. l \in LeaseOf(r)
  OBVIOUS
<1>2. l \in About(r, "acquired")
  BY <1>1 DEF LeaseOf
<1>3. record[l].name \in Names /\ record[l].pid \in Pids
  BY <1>2 DEF RecordInv, LeasesTaken
<1>4. HolderOf(r) = [name |-> record[l].name, pid |-> record[l].pid]
  BY DEF HolderOf
<1> HIDE DEF l
<1> QED
  BY <1>3, <1>4, RunOperationsAssumption DEF Nobody

LEMMA HolderSame ==
  ASSUME NEW e, NEW n, Grown(e, n), NEW r, LeaseOf(r)' = LeaseOf(r)
  PROVE  HolderOf(r)' = HolderOf(r)
<1>1. \A l \in LeaseOf(r) : record'[l] = record[l]
  BY DEF Grown, LeaseOf, About
<1>2. CASE LeaseOf(r) = {}
  BY <1>2 DEF HolderOf, Nobody
<1>3. CASE LeaseOf(r) # {}
  <2>1. PICK l : l = CHOOSE m \in LeaseOf(r) : TRUE
    OBVIOUS
  <2>2. l \in LeaseOf(r)
    BY <1>3, <2>1
  <2>3. HolderOf(r) = [name |-> record[l].name, pid |-> record[l].pid]
    BY <1>3, <2>1 DEF HolderOf
  <2>4. HolderOf(r)' = [name |-> record'[l].name, pid |-> record'[l].pid]
    BY <1>3, <2>1 DEF HolderOf
  <2> QED
    BY <1>1, <2>2, <2>3, <2>4
<1> QED
  BY <1>2, <1>3

holderBar  == [r \in Runs |-> HolderOf(r)]
verdictBar == [r \in Runs |-> [k \in Keys |-> VerdictOf(r, k)]]

LEMMA HoldersSame ==
  ASSUME NEW e, NEW n, Grown(e, n), e.kind \notin {"acquired", "ended"}
  PROVE  holderBar' = holderBar
<1>1. \A r \in Runs : HolderOf(r)' = HolderOf(r)
  BY LeaseOfSame, HolderSame
<1> QED
  BY <1>1 DEF holderBar

LEMMA VerdictsSame ==
  ASSUME NEW e, NEW n, Grown(e, n),
         \/ e.kind \notin {"accepted", "stale", "completed", "stopped"}
         \/ e.key \notin Keys
  PROVE  verdictBar' = verdictBar
<1>1. ASSUME NEW r \in Runs, NEW k \in Keys
      PROVE  VerdictOf(r, k)' = VerdictOf(r, k)
  <2>1. \A kind \in {"accepted", "stale", "completed", "stopped"} :
          Has(kind, r, k)' <=> Has(kind, r, k)
    BY HasAfter
  <2> QED
    BY <2>1, VerdictIs, VerdictIsNext
<1>2. \A r \in Runs : [k \in Keys |-> VerdictOf(r, k)]' = [k \in Keys |-> VerdictOf(r, k)]
  BY <1>1
<1> QED
  BY <1>2 DEF verdictBar

\* An entry under a key moves that key's verdict alone.
LEMMA VerdictMoves ==
  ASSUME RecordInv, NEW e \in Entries, NEW n, Grown(e, n), Rightful(e), e.key \in Keys,
         e.kind \in {"accepted", "stale", "completed", "stopped"}
  PROVE  \E v \in {"accepted", "refused", "completed", "stopped"} :
           /\ verdictBar' = [verdictBar EXCEPT ![e.run][e.key] = v]
           /\ \/ /\ v \in {"accepted", "refused"} /\ verdictBar[e.run][e.key] = "undecided"
                 /\ LeaseOf(e.run) # {}
              \/ v = "completed" /\ verdictBar[e.run][e.key] = "accepted"
              \/ v = "stopped" /\ verdictBar[e.run][e.key] = "completed"
<1>0. e.run \in Runs
  BY DEF Entries
<1>1. ASSUME NEW r \in Runs, NEW k \in Keys, r # e.run \/ k # e.key
      PROVE  VerdictOf(r, k)' = VerdictOf(r, k)
  <2>1. \A kind \in {"accepted", "stale", "completed", "stopped"} :
          Has(kind, r, k)' <=> Has(kind, r, k)
    BY <1>1, HasAfter
  <2> QED
    BY <2>1, VerdictIs, VerdictIsNext
<1> DEFINE v == VerdictOf(e.run, e.key)'
           u == VerdictOf(e.run, e.key)
<1>2. \/ v \in {"accepted", "refused"} /\ u = "undecided" /\ LeaseOf(e.run) # {}
      \/ v = "completed" /\ u = "accepted"
      \/ v = "stopped" /\ u = "completed"
  <2>1. \A kind : Has(kind, e.run, e.key)' <=> Has(kind, e.run, e.key) \/ e.kind = kind
    BY HasAfter
  <2>2. /\ Has("stopped", e.run, e.key) => Has("completed", e.run, e.key)
        /\ Has("completed", e.run, e.key) => Has("accepted", e.run, e.key)
    BY <1>0, VerdictOrder
  <2>3. CASE e.kind \in {"accepted", "stale"}
    <3>1. ~ Has("accepted", e.run, e.key) /\ ~ Has("stale", e.run, e.key) /\ LeaseOf(e.run) # {}
      BY <2>3 DEF Rightful
    <3> QED
      BY <2>1, <2>2, <2>3, <3>1, VerdictIs, VerdictIsNext
  <2>4. CASE e.kind = "completed"
    <3>1. Has("accepted", e.run, e.key) /\ ~ Has("completed", e.run, e.key)
      BY <2>4 DEF Rightful
    <3> QED
      BY <2>1, <2>2, <2>4, <3>1, VerdictIs, VerdictIsNext
  <2>5. CASE e.kind = "stopped"
    <3>1. ~ Has("stopped", e.run, e.key) /\ Has("completed", e.run, e.key)
      BY <2>5 DEF Rightful, Has
    <3> QED
      BY <2>1, <2>2, <2>5, <3>1, VerdictIs, VerdictIsNext
  <2> QED
    BY <2>3, <2>4, <2>5
<1>3. verdictBar[e.run][e.key] = u
  BY <1>0 DEF verdictBar
<1> HIDE DEF u
<1>4. verdictBar' = [verdictBar EXCEPT ![e.run][e.key] = v]
  <2>1. PICK w : w = v
    OBVIOUS
  <2>2. PICK new : new = [r \in Runs |-> [k \in Keys |-> VerdictOf(r, k)']]
    OBVIOUS
  <2>3. PICK old : old = [r \in Runs |-> [k \in Keys |-> VerdictOf(r, k)]]
    OBVIOUS
  <2>4. new = verdictBar' /\ old = verdictBar
    BY <2>2, <2>3 DEF verdictBar
  <2>5. \A r \in Runs : r # e.run => new[r] = old[r]
    BY <1>1, <2>2, <2>3
  <2>6. new[e.run] = [old[e.run] EXCEPT ![e.key] = w]
    BY <1>0, <1>1, <2>1, <2>2, <2>3
  <2>7. /\ new = [r \in Runs |-> new[r]]
        /\ old = [r \in Runs |-> old[r]]
    BY <2>2, <2>3
  <2>8. new = [old EXCEPT ![e.run][e.key] = w]
    BY ONLY <1>0, <2>5, <2>6, <2>7
  <2> QED
    BY ONLY <2>1, <2>4, <2>8
<1> HIDE DEF v
<1> QED
  BY <1>2, <1>3, <1>4

\* Every step of the record is a step of the abstract lease, or none.
LEMMA LeaseStep ==
  ASSUME IInv, Grows
  PROVE  [Lease!Next]_(Lease!vars)
<1>0. RecordInv /\ TypeOK
  BY DEF IInv
<1>1. CASE UNCHANGED record
  <2>1. \A r : HolderOf(r)' = HolderOf(r)
    BY <1>1 DEF HolderOf, LeaseOf, About
  <2>2. \A r, k : VerdictOf(r, k)' = VerdictOf(r, k)
    BY <1>1 DEF VerdictOf
  <2> QED
    BY <2>1, <2>2 DEF Lease!vars
<1>2. ASSUME NEW e \in Entries, Add(e), Rightful(e)
      PROVE  [Lease!Next]_(Lease!vars)
  <2>0. e.run \in Runs
    BY DEF Entries
  <2>1. PICK n \in Nat : Grown(e, n)
    BY <1>0, <1>2, OneGrown
  <2>2. CASE e.kind \in {"accepted", "stale", "completed", "stopped"} /\ e.key \in Keys
    <3>1. holderBar' = holderBar
      BY <2>1, <2>2, HoldersSame
    <3>2. PICK v \in {"accepted", "refused", "completed", "stopped"} :
           /\ verdictBar' = [verdictBar EXCEPT ![e.run][e.key] = v]
           /\ \/ /\ v \in {"accepted", "refused"} /\ verdictBar[e.run][e.key] = "undecided"
                 /\ LeaseOf(e.run) # {}
              \/ v = "completed" /\ verdictBar[e.run][e.key] = "accepted"
              \/ v = "stopped" /\ verdictBar[e.run][e.key] = "completed"
      BY <1>0, <1>2, <2>1, <2>2, VerdictMoves
    <3>3. LeaseOf(e.run) # {} => holderBar[e.run] # Nobody
      BY <1>0, <2>0, HolderTaken DEF holderBar
    <3>4. Lease!Decide(e.run, e.key) \/ Lease!Complete(e.run, e.key) \/ Lease!Confirm(e.run, e.key)
      BY <3>1, <3>2, <3>3 DEF Lease!Decide, Lease!Complete, Lease!Confirm, holderBar, verdictBar
    <3> QED
      BY <2>0, <2>2, <3>4 DEF Lease!Next
  <2>3. CASE e.kind = "acquired"
    <3>1. verdictBar' = verdictBar
      BY <2>1, <2>3, VerdictsSame
    <3>2. LeaseOf(e.run) = {} /\ e.name \in Names /\ e.pid \in Pids
      BY <1>2, <2>3 DEF Rightful
    <3>3. LeaseOf(e.run)' = {n} /\ record'[n] = e
      BY <1>0, <2>0, <2>1, <2>3, LeaseOfAcquired DEF RecordInv, Grown
    <3>4. HolderOf(e.run)' = [name |-> e.name, pid |-> e.pid]
      BY <3>3 DEF HolderOf
    <3>5. \A r \in Runs : r # e.run => HolderOf(r)' = HolderOf(r)
      BY <2>1, LeaseOfSame, HolderSame
    <3>6. holderBar' = [holderBar EXCEPT ![e.run] = [name |-> e.name, pid |-> e.pid]]
      BY <2>0, <3>4, <3>5 DEF holderBar
    <3>7. holderBar[e.run] = Nobody
      BY <2>0, <3>2, HolderFree DEF holderBar
    <3>8. Lease!Take(e.run, [name |-> e.name, pid |-> e.pid])
      BY <3>1, <3>6, <3>7 DEF Lease!Take, holderBar, verdictBar
    <3> QED
      BY <2>0, <3>2, <3>8 DEF Lease!Next
  <2>4. CASE e.kind = "ended"
    <3>1. verdictBar' = verdictBar
      BY <2>1, <2>4, VerdictsSame
    <3>2. e.lease \in LeaseOf(e.run)
      BY <1>2, <2>4 DEF Rightful
    <3>3. LeaseOf(e.run)' = {}
      BY <2>1, <2>4, <3>2, LeaseOfEnded
    <3>4. HolderOf(e.run)' = Nobody
      BY <3>3 DEF HolderOf, Nobody
    <3>5. \A r \in Runs : r # e.run => HolderOf(r)' = HolderOf(r)
      BY <2>1, LeaseOfSame, HolderSame
    <3>6. holderBar' = [holderBar EXCEPT ![e.run] = Nobody]
      BY <2>0, <3>4, <3>5 DEF holderBar
    <3>7. holderBar[e.run] # Nobody
      BY <1>0, <2>0, <3>2, HolderTaken DEF holderBar
    <3>8. Lease!Lose(e.run)
      BY <3>1, <3>6, <3>7 DEF Lease!Lose, holderBar, verdictBar
    <3> QED
      BY <2>0, <3>8 DEF Lease!Next
  <2>5. CASE /\ e.kind \notin {"acquired", "ended"}
             /\ e.kind \notin {"accepted", "stale", "completed", "stopped"} \/ e.key \notin Keys
    <3>1. holderBar' = holderBar /\ verdictBar' = verdictBar
      BY <2>1, <2>5, HoldersSame, VerdictsSame
    <3> QED
      BY <3>1 DEF Lease!vars, holderBar, verdictBar
  <2> QED
    BY <2>2, <2>3, <2>4, <2>5
<1> QED
  BY <1>1, <1>2 DEF Grows

LEMMA LeaseInit == Init => Lease!Init
<1> SUFFICES ASSUME Init PROVE Lease!Init
  OBVIOUS
<1>1. record = << >>
  BY DEF Init
<1>2. \A r, k : About(r, k) = {}
  BY <1>1 DEF About
<1>3. \A r : HolderOf(r) = Nobody
  BY <1>2 DEF HolderOf, LeaseOf
<1>4. \A r, k : VerdictOf(r, k) = "undecided"
  BY <1>2, VerdictIs DEF Has
<1> QED
  BY <1>3, <1>4 DEF Lease!Init

\* The record, the queue and the verbs implement the controller's lease: one
\* holder at a time, a key decided once and only under a lease, and verdicts that
\* move forward only.
THEOREM RecordImplementsLease == Spec => ImplementsControllerLease
<1>1. IInv /\ [Next]_vars => [Lease!Next]_(Lease!vars)
  <2> SUFFICES ASSUME IInv, [Next]_vars PROVE [Lease!Next]_(Lease!vars)
    OBVIOUS
  <2>1. Grows
    <3>1. CASE Next
      BY <3>1, RightfulStep
    <3>2. CASE UNCHANGED vars
      BY <3>2 DEF vars, Grows
    <3> QED
      BY <3>1, <3>2
  <2> QED
    BY <2>1, LeaseStep
<1> QED
  BY <1>1, LeaseInit, Invariance, PTL DEF Spec, ImplementsControllerLease, Lease!Spec

==============================================================================
