-------------------------- MODULE ManagedFilesProofs --------------------------
(***************************************************************************)
(* What is proved of the managed files, for any processes, paths, releases, *)
(* edits and bounds: the ownership journal agrees with the entries, every   *)
(* commit continues the journal, a transfer is recorded as it was shown,    *)
(* and the operator's bytes that a command saw survive it.                  *)
(*                                                                          *)
(* A command's work is judged against the manifest it read.  From the lock  *)
(* to its end that is the manifest in force; a command that has not taken   *)
(* the lock may find it gone, and then its work says nothing.               *)
(***************************************************************************)
EXTENDS ManagedFiles, WellFoundedInduction, TLAPS

------------------------------------------------------------------------------
(* Types.                                                                  *)

Classes == {"user", "adopted", "managed"}
Contents ==
  {NoFile} \cup Edits \cup UNION {{Declares[r][q] : q \in DOMAIN Declares[r]} : r \in Releases}
Texts == [Paths -> Contents]
Entries == [Paths -> [class : Classes, digest : Contents, moved : BOOLEAN]]
Records == [path : Paths, from : Classes, to : Classes, digest : Contents, before : Nat,
            reverts : Nat]
Manifests == [rev : Nat, entries : Entries, journal : Seq(Records)]
Puts == [path : Paths, content : Contents]
Commands ==
  [verb : {"none", "apply", "replace", "remove", "transfer", "revert"},
   at : {"idle", "lock", "check", "swap", "write", "drop", "commit"},
   base : Nat, new : Manifests, puts : SUBSET Puts, swaps : SUBSET Puts, drops : SUBSET Paths,
   given : Contents, seen : Texts]
Consent == [path : Paths, recorded : Contents, found : Contents, replacement : Contents]

Typed ==
  /\ files \in Texts /\ manifest \in Manifests
  /\ lock \in Proc \cup {Nobody} /\ cmd \in [Proc -> Commands]
  /\ consent = NoConsent \/ consent \in Consent

------------------------------------------------------------------------------
(* The inductive invariant.                                                *)

\* A manifest whose journal agrees, and whose user paths were not moved.
Sound(m) ==
  /\ Agrees(m)
  /\ \A q \in Paths : m.entries[q].class = "user" => ~m.entries[q].moved

\* A transfer or its reversal, as the operator was shown it under manifest m.
Shown(rec, m, shown) ==
  IF rec.reverts = 0 THEN PlanOf(rec.path, rec.from, rec.to, rec.digest, m.rev) \in shown
  ELSE rec.reverts \in DOMAIN m.journal /\ rec.digest = Expected(m, m.journal[rec.reverts])

Continues(c, m, shown) ==
  \/ c.new.journal = m.journal
  \/ \E rec \in Records : c.new.journal = Append(m.journal, rec) /\ Shown(rec, m, shown)

\* What a command planned, while manifest m is the one it read.
Fresh(c, m, shown) ==
  /\ Continues(c, m, shown)
  /\ \A w \in c.puts : c.seen[w.path] \in {NoFile, m.entries[w.path].digest}
  /\ \A q \in c.drops : c.new.entries[q] = m.entries[q]

Named(c, q) == q \in c.drops \/ \E w \in c.puts \cup c.swaps : w.path = q

Working(c, m, shown) ==
  /\ Sound(c.new)
  /\ \A q \in Paths : Named(c, q) => c.new.entries[q].class # "adopted"
  /\ \A q \in c.drops : \A w \in c.puts \cup c.swaps : w.path # q
  /\ \A s \in c.swaps : c.given = c.seen[s.path]
  /\ c.base <= m.rev
  /\ c.base = m.rev => Fresh(c, m, shown)

\* From its lock to its end a command's manifest is the one in force.
Holds(p, c, m, l) == c.at # "lock" => l = p /\ c.base = m.rev

IInv ==
  /\ Typed
  /\ Sound(manifest)
  /\ \A p \in Proc :
       cmd[p].at # "idle" => Working(cmd[p], manifest, plans) /\ Holds(p, cmd[p], manifest, lock)

------------------------------------------------------------------------------
(* Contents, commands and entries.                                         *)

LEMMA DeclaredIs ==
  ASSUME NEW r \in Releases, NEW q \in DOMAIN Declares[r]
  PROVE  q \in Paths /\ Declares[r][q] \in Contents
<1>1. q \in Paths
  BY ManagedFilesAssumption DEF Releases
<1>2. Declares[r][q] \in {Declares[r][x] : x \in DOMAIN Declares[r]}
  OBVIOUS
<1>3. Declares[r][q] \in UNION {{Declares[s][x] : x \in DOMAIN Declares[s]} : s \in Releases}
  BY <1>2
<1> QED
  BY <1>1, <1>3 DEF Contents

LEMMA Basics ==
  /\ NoFile \in Contents /\ Edits \subseteq Contents /\ NoFile \notin Edits
  /\ NoEntry \in [class : Classes, digest : Contents, moved : BOOLEAN]
  /\ NoManifest \in Manifests /\ NoManifest.rev = 0 /\ NoManifest.journal = <<>>
  /\ \A q \in Paths : NoManifest.entries[q] = NoEntry
  /\ Idle \in Commands /\ Idle.at = "idle"
<1>1. NoFile \in Contents /\ Edits \subseteq Contents
  BY DEF Contents
<1>2. NoEntry \in [class : Classes, digest : Contents, moved : BOOLEAN]
  BY <1>1 DEF NoEntry, Classes
<1>3. [q \in Paths |-> NoEntry] \in Entries
  BY <1>2 DEF Entries
<1>4. <<>> \in Seq(Records)
  OBVIOUS
<1>5. NoManifest \in Manifests
  BY <1>3, <1>4 DEF NoManifest, Manifests
<1>6. [q \in Paths |-> NoFile] \in Texts
  BY <1>1 DEF Texts
<1>7. Idle \in Commands /\ Idle.at = "idle"
  BY <1>1, <1>5, <1>6 DEF Idle, Commands
<1> QED
  BY <1>1, <1>2, <1>5, <1>7, ManagedFilesAssumption DEF NoManifest

LEMMA WorkIs ==
  ASSUME NEW verb, NEW at, NEW m
  PROVE  Work(verb, at, m) =
           [verb |-> verb, at |-> at, base |-> m.rev, new |-> m, puts |-> {}, swaps |-> {},
            drops |-> {}, given |-> NoFile, seen |-> files]
<1>1. PICK s : s = [q \in Paths |-> NoFile]
  OBVIOUS
<1>2. Idle = [verb |-> "none", at |-> "idle", base |-> 0, new |-> NoManifest, puts |-> {},
              swaps |-> {}, drops |-> {}, given |-> NoFile, seen |-> s]
  BY <1>1 DEF Idle
<1>3. Work(verb, at, m) = [Idle EXCEPT !.verb = verb, !.at = at, !.base = m.rev, !.new = m,
                                       !.seen = files]
  BY DEF Work
<1> QED
  BY ONLY <1>2, <1>3

\* A nonempty set of places of a sequence has a last one.
LEMMA LastOf ==
  ASSUME NEW n \in Nat, NEW S, S \subseteq 1 .. n, S # {}
  PROVE  \E m \in S : \A j \in S : j <= m
<1> DEFINE T == {n - i : i \in S}
<1>0. \A i \in S : i \in Nat /\ i <= n /\ n - i \in Nat
  OBVIOUS
<1>1. T \subseteq Nat /\ T # {}
  BY <1>0
<1>2. PICK x \in T : \A y \in T : ~ (<<y, x>> \in OpToRel(<, Nat))
  <2> HIDE DEF T
  <2> QED
    BY <1>1, NatLessThanWellFounded, WFMin
<1>3. \A y \in T : <<y, x>> \in Nat \X Nat
  BY <1>1
<1>4. \A y \in T : y < x => <<y, x>> \in OpToRel(<, Nat)
  <2> HIDE DEF T
  <2> QED
    BY <1>3 DEF OpToRel
<1>5. \A y \in T : ~ (y < x)
  BY <1>2, <1>4, Zenon
<1>6. PICK m \in S : x = n - m
  OBVIOUS
<1>7. \A j \in S : n - j \in T
  OBVIOUS
<1>8. \A j \in S : ~ (n - j < n - m)
  BY <1>5, <1>6, <1>7
<1> HIDE DEF T
<1>9. \A j \in S : j <= m
  BY <1>8
<1> QED
  BY <1>9

LEMMA LatestIs ==
  ASSUME NEW m \in Manifests, NEW q \in Paths
  PROVE  /\ About(m, q) = {} => Latest(m, q) = 0
         /\ About(m, q) # {} =>
              /\ Latest(m, q) \in 1 .. Len(m.journal) /\ Latest(m, q) # 0
              /\ m.journal[Latest(m, q)] \in Records /\ m.journal[Latest(m, q)].path = q
<1>1. m.journal \in Seq(Records) /\ Len(m.journal) \in Nat
      /\ DOMAIN m.journal = 1 .. Len(m.journal)
  BY DEF Manifests
<1>2. CASE About(m, q) # {}
  <2>1. About(m, q) \subseteq 1 .. Len(m.journal)
    BY <1>1 DEF About
  <2>2. \E i \in About(m, q) : \A j \in About(m, q) : j <= i
    BY <1>1, <1>2, <2>1, LastOf
  <2>3. Latest(m, q) = CHOOSE i \in About(m, q) : \A j \in About(m, q) : j <= i
    BY <1>2 DEF Latest
  <2>4. Latest(m, q) \in About(m, q)
    BY <2>2, <2>3
  <2> QED
    BY <1>1, <1>2, <2>1, <2>4 DEF About
<1> QED
  BY <1>2 DEF Latest

\* The journal agrees about a path.
Fits(m, q) ==
  About(m, q) # {} =>
    LET to == m.journal[Latest(m, q)].to IN
    \/ m.entries[q].class = to
    \/ to = "managed" /\ m.entries[q].class = "user"
    \/ to = "user" /\ m.entries[q].class = "managed" /\ ~m.entries[q].moved

LEMMA AgreesIs == ASSUME NEW m \in Manifests PROVE Agrees(m) <=> \A q \in Paths : Fits(m, q)
<1> DEFINE Stands(i) ==
      m.entries[m.journal[i].path].class = m.journal[i].to \/ Superseded(m, m.journal[i])
<1>1. \A q \in Paths : About(m, q) # {} => (Stands(Latest(m, q)) <=> Fits(m, q))
  BY LatestIs DEF Fits, Superseded, Managed
<1>2. \A q \in Paths : About(m, q) = {} => Fits(m, q) /\ Latest(m, q) = 0
  BY LatestIs DEF Fits
<1>3. \A q \in Paths : About(m, q) # {} => Latest(m, q) # 0
  BY LatestIs
<1>4. Agrees(m) <=> \A i \in {Latest(m, q) : q \in Paths} \ {0} : Stands(i)
  BY DEF Agrees
<1> HIDE DEF Stands
<1>5. (\A i \in {Latest(m, q) : q \in Paths} \ {0} : Stands(i))
        <=> \A q \in Paths : Latest(m, q) # 0 => Stands(Latest(m, q))
  OBVIOUS
<1> QED
  BY <1>1, <1>2, <1>3, <1>4, <1>5

\* An entry of the product's own making keeps the journal in agreement.
LEMMA SoundEntry ==
  ASSUME NEW m \in Manifests, NEW n \in Manifests, Sound(m), n.journal = m.journal,
         NEW q \in Paths, m.entries[q].class # "adopted",
         \/ n.entries[q].class = "managed" /\ n.entries[q].moved = m.entries[q].moved
         \/ n.entries[q] = NoEntry,
         \A x \in Paths : x # q => n.entries[x] = m.entries[x]
  PROVE  Sound(n)
<1>1. \A x \in Paths : About(n, x) = About(m, x) /\ Latest(n, x) = Latest(m, x)
  BY DEF About, Latest
<1>2. ASSUME NEW x \in Paths PROVE Fits(n, x)
  <2>1. Fits(m, x)
    BY AgreesIs DEF Sound
  <2>2. CASE x # q
    BY <1>1, <2>1, <2>2 DEF Fits
  <2>3. CASE x = q
    <3>1. m.entries[q].class \in Classes /\ m.entries[q].moved \in BOOLEAN
      BY DEF Manifests, Entries
    <3>2. m.entries[q].class = "user" => ~m.entries[q].moved
      BY DEF Sound
    <3> QED
      BY <1>1, <2>1, <2>3, <3>1, <3>2 DEF Fits, Classes, NoEntry
  <2> QED
    BY <2>2, <2>3
<1>3. Agrees(n)
  BY <1>2, AgreesIs
<1>4. \A x \in Paths : n.entries[x].class = "user" => ~n.entries[x].moved
  BY DEF Sound, NoEntry
<1> QED
  BY <1>3, <1>4 DEF Sound

\* So does a transfer's record, with the entry it results in.
LEMMA SoundRecorded ==
  ASSUME NEW m \in Manifests, Sound(m), NEW q \in Paths, NEW to \in Classes,
         NEW rec \in Records, rec.path = q, rec.to = to
  PROVE  /\ Recorded(m, q, to, rec) \in Manifests /\ Sound(Recorded(m, q, to, rec))
         /\ Recorded(m, q, to, rec).rev = m.rev
         /\ Recorded(m, q, to, rec).journal = Append(m.journal, rec)
<1>1. PICK n : n = Recorded(m, q, to, rec)
  OBVIOUS
<1>2. PICK e : e = Resulting(to, rec.digest)
  OBVIOUS
<1>3. /\ e \in [class : Classes, digest : Contents, moved : BOOLEAN]
      /\ e.class = to /\ (to = "user" => ~e.moved)
  <2>1. rec.digest \in Contents
    BY DEF Records
  <2>2. CASE to = "user"
    BY <1>2, <2>2, Basics DEF Resulting, NoEntry
  <2>3. CASE to = "adopted"
    BY <1>2, <2>1, <2>3 DEF Resulting, Entry, Classes
  <2>4. CASE to = "managed"
    BY <1>2, <2>1, <2>4 DEF Resulting, Entry, Classes
  <2> QED
    BY <2>2, <2>3, <2>4 DEF Classes
<1>4. /\ m.entries \in Entries /\ m.journal \in Seq(Records) /\ m.rev \in Nat
      /\ m = [rev |-> m.rev, entries |-> m.entries, journal |-> m.journal]
  BY DEF Manifests
<1>5. n = [rev |-> m.rev, entries |-> [m.entries EXCEPT ![q] = e],
           journal |-> Append(m.journal, rec)]
  BY <1>1, <1>2, <1>4 DEF Recorded
<1>6. /\ n \in Manifests /\ n.rev = m.rev /\ n.journal = Append(m.journal, rec)
      /\ n.entries[q] = e
      /\ \A x \in Paths : x # q => n.entries[x] = m.entries[x]
  <2>1. [m.entries EXCEPT ![q] = e] \in Entries
    BY <1>3, <1>4 DEF Entries
  <2>2. Append(m.journal, rec) \in Seq(Records)
    BY <1>4
  <2>3. \A x \in Paths : [m.entries EXCEPT ![q] = e][x] = IF x = q THEN e ELSE m.entries[x]
    BY <1>4 DEF Entries
  <2> QED
    BY <1>4, <1>5, <2>1, <2>2, <2>3 DEF Manifests
<1>7. PICK k \in Nat : k = Len(m.journal)
  BY <1>4
<1>8. /\ Len(n.journal) = k + 1 /\ n.journal[k + 1] = rec
      /\ \A i \in 1 .. k : n.journal[i] = m.journal[i]
      /\ DOMAIN n.journal = 1 .. k + 1 /\ DOMAIN m.journal = 1 .. k
  BY <1>4, <1>6, <1>7
<1>9. ASSUME NEW x \in Paths PROVE Fits(n, x)
  <2>1. Fits(m, x)
    BY AgreesIs DEF Sound
  <2>2. CASE x # q
    <3>1. About(n, x) = About(m, x)
      BY <1>8, <2>2 DEF About
    <3>2. Latest(n, x) = Latest(m, x)
      BY <3>1 DEF Latest
    <3>3. About(m, x) # {} => n.journal[Latest(n, x)] = m.journal[Latest(m, x)]
      BY <1>7, <1>8, <3>2, LatestIs
    <3> QED
      BY <1>6, <2>1, <2>2, <3>1, <3>3 DEF Fits
  <2>3. CASE x = q
    <3>1. k + 1 \in About(n, q) /\ \A j \in About(n, q) : j <= k + 1
      BY <1>8 DEF About
    <3>2. Latest(n, q) = k + 1
      <4>1. Latest(n, q) = CHOOSE i \in About(n, q) : \A j \in About(n, q) : j <= i
        BY <3>1 DEF Latest
      <4>2. \A i \in About(n, q) : (\A j \in About(n, q) : j <= i) => i = k + 1
        <5>1. About(n, q) \subseteq Nat
          BY <1>8 DEF About
        <5> QED
          BY <3>1, <5>1
      <4> QED
        BY <3>1, <4>1, <4>2
    <3> QED
      BY <1>3, <1>6, <1>8, <2>3, <3>2 DEF Fits
  <2> QED
    BY <2>2, <2>3
<1>10. Agrees(n)
  BY <1>6, <1>9, AgreesIs
<1>11. \A x \in Paths : n.entries[x].class = "user" => ~n.entries[x].moved
  BY <1>3, <1>6 DEF Sound
<1> QED
  BY <1>1, <1>6, <1>10, <1>11 DEF Sound

\* A command's entry of one path is set.
SetTo(c, q, e, d) ==
  /\ d \in Commands
  /\ d.new.rev = c.new.rev /\ d.new.journal = c.new.journal /\ d.new.entries[q] = e
  /\ \A x \in Paths : x # q => d.new.entries[x] = c.new.entries[x]
  /\ d.at = c.at /\ d.base = c.base /\ d.puts = c.puts
  /\ d.swaps = c.swaps /\ d.drops = c.drops /\ d.given = c.given /\ d.seen = c.seen

LEMMA EntrySet ==
  ASSUME NEW c \in Commands, NEW q \in Paths,
         NEW e \in [class : Classes, digest : Contents, moved : BOOLEAN]
  PROVE  SetTo(c, q, e, [c EXCEPT !.new.entries[q] = e])
<1>0. PICK d : d = [c EXCEPT !.new.entries[q] = e]
  OBVIOUS
<1>1. PICK m \in Manifests : m = c.new
  BY DEF Commands
<1>2. PICK n : n = [m EXCEPT !.entries[q] = e]
  OBVIOUS
<1>3. d = [c EXCEPT !.new = n]
  BY <1>0, <1>1, <1>2
<1>4. /\ m.entries \in Entries /\ m.journal \in Seq(Records) /\ m.rev \in Nat
      /\ m = [rev |-> m.rev, entries |-> m.entries, journal |-> m.journal]
  BY DEF Manifests
<1>5. n = [rev |-> m.rev, entries |-> [m.entries EXCEPT ![q] = e], journal |-> m.journal]
  BY <1>2, <1>4
<1>6. /\ n \in Manifests /\ n.rev = m.rev /\ n.journal = m.journal /\ n.entries[q] = e
      /\ \A x \in Paths : x # q => n.entries[x] = m.entries[x]
  <2>1. [m.entries EXCEPT ![q] = e] \in Entries
    BY <1>4 DEF Entries
  <2>2. \A x \in Paths : [m.entries EXCEPT ![q] = e][x] = IF x = q THEN e ELSE m.entries[x]
    BY <1>4 DEF Entries
  <2> QED
    BY <1>4, <1>5, <2>1, <2>2 DEF Manifests
<1>7. SetTo(c, q, e, d)
  BY <1>1, <1>3, <1>6 DEF Commands, SetTo
<1> QED
  BY <1>0, <1>7

\* What is written is recorded as managed.
LEMMA WroteIs ==
  ASSUME NEW c \in Commands, NEW q \in Paths, NEW content \in Contents
  PROVE  /\ SetTo(c, q, Entry("managed", content, c.new.entries[q].moved), Wrote(c, q, content))
         /\ Entry("managed", content, c.new.entries[q].moved).class = "managed"
         /\ Entry("managed", content, c.new.entries[q].moved).moved = c.new.entries[q].moved
<1>1. PICK e : e = Entry("managed", content, c.new.entries[q].moved)
  OBVIOUS
<1>2. c.new.entries[q].moved \in BOOLEAN
  BY DEF Commands, Manifests, Entries
<1>3. /\ e \in [class : Classes, digest : Contents, moved : BOOLEAN]
      /\ e.class = "managed" /\ e.moved = c.new.entries[q].moved
  BY <1>1, <1>2 DEF Entry, Classes
<1>4. Wrote(c, q, content) = [c EXCEPT !.new.entries[q] = e]
  BY <1>1 DEF Wrote
<1> QED
  BY <1>1, <1>3, <1>4, EntrySet

------------------------------------------------------------------------------
(* The invariant in the initial state, and what a step may change.         *)

LEMMA InvInit == Init => IInv
<1> SUFFICES ASSUME Init PROVE IInv
  OBVIOUS
<1>1. files \in Texts
  BY Basics DEF Init, Texts
<1>2. manifest = NoManifest /\ manifest \in Manifests
  BY Basics DEF Init
<1>3. \A p \in Proc : cmd[p] = Idle
  BY DEF Init
<1>4. Typed
  BY <1>1, <1>2, Basics DEF Init, Typed
<1>5. Sound(manifest)
  <2>1. \A q \in Paths : About(manifest, q) = {}
    BY <1>2, Basics DEF About
  <2>2. Agrees(manifest)
    BY <1>2, <2>1, AgreesIs DEF Fits
  <2> QED
    BY <1>2, <2>2, Basics DEF Sound, NoEntry
<1> QED
  BY <1>3, <1>4, <1>5, Basics DEF IInv

\* One command goes on and the manifest stays: the others are where they were.
LEMMA OneMoves ==
  ASSUME IInv, NEW p \in Proc, NEW c \in Commands, cmd' = [cmd EXCEPT ![p] = c],
         manifest' = manifest, plans' = plans, consent' = consent, files' \in Texts,
         lock' \in Proc \cup {Nobody}, \A o \in Proc : o # p /\ lock = o => lock' = o,
         c.at # "idle" => Working(c, manifest, plans) /\ Holds(p, c, manifest, lock')
  PROVE  IInv'
<1>1. Typed /\ cmd \in [Proc -> Commands]
  BY DEF IInv, Typed
<1>2. Typed'
  BY <1>1 DEF Typed
<1>3. Sound(manifest)'
  BY DEF IInv
<1>4. ASSUME NEW o \in Proc, cmd'[o].at # "idle"
      PROVE  Working(cmd'[o], manifest, plans) /\ Holds(o, cmd'[o], manifest, lock')
  <2>1. CASE o = p
    BY <1>1, <1>4, <2>1
  <2>2. CASE o # p
    <3>1. cmd'[o] = cmd[o]
      BY <1>1, <2>2
    <3>2. Working(cmd[o], manifest, plans) /\ Holds(o, cmd[o], manifest, lock)
      BY <1>4, <3>1 DEF IInv
    <3> QED
      BY <2>2, <3>1, <3>2 DEF Holds
  <2> QED
    BY <2>1, <2>2
<1>5. \A o \in Proc : cmd'[o].at # "idle" =>
        Working(cmd'[o], manifest', plans') /\ Holds(o, cmd'[o], manifest', lock')
  BY <1>4
<1> QED
  BY <1>2, <1>3, <1>5 DEF IInv

LEMMA PlannedIs ==
  ASSUME Typed, NEW r \in Releases, NEW m \in Manifests
  PROVE  /\ PlannedWrites(m, r) \subseteq Puts
         /\ \A w \in PlannedWrites(m, r) :
              /\ w.path \in DOMAIN Declares[r] /\ m.entries[w.path].class # "adopted"
              /\ files[w.path] \in {NoFile, m.entries[w.path].digest}
         /\ PlannedRetired(m, r) \subseteq Paths
         /\ \A q \in PlannedRetired(m, r) :
              q \notin DOMAIN Declares[r] /\ m.entries[q].class = "managed"
<1>1. ASSUME NEW w \in PlannedWrites(m, r)
      PROVE  /\ w \in Puts /\ w.path \in DOMAIN Declares[r]
             /\ m.entries[w.path].class # "adopted"
             /\ files[w.path] \in {NoFile, m.entries[w.path].digest}
  <2>1. PICK q \in DOMAIN Declares[r] :
          /\ w = Put(q, Declares[r][q])
          /\ \/ Managed(m, q) /\ Untouched(m, q)
             \/ m.entries[q].class = "user" /\ files[q] = NoFile
    BY <1>1 DEF PlannedWrites
  <2>2. q \in Paths /\ Declares[r][q] \in Contents
    BY DeclaredIs
  <2> QED
    BY <2>1, <2>2 DEF Put, Puts, Managed, Untouched
<1>2. \A q \in PlannedRetired(m, r) :
        q \in Paths /\ q \notin DOMAIN Declares[r] /\ m.entries[q].class = "managed"
  BY DEF PlannedRetired, Managed
<1> QED
  BY <1>1, <1>2

\* Work that has not touched the manifest it read.
LEMMA NewWork ==
  ASSUME NEW c \in Commands, NEW m \in Manifests, NEW shown, Sound(m),
         c.new.journal = m.journal, c.base = m.rev, Sound(c.new),
         \A q \in Paths : Named(c, q) => c.new.entries[q].class # "adopted",
         \A q \in c.drops : \A w \in c.puts \cup c.swaps : w.path # q,
         \A s \in c.swaps : c.given = c.seen[s.path],
         \A w \in c.puts : c.seen[w.path] \in {NoFile, m.entries[w.path].digest},
         \A q \in c.drops : c.new.entries[q] = m.entries[q]
  PROVE  Working(c, m, shown)
<1>1. m.rev \in Nat
  BY DEF Manifests
<1> QED
  BY <1>1 DEF Working, Fresh, Continues

------------------------------------------------------------------------------
(* Commands start.                                                         *)

LEMMA DoApplyStarts ==
  ASSUME IInv, NEW p \in Proc, NEW r \in Releases, ApplyStarts(p, r) PROVE IInv'
<1>1. PICK m \in Manifests : m = manifest
  BY DEF IInv, Typed
<1>2. PICK c : c = [Work("apply", "write", m) EXCEPT !.puts = PlannedWrites(m, r),
                                                    !.drops = PlannedRetired(m, r)]
  OBVIOUS
<1>3. c = [verb |-> "apply", at |-> "write", base |-> m.rev, new |-> m,
           puts |-> PlannedWrites(m, r), swaps |-> {}, drops |-> PlannedRetired(m, r),
           given |-> NoFile, seen |-> files]
  BY <1>2, WorkIs
<1>4. Typed /\ Sound(m) /\ files \in Texts /\ m.rev \in Nat
  BY <1>1 DEF IInv, Typed, Manifests
<1>5. /\ PlannedWrites(m, r) \subseteq Puts
      /\ \A w \in PlannedWrites(m, r) :
           /\ w.path \in DOMAIN Declares[r] /\ m.entries[w.path].class # "adopted"
           /\ files[w.path] \in {NoFile, m.entries[w.path].digest}
      /\ PlannedRetired(m, r) \subseteq Paths
      /\ \A q \in PlannedRetired(m, r) :
           q \notin DOMAIN Declares[r] /\ m.entries[q].class = "managed"
  BY <1>4, PlannedIs
<1>6. c \in Commands
  BY <1>3, <1>4, <1>5, Basics DEF Commands
<1>7. Working(c, m, plans)
  <2>1. /\ c.new = m /\ c.base = m.rev /\ c.puts = PlannedWrites(m, r) /\ c.swaps = {}
        /\ c.drops = PlannedRetired(m, r) /\ c.seen = files
    BY <1>3
  <2>2. \A q \in Paths : Named(c, q) => m.entries[q].class # "adopted"
    BY <1>5, <2>1 DEF Named
  <2>3. \A q \in c.drops : \A w \in c.puts \cup c.swaps : w.path # q
    BY <1>5, <2>1
  <2> QED
    BY <1>4, <1>5, <1>6, <2>1, <2>2, <2>3, NewWork
<1>8. /\ cmd' = [cmd EXCEPT ![p] = c] /\ lock = Nobody /\ lock' = p
      /\ UNCHANGED <<files, manifest, plans, consent>>
  BY <1>1, <1>2 DEF ApplyStarts, Goto, Take
<1>9. c.base = m.rev /\ Nobody \notin Proc
  BY <1>3, ManagedFilesAssumption
<1> QED
  BY <1>1, <1>4, <1>6, <1>7, <1>8, <1>9, OneMoves DEF Holds

LEMMA DoRemoveStarts ==
  ASSUME IInv, NEW p \in Proc, RemoveStarts(p) PROVE IInv'
<1>1. PICK m \in Manifests : m = manifest
  BY DEF IInv, Typed
<1>2. PICK c : c = [Work("remove", "drop", m) EXCEPT !.drops = {q \in Paths : Managed(m, q)}]
  OBVIOUS
<1>3. c = [verb |-> "remove", at |-> "drop", base |-> m.rev, new |-> m,
           puts |-> {}, swaps |-> {}, drops |-> {q \in Paths : Managed(m, q)},
           given |-> NoFile, seen |-> files]
  BY <1>2, WorkIs
<1>4. Typed /\ Sound(m) /\ files \in Texts /\ m.rev \in Nat
  BY <1>1 DEF IInv, Typed, Manifests
<1>5. c \in Commands
  BY <1>3, <1>4, Basics DEF Commands
<1>6. Working(c, m, plans)
  <2>1. /\ c.new = m /\ c.base = m.rev /\ c.puts = {} /\ c.swaps = {}
        /\ \A q \in c.drops : m.entries[q].class = "managed"
    BY <1>3 DEF Managed
  <2>2. \A q \in Paths : Named(c, q) => m.entries[q].class # "adopted"
    BY <2>1 DEF Named
  <2> QED
    BY <1>4, <1>5, <2>1, <2>2, NewWork
<1>7. /\ cmd' = [cmd EXCEPT ![p] = c] /\ lock = Nobody /\ lock' = p
      /\ UNCHANGED <<files, manifest, plans, consent>>
  BY <1>1, <1>2 DEF RemoveStarts, Goto, Take
<1>8. c.base = m.rev /\ Nobody \notin Proc
  BY <1>3, ManagedFilesAssumption
<1> QED
  BY <1>1, <1>4, <1>5, <1>6, <1>7, <1>8, OneMoves DEF Holds

LEMMA DoConsentedStarts ==
  ASSUME IInv, NEW p \in Proc, NEW r \in Releases, ConsentedStarts(p, r) PROVE IInv'
<1>1. PICK m \in Manifests : m = manifest
  BY DEF IInv, Typed
<1>2. PICK q : q = consent.path
  OBVIOUS
<1>3. /\ Typed /\ Sound(m) /\ files \in Texts /\ m.rev \in Nat /\ consent \in Consent
      /\ q \in DOMAIN Declares[r] /\ q \in Paths /\ files[q] \in Contents
      /\ Declares[r][q] \in Contents
  <2>1. Typed /\ Sound(m) /\ files \in Texts /\ m.rev \in Nat /\ consent \in Consent
    BY <1>1 DEF IInv, Typed, Manifests, ConsentedStarts
  <2>2. q \in DOMAIN Declares[r]
    BY <1>2 DEF ConsentedStarts
  <2> QED
    BY <2>1, <2>2, DeclaredIs DEF Texts
<1>4. /\ PlannedWrites(m, r) \subseteq Puts
      /\ \A w \in PlannedWrites(m, r) :
           /\ w.path \in DOMAIN Declares[r] /\ m.entries[w.path].class # "adopted"
           /\ files[w.path] \in {NoFile, m.entries[w.path].digest}
      /\ PlannedRetired(m, r) \subseteq Paths
      /\ \A x \in PlannedRetired(m, r) :
           x \notin DOMAIN Declares[r] /\ m.entries[x].class = "managed"
  BY <1>3, PlannedIs
<1>5. UNCHANGED <<files, manifest, lock, plans, consent>> /\ lock \in Proc \cup {Nobody}
  BY DEF ConsentedStarts, IInv, Typed
<1>6. CASE /\ SameReplacement(m, r)
           /\ Goto(p, [Work("replace", "lock", m) EXCEPT
                         !.swaps = {Put(q, Declares[r][q])}, !.given = consent.found,
                         !.puts = PlannedWrites(m, r), !.drops = PlannedRetired(m, r)])
  <2>1. PICK c : c = [Work("replace", "lock", m) EXCEPT
                         !.swaps = {Put(q, Declares[r][q])}, !.given = consent.found,
                         !.puts = PlannedWrites(m, r), !.drops = PlannedRetired(m, r)]
    OBVIOUS
  <2>2. c = [verb |-> "replace", at |-> "lock", base |-> m.rev, new |-> m,
             puts |-> PlannedWrites(m, r), swaps |-> {Put(q, Declares[r][q])},
             drops |-> PlannedRetired(m, r), given |-> consent.found, seen |-> files]
    BY <2>1, WorkIs
  <2>3. /\ Put(q, Declares[r][q]) \in Puts /\ Put(q, Declares[r][q]).path = q
        /\ consent.found \in Contents /\ consent.found = files[q]
        /\ m.entries[q].class = "managed"
    BY <1>2, <1>3, <1>6 DEF Put, Puts, SameReplacement, Consent, Drifted, Managed
  <2>4. c \in Commands
    BY <1>3, <1>4, <2>2, <2>3 DEF Commands
  <2>5. Working(c, m, plans)
    <3>1. /\ c.new = m /\ c.base = m.rev /\ c.puts = PlannedWrites(m, r)
          /\ c.swaps = {Put(q, Declares[r][q])} /\ c.drops = PlannedRetired(m, r)
          /\ c.seen = files /\ c.given = consent.found
      BY <2>2
    <3>2. \A x \in Paths : Named(c, x) => m.entries[x].class # "adopted"
      BY <1>4, <2>3, <3>1 DEF Named
    <3>3. \A x \in c.drops : \A w \in c.puts \cup c.swaps : w.path # x
      BY <1>3, <1>4, <2>3, <3>1
    <3> QED
      BY <1>3, <1>4, <2>3, <2>4, <3>1, <3>2, <3>3, NewWork
  <2>6. cmd' = [cmd EXCEPT ![p] = c]
    BY <1>6, <2>1, Zenon DEF Goto
  <2>7. c.at = "lock"
    BY <2>2
  <2> QED
    BY <1>1, <1>3, <1>5, <2>4, <2>5, <2>6, <2>7, OneMoves DEF Holds
<1>7. CASE /\ AlreadySatisfied(m, r)
           /\ Goto(p, [Wrote(Work("replace", "lock", m), q, files[q]) EXCEPT
                         !.puts = PlannedWrites(m, r), !.drops = PlannedRetired(m, r)])
  <2>1. PICK b : b = Work("replace", "lock", m)
    OBVIOUS
  <2>2. b = [verb |-> "replace", at |-> "lock", base |-> m.rev, new |-> m, puts |-> {},
             swaps |-> {}, drops |-> {}, given |-> NoFile, seen |-> files]
    BY <2>1, WorkIs
  <2>3. /\ b \in Commands /\ b.new = m /\ b.at = "lock" /\ b.base = m.rev /\ b.swaps = {}
        /\ b.seen = files
    BY <1>3, <2>2, Basics DEF Commands
  <2>4. PICK e : e = Entry("managed", files[q], m.entries[q].moved)
    OBVIOUS
  <2>5. PICK d : d = Wrote(b, q, files[q])
    OBVIOUS
  <2>6. SetTo(b, q, e, d) /\ e.class = "managed" /\ e.moved = m.entries[q].moved
    BY <1>3, <2>3, <2>4, <2>5, WroteIs
  <2>7. PICK c : c = [d EXCEPT !.puts = PlannedWrites(m, r), !.drops = PlannedRetired(m, r)]
    OBVIOUS
  <2>8. /\ d \in Commands /\ d.new.journal = m.journal /\ d.new.entries[q] = e
        /\ \A x \in Paths : x # q => d.new.entries[x] = m.entries[x]
        /\ d.at = "lock" /\ d.base = m.rev /\ d.swaps = {} /\ d.seen = files
    BY <2>3, <2>6 DEF SetTo
  <2>9. /\ c \in Commands /\ c.new = d.new /\ c.at = "lock" /\ c.base = m.rev /\ c.swaps = {}
        /\ c.puts = PlannedWrites(m, r) /\ c.drops = PlannedRetired(m, r) /\ c.seen = files
    BY <1>4, <2>7, <2>8 DEF Commands
  <2>10. c.new \in Manifests
    BY <2>9 DEF Commands
  <2>11. m.entries[q].class = "managed"
    BY <1>2, <1>7 DEF AlreadySatisfied, Drifted, Managed
  <2>12. Sound(c.new)
    BY <1>3, <2>6, <2>8, <2>9, <2>10, <2>11, SoundEntry
  <2>13. Working(c, m, plans)
    <3>1. \A x \in Paths : Named(c, x) => c.new.entries[x].class # "adopted"
      BY <1>4, <2>6, <2>8, <2>9 DEF Named
    <3>2. \A x \in c.drops : \A w \in c.puts \cup c.swaps : w.path # x
      BY <1>4, <2>9
    <3>3. \A x \in c.drops : c.new.entries[x] = m.entries[x]
      BY <1>3, <1>4, <2>8, <2>9
    <3> QED
      BY <1>3, <1>4, <2>8, <2>9, <2>12, <3>1, <3>2, <3>3, NewWork
  <2>14. cmd' = [cmd EXCEPT ![p] = c]
    BY <1>7, <2>1, <2>5, <2>7, Zenon DEF Goto
  <2> QED
    BY <1>1, <1>3, <1>5, <2>9, <2>13, <2>14, OneMoves DEF Holds
<1> QED
  BY <1>1, <1>2, <1>6, <1>7 DEF ConsentedStarts

\* A command's new manifest carries one more record, of a transfer as it was shown.
Carries(verb, m, q, to, rec) == [Work(verb, "commit", m) EXCEPT !.new = Recorded(m, q, to, rec)]

LEMMA RecordedWork ==
  ASSUME NEW m \in Manifests, Sound(m), files \in Texts, NEW verb \in {"transfer", "revert"},
         NEW q \in Paths, NEW to \in Classes, NEW rec \in Records, rec.path = q, rec.to = to
  PROVE  /\ Carries(verb, m, q, to, rec) \in Commands
         /\ Carries(verb, m, q, to, rec).base = m.rev
         /\ Carries(verb, m, q, to, rec).at = "commit"
         /\ \A shown : Shown(rec, m, shown) => Working(Carries(verb, m, q, to, rec), m, shown)
<1>0. PICK c : c = Carries(verb, m, q, to, rec)
  OBVIOUS
<1>1. PICK n : n = Recorded(m, q, to, rec)
  OBVIOUS
<1>2. n \in Manifests /\ Sound(n) /\ n.journal = Append(m.journal, rec)
  BY <1>1, SoundRecorded
<1>3. c = [verb |-> verb, at |-> "commit", base |-> m.rev, new |-> n, puts |-> {}, swaps |-> {},
           drops |-> {}, given |-> NoFile, seen |-> files]
  BY <1>0, <1>1, WorkIs DEF Carries
<1>4. m.rev \in Nat
  BY DEF Manifests
<1>5. c \in Commands
  BY <1>2, <1>3, <1>4, Basics DEF Commands
<1>6. /\ c.new = n /\ c.base = m.rev /\ c.puts = {} /\ c.swaps = {} /\ c.drops = {}
      /\ c.at = "commit"
  BY <1>3
<1>7. \A shown : Shown(rec, m, shown) => Continues(c, m, shown)
  BY <1>2, <1>6 DEF Continues
<1>8. \A shown : Shown(rec, m, shown) => Working(c, m, shown)
  BY <1>2, <1>4, <1>5, <1>6, <1>7 DEF Working, Fresh, Named
<1> QED
  BY <1>0, <1>5, <1>6, <1>8

LEMMA DoTransferStarts ==
  ASSUME IInv, NEW p \in Proc, NEW q \in Paths, NEW from \in Classes, NEW to \in Classes,
         TransferStarts(p, q, from, to)
  PROVE  IInv'
<1>1. PICK m \in Manifests : m = manifest
  BY DEF IInv, Typed
<1>2. PICK rec : rec = Record(q, from, to, files[q], m.rev, 0)
  OBVIOUS
<1>3. PICK c : c = Carries("transfer", m, q, to, rec)
  OBVIOUS
<1>4. files \in Texts /\ files[q] \in Contents /\ m.rev \in Nat
  BY DEF IInv, Typed, Texts, Manifests
<1>5. /\ rec \in Records /\ rec.path = q /\ rec.to = to /\ rec.from = from
      /\ rec.digest = files[q] /\ rec.reverts = 0
  BY <1>2, <1>4 DEF Record, Records
<1>6. Shown(rec, m, plans)
  BY <1>1, <1>5 DEF Shown, TransferStarts, Current
<1>7. c \in Commands /\ Working(c, m, plans) /\ c.base = m.rev /\ c.at = "commit"
  <2>1. Sound(m)
    BY <1>1 DEF IInv
  <2> QED
    BY <1>3, <1>4, <1>5, <1>6, <2>1, RecordedWork
<1>8. cmd' = [cmd EXCEPT ![p] = c]
  BY <1>1, <1>2, <1>3 DEF TransferStarts, Goto, Carries
<1>9. lock = Nobody /\ lock' = p /\ UNCHANGED <<files, manifest, plans, consent>>
  BY DEF TransferStarts, Take
<1> QED
  BY <1>1, <1>4, <1>7, <1>8, <1>9, OneMoves, ManagedFilesAssumption DEF Holds

LEMMA DoRevertStarts ==
  ASSUME IInv, NEW p \in Proc, NEW i \in DOMAIN manifest.journal, RevertStarts(p, i)
  PROVE  IInv'
<1>1. PICK m \in Manifests : m = manifest
  BY DEF IInv, Typed
<1>2. PICK old : old = m.journal[i]
  OBVIOUS
<1>3. /\ m.journal \in Seq(Records) /\ i \in DOMAIN m.journal /\ i \in Nat /\ i # 0
      /\ old \in Records
  BY <1>1, <1>2 DEF Manifests
<1>4. old.path \in Paths /\ old.from \in Classes /\ old.to \in Classes
  BY <1>3 DEF Records
<1>5. PICK rec : rec = Record(old.path, old.to, old.from, files[old.path], m.rev, i)
  OBVIOUS
<1>6. PICK c : c = Carries("revert", m, old.path, old.from, rec)
  OBVIOUS
<1>7. files \in Texts /\ files[old.path] \in Contents /\ m.rev \in Nat
  BY <1>4 DEF IInv, Typed, Texts, Manifests
<1>8. /\ rec \in Records /\ rec.path = old.path /\ rec.to = old.from
      /\ rec.digest = files[old.path] /\ rec.reverts = i
  BY <1>3, <1>4, <1>5, <1>7 DEF Record, Records
<1>9. Shown(rec, m, plans)
  <2>1. files[old.path] = Expected(m, old)
    BY <1>1, <1>2 DEF RevertStarts, Reversible
  <2> QED
    BY <1>2, <1>3, <1>8, <2>1 DEF Shown
<1>10. c \in Commands /\ Working(c, m, plans) /\ c.base = m.rev /\ c.at = "commit"
  <2>1. Sound(m)
    BY <1>1 DEF IInv
  <2> QED
    BY <1>4, <1>6, <1>7, <1>8, <1>9, <2>1, RecordedWork
<1>11. cmd' = [cmd EXCEPT ![p] = c]
  BY <1>1, <1>2, <1>5, <1>6 DEF RevertStarts, Goto, Carries
<1>12. lock = Nobody /\ lock' = p /\ UNCHANGED <<files, manifest, plans, consent>>
  BY DEF RevertStarts, Take
<1> QED
  BY <1>1, <1>7, <1>10, <1>11, <1>12, OneMoves, ManagedFilesAssumption DEF Holds

------------------------------------------------------------------------------
(* Commands go on.                                                         *)

\* A command ends, whatever it leaves of its lock.
LEMMA DoEnds ==
  ASSUME IInv, NEW p \in Proc, Ends(p), lock' = lock \/ Release(p),
         UNCHANGED <<files, manifest, plans, consent>>
  PROVE  IInv'
<1>1. cmd' = [cmd EXCEPT ![p] = Idle] /\ Idle \in Commands /\ Idle.at = "idle"
  BY Basics DEF Ends, Goto
<1>2. lock' \in Proc \cup {Nobody} /\ \A o \in Proc : o # p /\ lock = o => lock' = o
  BY DEF Release, IInv, Typed
<1> QED
  BY <1>1, <1>2, OneMoves DEF IInv, Typed

\* A command moves to another place of the same work.
LEMMA DoMoves ==
  ASSUME IInv, NEW p \in Proc, cmd[p].at # "idle",
         NEW at \in {"lock", "check", "swap", "write", "drop", "commit"},
         Goto(p, [cmd[p] EXCEPT !.at = at]),
         lock' \in Proc \cup {Nobody}, \A o \in Proc : o # p /\ lock = o => lock' = o,
         lock' = p, cmd[p].base = manifest.rev,
         UNCHANGED <<files, manifest, plans, consent>>
  PROVE  IInv'
<1>1. PICK c \in Commands : c = cmd[p]
  BY DEF IInv, Typed
<1>2. PICK d : d = [c EXCEPT !.at = at]
  OBVIOUS
<1>3. /\ d \in Commands /\ d.at = at /\ d.base = c.base /\ d.new = c.new /\ d.puts = c.puts
      /\ d.swaps = c.swaps /\ d.drops = c.drops /\ d.given = c.given /\ d.seen = c.seen
  BY <1>1, <1>2 DEF Commands
<1>4. Working(c, manifest, plans)
  BY <1>1 DEF IInv
<1>5. Working(d, manifest, plans)
  BY <1>3, <1>4 DEF Working, Fresh, Continues, Named
<1>6. cmd' = [cmd EXCEPT ![p] = d]
  BY <1>1, <1>2 DEF Goto
<1>7. Holds(p, d, manifest, lock')
  BY <1>1, <1>3 DEF Holds
<1> QED
  BY <1>3, <1>5, <1>6, <1>7, OneMoves DEF IInv, Typed

LEMMA DoLocks == ASSUME IInv, NEW p \in Proc, ConsentedLocks(p) PROVE IInv'
<1>1. CASE Ends(p) /\ UNCHANGED lock
  BY <1>1, DoEnds DEF ConsentedLocks
<1>2. CASE ~Moved(cmd[p]) /\ Take(p) /\ Goto(p, [cmd[p] EXCEPT !.at = "check"])
  <2>1. /\ cmd[p].at # "idle" /\ lock' = p /\ lock = Nobody /\ Nobody \notin Proc
        /\ cmd[p].base = manifest.rev
        /\ UNCHANGED <<files, manifest, plans, consent>>
    BY <1>2, ManagedFilesAssumption DEF ConsentedLocks, Runs, Take, Moved
  <2> QED
    BY <1>2, <2>1, DoMoves
<1> QED
  BY <1>1, <1>2 DEF ConsentedLocks

LEMMA DoChecks == ASSUME IInv, NEW p \in Proc, ChecksTargets(p) PROVE IInv'
<1>1. CASE Ends(p) /\ Release(p)
  BY <1>1, DoEnds DEF ChecksTargets
<1>2. CASE Goto(p, [cmd[p] EXCEPT !.at = "swap"]) /\ UNCHANGED lock
  <2>1. /\ cmd[p].at = "check" /\ UNCHANGED <<files, manifest, plans, consent>>
        /\ lock \in Proc \cup {Nobody}
    BY DEF ChecksTargets, Runs, IInv, Typed
  <2>2. lock = p /\ cmd[p].base = manifest.rev
    BY <2>1 DEF IInv, Holds
  <2> QED
    BY <1>2, <2>1, <2>2, DoMoves
<1> QED
  BY <1>1, <1>2 DEF ChecksTargets

\* A file is written, or removed, and its entry with it; the work left is less.
LEMMA DoTouches ==
  ASSUME IInv, NEW p \in Proc, cmd[p].at \notin {"idle", "lock"}, NEW q \in Paths,
         Named(cmd[p], q),
         NEW e \in [class : Classes, digest : Contents, moved : BOOLEAN],
         \/ e.class = "managed" /\ e.moved = cmd[p].new.entries[q].moved
         \/ e = NoEntry,
         NEW d \in Commands, SetTo(cmd[p], q, e, d),
         NEW c \in Commands, c.new = d.new, c.at = d.at, c.base = d.base, c.given = d.given,
         c.seen = d.seen, c.puts \subseteq d.puts, c.swaps \subseteq d.swaps,
         c.drops \subseteq d.drops \ {q},
         Goto(p, c), files' \in Texts, UNCHANGED <<manifest, lock, plans, consent>>
  PROVE  IInv'
<1>1. PICK b \in Commands : b = cmd[p]
  BY DEF IInv, Typed
<1>2. Working(b, manifest, plans) /\ Holds(p, b, manifest, lock)
  BY <1>1 DEF IInv
<1>3. /\ c.new.journal = b.new.journal /\ c.new.entries[q] = e
      /\ \A x \in Paths : x # q => c.new.entries[x] = b.new.entries[x]
      /\ c.at = b.at /\ c.base = b.base /\ c.puts \subseteq b.puts
      /\ c.swaps \subseteq b.swaps /\ c.drops \subseteq b.drops \ {q} /\ c.given = b.given
      /\ c.seen = b.seen
  BY <1>1 DEF SetTo
<1>4. b.new \in Manifests /\ c.new \in Manifests
  BY DEF Commands
<1>5. Sound(c.new)
  <2>1. Sound(b.new) /\ b.new.entries[q].class # "adopted"
    BY <1>1, <1>2 DEF Working
  <2> QED
    BY <1>1, <1>3, <1>4, <2>1, SoundEntry
<1>6. ASSUME NEW x \in Paths, Named(c, x) PROVE c.new.entries[x].class # "adopted"
  <2>1. Named(b, x)
    BY <1>3, <1>6 DEF Named
  <2>2. CASE x = q
    BY <1>3, <2>2 DEF NoEntry
  <2>3. CASE x # q
    BY <1>2, <1>3, <2>1, <2>3 DEF Working
  <2> QED
    BY <2>2, <2>3
<1>7. \A x \in c.drops : \A w \in c.puts \cup c.swaps : w.path # x
  BY <1>2, <1>3 DEF Working
<1>8. \A s \in c.swaps : c.given = c.seen[s.path]
  BY <1>2, <1>3 DEF Working
<1>9. c.base = manifest.rev => Fresh(c, manifest, plans)
  <2> SUFFICES ASSUME c.base = manifest.rev PROVE Fresh(c, manifest, plans)
    OBVIOUS
  <2>1. Fresh(b, manifest, plans)
    BY <1>2, <1>3 DEF Working
  <2>2. Continues(c, manifest, plans)
    BY <1>3, <2>1 DEF Fresh, Continues
  <2>3. \A w \in c.puts : c.seen[w.path] \in {NoFile, manifest.entries[w.path].digest}
    BY <1>3, <2>1 DEF Fresh
  <2>4. \A x \in c.drops : c.new.entries[x] = manifest.entries[x]
    <3>1. c.drops \subseteq Paths
      BY DEF Commands
    <3> QED
      BY <1>3, <2>1, <3>1 DEF Fresh
  <2> QED
    BY <2>2, <2>3, <2>4 DEF Fresh
<1>10. Working(c, manifest, plans) /\ Holds(p, c, manifest, lock')
  BY <1>2, <1>3, <1>5, <1>6, <1>7, <1>8, <1>9 DEF Working, Holds
<1>11. cmd' = [cmd EXCEPT ![p] = c]
  BY DEF Goto
<1> QED
  BY <1>10, <1>11, OneMoves DEF IInv, Typed

LEMMA DoSwaps == ASSUME IInv, NEW p \in Proc, Swaps(p) PROVE IInv'
<1>1. /\ cmd[p].at = "swap" /\ UNCHANGED <<manifest, lock, plans, consent>>
      /\ lock \in Proc \cup {Nobody}
  BY DEF Swaps, Runs, IInv, Typed
<1>2. lock = p /\ cmd[p].base = manifest.rev
  BY <1>1 DEF IInv, Holds
<1>3. PICK b \in Commands : b = cmd[p]
  BY DEF IInv, Typed
<1>4. ASSUME NEW s \in cmd[p].swaps, files' = [files EXCEPT ![s.path] = s.content],
             Goto(p, [Wrote(cmd[p], s.path, s.content) EXCEPT !.swaps = @ \ {s}])
      PROVE  IInv'
  <2>1. s.path \in Paths /\ s.content \in Contents
    BY <1>3, <1>4 DEF Commands, Puts
  <2>2. PICK d : d = Wrote(b, s.path, s.content)
    OBVIOUS
  <2>3. PICK e : e = Entry("managed", s.content, b.new.entries[s.path].moved)
    OBVIOUS
  <2>4. /\ SetTo(b, s.path, e, d) /\ e.class = "managed"
        /\ e.moved = b.new.entries[s.path].moved
    BY <2>1, <2>2, <2>3, WroteIs
  <2>5. d \in Commands /\ d.swaps = b.swaps /\ d.drops = b.drops
    BY <2>4 DEF SetTo
  <2>6. e \in [class : Classes, digest : Contents, moved : BOOLEAN]
    <3>1. b.new.entries[s.path].moved \in BOOLEAN
      BY <2>1 DEF Commands, Manifests, Entries
    <3> QED
      BY <2>1, <2>3, <3>1 DEF Entry, Classes
  <2>7. PICK c : c = [d EXCEPT !.swaps = @ \ {s}]
    OBVIOUS
  <2>8. /\ c \in Commands /\ c.new = d.new /\ c.at = d.at /\ c.base = d.base /\ c.given = d.given
        /\ c.seen = d.seen /\ c.puts = d.puts /\ c.swaps = d.swaps \ {s} /\ c.drops = d.drops
    BY <2>5, <2>7 DEF Commands
  <2>9. Named(b, s.path) /\ s.path \notin b.drops
    <3>1. Working(b, manifest, plans)
      BY <1>1, <1>3 DEF IInv
    <3> QED
      BY <1>3, <1>4, <3>1 DEF Named, Working
  <2>10. Goto(p, c) /\ files' \in Texts
    BY <1>3, <1>4, <2>1, <2>2, <2>7 DEF Texts, IInv, Typed
  <2> QED
    BY <1>1, <1>3, <2>1, <2>4, <2>5, <2>6, <2>8, <2>9, <2>10, DoTouches
<1>5. CASE Goto(p, [cmd[p] EXCEPT !.at = "write"]) /\ UNCHANGED files
  BY <1>1, <1>2, <1>5, DoMoves
<1> QED
  BY <1>4, <1>5 DEF Swaps

LEMMA DoWrites == ASSUME IInv, NEW p \in Proc, Writes(p) PROVE IInv'
<1>1. /\ cmd[p].at = "write" /\ UNCHANGED <<manifest, lock, plans, consent>>
      /\ lock \in Proc \cup {Nobody}
  BY DEF Writes, Runs, IInv, Typed
<1>2. lock = p /\ cmd[p].base = manifest.rev
  BY <1>1 DEF IInv, Holds
<1>3. PICK b \in Commands : b = cmd[p]
  BY DEF IInv, Typed
<1>4. ASSUME NEW w \in cmd[p].puts, files' = [files EXCEPT ![w.path] = w.content],
             Goto(p, [Wrote(cmd[p], w.path, w.content) EXCEPT !.puts = @ \ {w}])
      PROVE  IInv'
  <2>1. w.path \in Paths /\ w.content \in Contents
    BY <1>3, <1>4 DEF Commands, Puts
  <2>2. PICK d : d = Wrote(b, w.path, w.content)
    OBVIOUS
  <2>3. PICK e : e = Entry("managed", w.content, b.new.entries[w.path].moved)
    OBVIOUS
  <2>4. /\ SetTo(b, w.path, e, d) /\ e.class = "managed"
        /\ e.moved = b.new.entries[w.path].moved
    BY <2>1, <2>2, <2>3, WroteIs
  <2>5. d \in Commands /\ d.puts = b.puts /\ d.drops = b.drops
    BY <2>4 DEF SetTo
  <2>6. e \in [class : Classes, digest : Contents, moved : BOOLEAN]
    <3>1. b.new.entries[w.path].moved \in BOOLEAN
      BY <2>1 DEF Commands, Manifests, Entries
    <3> QED
      BY <2>1, <2>3, <3>1 DEF Entry, Classes
  <2>7. PICK c : c = [d EXCEPT !.puts = @ \ {w}]
    OBVIOUS
  <2>8. /\ c \in Commands /\ c.new = d.new /\ c.at = d.at /\ c.base = d.base /\ c.given = d.given
        /\ c.seen = d.seen /\ c.puts = d.puts \ {w} /\ c.swaps = d.swaps /\ c.drops = d.drops
    BY <2>5, <2>7 DEF Commands
  <2>9. Named(b, w.path) /\ w.path \notin b.drops
    <3>1. Working(b, manifest, plans)
      BY <1>1, <1>3 DEF IInv
    <3> QED
      BY <1>3, <1>4, <3>1 DEF Named, Working
  <2>10. Goto(p, c) /\ files' \in Texts
    BY <1>3, <1>4, <2>1, <2>2, <2>7 DEF Texts, IInv, Typed
  <2> QED
    BY <1>1, <1>3, <2>1, <2>4, <2>5, <2>6, <2>8, <2>9, <2>10, DoTouches
<1>5. CASE Goto(p, [cmd[p] EXCEPT !.at = "drop"]) /\ UNCHANGED files
  BY <1>1, <1>2, <1>5, DoMoves
<1> QED
  BY <1>4, <1>5 DEF Writes

LEMMA DoDrops == ASSUME IInv, NEW p \in Proc, Drops(p) PROVE IInv'
<1>1. /\ cmd[p].at = "drop" /\ UNCHANGED <<manifest, lock, plans, consent>>
      /\ lock \in Proc \cup {Nobody} /\ files \in Texts
  BY DEF Drops, Runs, IInv, Typed
<1>2. lock = p /\ cmd[p].base = manifest.rev
  BY <1>1 DEF IInv, Holds
<1>3. PICK b \in Commands : b = cmd[p]
  BY DEF IInv, Typed
<1>4. Working(b, manifest, plans) /\ Holds(p, b, manifest, lock)
  BY <1>1, <1>3 DEF IInv
<1>5. ASSUME NEW q \in cmd[p].drops, files' = [files EXCEPT ![q] = NoFile],
             Goto(p, [cmd[p] EXCEPT !.new.entries[q] = NoEntry, !.drops = @ \ {q}])
      PROVE  IInv'
  <2>1. q \in Paths
    BY <1>3, <1>5 DEF Commands
  <2>2. PICK d : d = [b EXCEPT !.new.entries[q] = NoEntry]
    OBVIOUS
  <2>3. SetTo(b, q, NoEntry, d)
    BY <2>1, <2>2, EntrySet, Basics
  <2>4. d \in Commands /\ d.drops = b.drops
    BY <2>3 DEF SetTo
  <2>5. PICK c : c = [b EXCEPT !.new.entries[q] = NoEntry, !.drops = @ \ {q}]
    OBVIOUS
  <2>6. c = [d EXCEPT !.drops = @ \ {q}]
    BY <2>2, <2>4, <2>5 DEF Commands
  <2>7. /\ c \in Commands /\ c.new = d.new /\ c.at = d.at /\ c.base = d.base /\ c.given = d.given
        /\ c.seen = d.seen /\ c.puts = d.puts /\ c.swaps = d.swaps /\ c.drops = d.drops \ {q}
    BY <2>4, <2>6 DEF Commands
  <2>8. Named(b, q)
    BY <1>3, <1>5 DEF Named
  <2>9. Goto(p, c) /\ files' \in Texts
    BY <1>1, <1>3, <1>5, <2>1, <2>5, Basics DEF Texts
  <2> QED
    BY <1>1, <1>3, <2>1, <2>3, <2>4, <2>7, <2>8, <2>9, DoTouches, Basics
<1>6. ASSUME NEW q \in cmd[p].drops, Goto(p, [cmd[p] EXCEPT !.drops = @ \ {q}]), UNCHANGED files
      PROVE  IInv'
  <2>1. PICK c : c = [b EXCEPT !.drops = @ \ {q}]
    OBVIOUS
  <2>2. /\ c \in Commands /\ c.new = b.new /\ c.at = b.at /\ c.base = b.base /\ c.given = b.given
        /\ c.seen = b.seen /\ c.puts = b.puts /\ c.swaps = b.swaps /\ c.drops = b.drops \ {q}
    BY <2>1 DEF Commands
  <2>3. Working(c, manifest, plans)
    <3>1. \A x \in Paths : Named(c, x) => Named(b, x)
      BY <2>2 DEF Named
    <3>2. c.base = manifest.rev => Fresh(c, manifest, plans)
      BY <1>4, <2>2 DEF Working, Fresh, Continues
    <3> QED
      BY <1>4, <2>2, <3>1, <3>2 DEF Working
  <2>4. cmd' = [cmd EXCEPT ![p] = c] /\ Holds(p, c, manifest, lock')
    BY <1>1, <1>3, <1>4, <1>6, <2>1, <2>2 DEF Goto, Holds
  <2> QED
    BY <1>1, <1>6, <2>2, <2>3, <2>4, OneMoves
<1>7. CASE Goto(p, [cmd[p] EXCEPT !.at = "commit"]) /\ UNCHANGED files
  BY <1>1, <1>2, <1>7, DoMoves
<1> QED
  BY <1>5, <1>6, <1>7 DEF Drops

------------------------------------------------------------------------------
(* Commits, kills and the operator.                                        *)

\* A commit's manifest: the command's, under a revision of its own.
LEMMA CommitIs ==
  ASSUME IInv, NEW p \in Proc, Commits(p), manifest' # manifest
  PROVE  /\ lock = p /\ Working(cmd[p], manifest, plans) /\ Fresh(cmd[p], manifest, plans)
         /\ manifest' \in Manifests /\ manifest'.rev = manifest.rev + 1
         /\ manifest'.journal = cmd[p].new.journal
         /\ manifest'.entries = cmd[p].new.entries
<1>1. /\ cmd[p].at = "commit"
      /\ manifest' = [cmd[p].new EXCEPT !.rev = manifest.rev + 1]
  BY DEF Commits, Runs
<1>2. Working(cmd[p], manifest, plans) /\ lock = p /\ cmd[p].base = manifest.rev
  BY <1>1 DEF IInv, Holds
<1>3. PICK m \in Manifests : m = cmd[p].new
  BY DEF IInv, Typed, Commands
<1>4. PICK k \in Nat : k = manifest.rev + 1
  BY DEF IInv, Typed, Manifests
<1>5. PICK n : n = [m EXCEPT !.rev = k]
  OBVIOUS
<1>6. n \in Manifests /\ n.rev = k /\ n.journal = m.journal /\ n.entries = m.entries
  BY <1>5 DEF Manifests
<1>7. manifest' = n
  BY <1>1, <1>3, <1>4, <1>5
<1> QED
  BY <1>2, <1>3, <1>4, <1>6, <1>7 DEF Working

\* A manifest's soundness is not about its revision.
LEMMA SoundAgain ==
  ASSUME NEW m \in Manifests, NEW n \in Manifests, n.journal = m.journal, n.entries = m.entries,
         Sound(m)
  PROVE  Sound(n)
<1>1. \A q \in Paths : About(n, q) = About(m, q) /\ Latest(n, q) = Latest(m, q)
  BY DEF About, Latest
<1>2. \A q \in Paths : Fits(m, q)
  BY AgreesIs DEF Sound
<1>3. \A q \in Paths : Fits(n, q)
  BY <1>1, <1>2 DEF Fits
<1> QED
  BY <1>3, AgreesIs DEF Sound

LEMMA DoCommits == ASSUME IInv, NEW p \in Proc, Commits(p) PROVE IInv'
<1>1. Ends(p) /\ Release(p) /\ UNCHANGED <<files, plans, consent>>
  BY DEF Commits
<1>2. CASE manifest' = manifest
  BY <1>1, <1>2, DoEnds
<1>3. CASE manifest' # manifest
  <2>1. PICK n \in Manifests : n = manifest'
    BY <1>3, CommitIs
  <2>2. /\ lock = p /\ Sound(cmd[p].new) /\ cmd[p].new \in Manifests /\ n.rev = manifest.rev + 1
        /\ n.journal = cmd[p].new.journal /\ n.entries = cmd[p].new.entries
    <3>1. cmd[p] \in Commands
      BY DEF IInv, Typed
    <3>2. cmd[p].new \in Manifests
      BY <3>1 DEF Commands
    <3> QED
      BY <1>3, <2>1, <3>2, CommitIs DEF Working
  <2>3. Sound(n)
    BY <2>2, SoundAgain
  <2>4. /\ cmd' = [cmd EXCEPT ![p] = Idle] /\ Idle \in Commands /\ Idle.at = "idle"
        /\ cmd \in [Proc -> Commands] /\ Typed
    BY <1>1, Basics DEF Ends, Goto, IInv, Typed
  <2>5. Typed'
    BY <1>1, <2>1, <2>4 DEF Typed, Release
  <2>6. ASSUME NEW o \in Proc, cmd'[o].at # "idle"
        PROVE  Working(cmd'[o], n, plans) /\ Holds(o, cmd'[o], n, lock')
    <3>1. o # p /\ cmd'[o] = cmd[o]
      BY <2>4, <2>6
    <3>2. PICK c \in Commands : c = cmd[o]
      BY <2>4
    <3>3. Working(c, manifest, plans) /\ Holds(o, c, manifest, lock)
      BY <2>6, <3>1, <3>2 DEF IInv
    <3>4. c.at = "lock"
      BY <2>2, <3>1, <3>3 DEF Holds
    <3>5. c.base \in Nat /\ manifest.rev \in Nat
      BY <2>4 DEF Commands, Typed, Manifests
    <3>6. c.base <= n.rev /\ c.base # n.rev
      BY <2>2, <3>3, <3>5 DEF Working
    <3> QED
      BY <3>1, <3>2, <3>3, <3>4, <3>6 DEF Working, Holds
  <2>7. \A o \in Proc : cmd'[o].at # "idle" =>
          Working(cmd'[o], manifest', plans') /\ Holds(o, cmd'[o], manifest', lock')
    BY <1>1, <2>1, <2>6
  <2>8. Sound(manifest)'
    BY <2>1, <2>3
  <2> QED
    BY <2>5, <2>7, <2>8 DEF IInv
<1> QED
  BY <1>2, <1>3

LEMMA DoKilled == ASSUME IInv, NEW p \in Proc, Killed(p) PROVE IInv'
  BY DoEnds DEF Killed

\* More plans shown: what was shown before still was.
LEMMA ShownStays ==
  ASSUME NEW c, NEW m, NEW s, NEW t, s \subseteq t, Working(c, m, s) PROVE Working(c, m, t)
<1>1. \A rec \in Records : Shown(rec, m, s) => Shown(rec, m, t)
  BY DEF Shown
<1> QED
  BY <1>1 DEF Working, Fresh, Continues

\* The operator's steps leave the manifest, the lock and the commands alone.
LEMMA DoOperator ==
  ASSUME IInv, UNCHANGED <<manifest, lock, cmd>>, plans \subseteq plans', files' \in Texts,
         consent' = consent \/ consent' \in Consent
  PROVE  IInv'
<1>1. Typed'
  BY DEF IInv, Typed
<1>2. \A p \in Proc : cmd[p].at # "idle" =>
        Working(cmd[p], manifest, plans') /\ Holds(p, cmd[p], manifest, lock)
  BY ShownStays DEF IInv
<1> QED
  BY <1>1, <1>2 DEF IInv

LEMMA DoConsents == ASSUME IInv, NEW q \in Paths, NEW r \in Releases, Consents(q, r) PROVE IInv'
<1>1. files \in Texts /\ manifest \in Manifests
  BY DEF IInv, Typed
<1>2. manifest.entries[q].digest \in Contents /\ files[q] \in Contents
  BY <1>1 DEF Texts, Manifests, Entries
<1>3. Declares[r][q] \in Contents
  BY DeclaredIs DEF Consents
<1>4. consent' \in Consent /\ UNCHANGED <<files, manifest, lock, cmd, plans>>
  BY <1>2, <1>3 DEF Consents, Consent
<1> QED
  BY <1>1, <1>4, DoOperator

LEMMA DoPlans ==
  ASSUME IInv, NEW q \in Paths, NEW from, NEW to, PlansTransfer(q, from, to) PROVE IInv'
<1>1. UNCHANGED <<files, manifest, lock, cmd, consent>> /\ plans \subseteq plans'
  BY DEF PlansTransfer
<1> QED
  BY <1>1, DoOperator DEF IInv, Typed

LEMMA DoEdits ==
  ASSUME IInv, NEW q \in Paths, NEW content \in Edits \cup {NoFile}, EditsFile(q, content)
  PROVE  IInv'
<1>1. UNCHANGED <<manifest, lock, cmd, plans, consent>> /\ files' = [files EXCEPT ![q] = content]
  BY DEF EditsFile
<1>2. files' \in Texts
  BY <1>1, Basics DEF Texts, IInv, Typed
<1> QED
  BY <1>1, <1>2, DoOperator

LEMMA InvStep == IInv /\ [Next]_vars => IInv'
<1> SUFFICES ASSUME IInv, [Next]_vars PROVE IInv'
  OBVIOUS
<1>1. ASSUME NEW p \in Proc, Product(p) PROVE IInv'
  <2>1. ASSUME NEW r \in Releases, ApplyStarts(p, r) \/ ConsentedStarts(p, r) PROVE IInv'
    BY <2>1, DoApplyStarts, DoConsentedStarts
  <2>2. ASSUME NEW q \in Paths, NEW from \in Classes, NEW to \in Classes,
               TransferStarts(p, q, from, to)
        PROVE  IInv'
    BY <2>2, DoTransferStarts
  <2>3. ASSUME NEW i \in DOMAIN manifest.journal, RevertStarts(p, i) PROVE IInv'
    BY <2>3, DoRevertStarts
  <2> QED
    BY <1>1, <2>1, <2>2, <2>3, DoLocks, DoChecks, DoSwaps, DoWrites, DoDrops, DoRemoveStarts,
       DoCommits DEF Product, Classes
<1>2. CASE Operator
  BY <1>2, DoConsents, DoPlans, DoEdits DEF Operator
<1>3. CASE UNCHANGED vars
  <2>1. UNCHANGED <<files, manifest, lock, cmd, plans, consent>>
    BY <1>3 DEF vars
  <2> QED
    BY <2>1, DoOperator DEF IInv, Typed
<1> QED
  BY <1>1, <1>2, <1>3, DoKilled DEF Next

------------------------------------------------------------------------------
(* Theorems.                                                               *)

\* IInv, the invariant of the proofs below: the manifest's journal agrees with
\* its entries, and what every command has in hand continues the manifest it read.
THEOREM Invariance == Spec => []IInv
  BY InvInit, InvStep, PTL DEF Spec

\* The ownership journal never disagrees with the entries (environment.rs
\* validate_ownership), whatever applies, removals, consented replacements,
\* transfers, reversals, kills and edits run, in whatever order.
THEOREM JournalAlwaysAgrees == Spec => []JournalAgrees
<1>1. IInv => JournalAgrees
  BY DEF IInv, Sound, JournalAgrees
<1> QED
  BY <1>1, Invariance, PTL

\* Only a commit changes the manifest.
LEMMA OnlyCommits ==
  ASSUME [Next]_vars, manifest' # manifest
  PROVE  \E p \in Proc : Commits(p)
  BY ZenonT(60) DEF Next, Product, Operator, vars, ApplyStarts, ConsentedStarts, ConsentedLocks, ChecksTargets,
         Swaps, Writes, Drops, RemoveStarts, TransferStarts, RevertStarts, Killed, Consents,
         PlansTransfer, EditsFile

\* A commit's journal is the journal in force, or that and one record as it was shown.
LEMMA JournalMoves ==
  ASSUME IInv, [Next]_vars, manifest' # manifest
  PROVE  \/ manifest'.journal = manifest.journal
         \/ \E rec \in Records : /\ manifest'.journal = Append(manifest.journal, rec)
                                 /\ Shown(rec, manifest, plans)
<1>1. PICK p \in Proc : Commits(p)
  BY OnlyCommits
<1>2. Fresh(cmd[p], manifest, plans) /\ manifest'.journal = cmd[p].new.journal
  BY <1>1, CommitIs
<1> QED
  BY <1>2 DEF Fresh, Continues

LEMMA JournalTyped ==
  ASSUME IInv
  PROVE  /\ manifest.journal \in Seq(Records) /\ Len(manifest.journal) \in Nat
         /\ DOMAIN manifest.journal = 1 .. Len(manifest.journal)
  BY DEF IInv, Typed, Manifests

\* No commit drops or rewrites a transfer that the manifest in force records
\* (manifest commit and its compare with the base digest).
THEOREM CommitsKeepTransfers == Spec => NothingLost
<1> DEFINE Kept == \A i \in DOMAIN manifest.journal :
                     i \in DOMAIN manifest'.journal /\ manifest'.journal[i] = manifest.journal[i]
<1>1. IInv /\ [Next]_vars => Kept
  <2> SUFFICES ASSUME IInv, [Next]_vars PROVE Kept
    OBVIOUS
  <2>1. CASE manifest' = manifest
    BY <2>1
  <2>2. CASE manifest' # manifest
    <3>1. PICK j \in Seq(Records) : j = manifest.journal
      BY JournalTyped
    <3>2. PICK k : k = manifest'.journal
      OBVIOUS
    <3>3. k = j \/ \E rec \in Records : k = Append(j, rec)
      BY <2>2, <3>1, <3>2, JournalMoves
    <3>4. \A i \in DOMAIN j : i \in DOMAIN k /\ k[i] = j[i]
      BY <3>3
    <3> QED
      BY <3>1, <3>2, <3>4
  <2> QED
    BY <2>1, <2>2
<1>2. IInv /\ [Next]_vars => [Kept]_vars
  BY <1>1
<1> QED
  BY <1>2, Invariance, PTL DEF Spec, NothingLost

\* A transfer is recorded only as an operator was shown it, and a reversal only
\* of the bytes its record accounts for (transfer.rs apply_transfer and revert).
THEOREM TransfersAreAsShown == Spec => TransferAsShown
<1> DEFINE AsShown ==
      Len(manifest'.journal) > Len(manifest.journal) =>
        LET rec == manifest'.journal[Len(manifest'.journal)] IN
        IF rec.reverts = 0 THEN PlanOf(rec.path, rec.from, rec.to, rec.digest, manifest.rev) \in plans
        ELSE rec.digest = Expected(manifest, manifest.journal[rec.reverts])
<1>1. IInv /\ [Next]_vars => AsShown
  <2> SUFFICES ASSUME IInv, [Next]_vars, Len(manifest'.journal) > Len(manifest.journal)
               PROVE  AsShown
    OBVIOUS
  <2>1. manifest.journal \in Seq(Records) /\ Len(manifest.journal) \in Nat
    BY JournalTyped
  <2>2. manifest'.journal # manifest.journal
    BY <2>1
  <2>3. PICK rec \in Records : /\ manifest'.journal = Append(manifest.journal, rec)
                               /\ Shown(rec, manifest, plans)
    BY <2>2, JournalMoves
  <2>4. manifest'.journal[Len(manifest'.journal)] = rec
    <3>1. PICK j \in Seq(Records) : j = manifest.journal
      BY <2>1
    <3>2. PICK k : k = manifest'.journal
      OBVIOUS
    <3>3. k = Append(j, rec)
      BY <2>3, <3>1, <3>2
    <3>4. k[Len(k)] = rec
      BY <3>1, <3>3
    <3> QED
      BY <3>2, <3>4
  <2> QED
    BY <2>3, <2>4 DEF Shown
<1>2. IInv /\ [Next]_vars => [AsShown]_vars
  BY <1>1
<1> QED
  BY <1>2, Invariance, PTL DEF Spec, TransferAsShown

\* The operator's bytes that a command saw when it planned survive the command's
\* own steps, but for the one replacement consented to of those very bytes
\* (apply.rs apply_consented, write_declared and retire).
THEOREM SeenEditsStay == Spec => SeenEditsSurvive
<1> DEFINE Seen ==
      \A p \in Proc, q \in Paths :
        cmd'[p] # cmd[p] /\ files'[q] # files[q] /\ files[q] \in Edits /\ files[q] = cmd[p].seen[q] =>
          \/ manifest.entries[q].digest = files[q]
          \/ cmd[p].given = files[q]
<1>1. IInv /\ [Next]_vars => Seen
  <2> SUFFICES ASSUME IInv, [Next]_vars, NEW p \in Proc, NEW q \in Paths,
                      cmd'[p] # cmd[p], files'[q] # files[q], files[q] \in Edits,
                      files[q] = cmd[p].seen[q]
               PROVE  manifest.entries[q].digest = files[q] \/ cmd[p].given = files[q]
    OBVIOUS
  <2>0. /\ cmd \in [Proc -> Commands] /\ files \in Texts /\ files[q] # NoFile
        /\ cmd[p].swaps \subseteq Puts /\ cmd[p].puts \subseteq Puts
    BY Basics DEF IInv, Typed, Commands
  <2>1. Swaps(p) \/ Writes(p) \/ Drops(p)
    <3>1. \A o \in Proc : \A c : Goto(o, c) /\ o # p => cmd'[p] = cmd[p]
      BY <2>0 DEF Goto
    <3>2. \A o \in Proc : Swaps(o) \/ Writes(o) \/ Drops(o) => o = p
      BY <3>1 DEF Swaps, Writes, Drops
    <3> QED
      BY <3>2, ZenonT(60) DEF Next, Product, Operator, vars, ApplyStarts, ConsentedStarts, ConsentedLocks,
                  ChecksTargets, RemoveStarts, TransferStarts, RevertStarts, Commits, Killed,
                  Consents, PlansTransfer, EditsFile
  <2>2. cmd[p].at \notin {"idle", "lock"}
    BY <2>1 DEF Swaps, Writes, Drops, Runs
  <2>3. Working(cmd[p], manifest, plans) /\ cmd[p].base = manifest.rev
    BY <2>2 DEF IInv, Holds
  <2>4. Fresh(cmd[p], manifest, plans)
    BY <2>3 DEF Working
  <2>5. CASE Swaps(p)
    <3>1. PICK s \in cmd[p].swaps : files' = [files EXCEPT ![s.path] = s.content]
      BY <2>5 DEF Swaps
    <3>2. s.path = q
      BY <2>0, <3>1 DEF Texts
    <3> QED
      BY <2>3, <3>1, <3>2 DEF Working
  <2>6. CASE Writes(p)
    <3>1. PICK w \in cmd[p].puts : files' = [files EXCEPT ![w.path] = w.content]
      BY <2>6 DEF Writes
    <3>2. w.path = q
      BY <2>0, <3>1 DEF Texts
    <3>3. cmd[p].seen[q] \in {NoFile, manifest.entries[q].digest}
      BY <2>4, <3>1, <3>2 DEF Fresh
    <3> QED
      BY <2>0, <3>3
  <2>7. CASE Drops(p)
    <3>1. PICK x \in cmd[p].drops : /\ files[x] \in {NoFile, cmd[p].new.entries[x].digest}
                                    /\ files' = [files EXCEPT ![x] = NoFile]
      BY <2>7 DEF Drops
    <3>2. x = q
      BY <2>0, <3>1 DEF Texts
    <3>3. cmd[p].new.entries[q] = manifest.entries[q]
      BY <2>4, <3>1, <3>2 DEF Fresh
    <3> QED
      BY <2>0, <3>1, <3>2, <3>3
  <2> QED
    BY <2>1, <2>5, <2>6, <2>7
<1>2. IInv /\ [Next]_vars => [Seen]_vars
  BY <1>1
<1> QED
  BY <1>2, Invariance, PTL DEF Spec, SeenEditsSurvive

=============================================================================
