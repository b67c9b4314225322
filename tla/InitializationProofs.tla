------------------------- MODULE InitializationProofs -------------------------
(***************************************************************************)
(* Initialization, for any files, any releases, and however many applies,  *)
(* stops, plans and edits: no apply writes over what it found of the       *)
(* operator's, and an approved plan is performed as it was shown.          *)
(***************************************************************************)
EXTENDS Initialization, TLAPS

------------------------------------------------------------------------------
(* What the preflight decides, typed.                                      *)

LEMMA PlanTyped ==
  ASSUME TypeOK, NEW r \in Releases, NEW withheld \in BOOLEAN
  PROVE  ProfilePlan(r, withheld) \in [Elements(Profile) -> Actions]
<1>1. ASSUME NEW p \in Elements(Profile)
      PROVE  ProfileAction(p, r) \in Actions
  BY DEF ProfileAction, Managing, Resuming, Actions, Recording, Writing
<1> QED
  BY <1>1 DEF ProfilePlan, Actions

LEMMA ReconciledTyped ==
  ASSUME TypeOK
  PROVE  /\ Reconciled \in Manifests
         /\ \A p \in Paths :
              \/ Reconciled.entries[p] = manifest.entries[p]
              \/ /\ p \in Elements(Governance)
                 /\ Reconciled.entries[p] = [class |-> "adopted", digest |-> disk[p]]
<1> DEFINE m == manifest.entries
           e == [p \in Paths |-> IF p \in Elements(Governance) /\ m[p] = NoEntry /\ disk[p] # Absent
                                 THEN [class |-> "adopted", digest |-> disk[p]]
                                 ELSE m[p]]
<1>1. manifest \in Manifests /\ m \in Entries /\ disk \in [Paths -> Contents]
  BY DEF TypeOK, Manifests
<1>2. e \in Entries
  BY <1>1 DEF Entries
<1>3. Reconciled = [manifest EXCEPT !.entries = e]
  BY <1>1 DEF Reconciled, Manifests
<1>4. Reconciled \in Manifests /\ Reconciled.entries = e
  BY <1>1, <1>2, <1>3 DEF Manifests
<1> QED
  BY <1>4

LEMMA IdentityTyped ==
  ASSUME TypeOK, NEW r \in Releases, NEW spine \in BOOLEAN, NEW withheld \in BOOLEAN
  PROVE  Identity(r, spine, withheld) \in Shown
<1>1. [p \in Elements(Profile) |-> disk[p]] \in [Elements(Profile) -> Contents]
  BY DEF TypeOK, Paths
<1>2. (IF spine THEN <<disk, bridge, manifest>> ELSE <<>>)
        \in {<<>>} \cup ([Paths -> Contents] \X Texts \X Manifests)
  BY DEF TypeOK
<1> QED
  BY <1>1, <1>2, PlanTyped DEF Identity, Shown, TypeOK

LEMMA BeginsTyped ==
  ASSUME TypeOK, NEW r \in Releases, NEW named \in BOOLEAN, NEW approved \in BOOLEAN,
         NEW withheld \in BOOLEAN, Begins(r, named, approved, withheld)
  PROVE  TypeOK'
<1>1. Selected(named) \in BOOLEAN
  BY DEF Selected
<1>2. cmd' \in Commands
  <2>1. {p \in Elements(Governance) : Governs(Reconciled, p)} \in SUBSET Paths
    BY DEF Paths
  <2>2. (IF approved THEN shown ELSE NoPlan) \in Shown
    BY DEF TypeOK, Shown
  <2>3. (loose # {}) \in BOOLEAN
    OBVIOUS
  <2> QED
    BY <1>1, <2>1, <2>2, <2>3, PlanTyped, ReconciledTyped DEF Begins, Commands, TypeOK
<1>3. counts' \in [commands : Nat, plans : Nat, stops : Nat, edits : Nat]
  BY DEF Begins, Count, TypeOK
<1> QED
  BY <1>2, <1>3 DEF Begins, TypeOK, files

\* The next file to be written is one that is still to be.
LEMMA ForemostIsToDo ==
  ASSUME NEW s
  PROVE  Foremost(s) \subseteq cmd.todo /\ Foremost(s) \subseteq Elements(s)
BY DEF Foremost, Elements

LEMMA ManagedTyped ==
  ASSUME NEW r \in Releases
  PROVE  Managed(r) \in [class : {"none", "adopted", "managed"}, digest : Contents]
BY DEF Managed, Contents

LEMMA AppliesTyped ==
  ASSUME TypeOK, Applies
  PROVE  TypeOK'
<1> USE DEF At, Goto
<1>0. cmd # Idle => cmd \in Commands
  BY DEF TypeOK
<1>1. CASE Revalidates
  <2>1. cmd \in Commands
    BY <1>0, <1>1 DEF Revalidates, Idle
  <2>2. cmd' = Idle \/ cmd' \in Commands
    BY <1>1, <2>1, ZenonT(60) DEF Revalidates, Commands
  <2> QED
    BY <1>1, <2>2 DEF Revalidates, TypeOK, files
<1>2. CASE StagesPin
  <2>1. cmd \in Commands
    BY <1>0, <1>2 DEF StagesPin, Idle
  <2>2. cmd' = Idle \/ cmd' \in Commands
    BY <1>2, <2>1 DEF StagesPin, TypeOK, Commands
  <2> QED
    BY <1>2, <2>2 DEF StagesPin, TypeOK, files
<1>3. CASE RenamesPin
  <2>1. cmd \in Commands
    BY <1>0, <1>3 DEF RenamesPin, Idle
  <2>2. [cmd.new EXCEPT !.pinned = TRUE] \in Manifests
    BY <2>1 DEF Commands, Manifests
  <2>3. cmd' \in Commands
    BY <1>3, <2>1, <2>2 DEF RenamesPin, Commands
  <2>4. pin' \in Pins
    BY <1>3, <2>1 DEF RenamesPin, Commands, Pins
  <2> QED
    BY <1>3, <2>3, <2>4 DEF RenamesPin, TypeOK
<1>4. CASE WritesGovernance
  <2>1. cmd \in Commands
    BY <1>0, <1>4 DEF WritesGovernance, Idle
  <2>2. PICK p \in Foremost(Governance) :
          /\ IF PassedOver(p) THEN UNCHANGED <<disk, loose>> ELSE Wrote(p)
          /\ cmd' = [cmd EXCEPT !.todo = @ \ {p}, !.new.entries[p] = Managed(cmd.release)]
    BY <1>4 DEF WritesGovernance
  <2>3. p \in Paths
    BY <2>1, ForemostIsToDo DEF Commands
  <2>4. cmd.release \in Releases /\ Managed(cmd.release) \in [class : {"none", "adopted", "managed"}, digest : Contents]
    BY <2>1, ManagedTyped DEF Commands
  <2>5. [cmd.new EXCEPT !.entries[p] = Managed(cmd.release)] \in Manifests
    BY <2>1, <2>3, <2>4 DEF Commands, Manifests, Entries
  <2>6. cmd' \in Commands
    BY <2>1, <2>2, <2>5 DEF Commands
  <2>7. disk' \in [Paths -> Contents] /\ loose' \subseteq Resumable
    BY <2>2, <2>3, <2>4 DEF Wrote, TypeOK, Contents
  <2> QED
    BY <1>4, <2>6, <2>7 DEF WritesGovernance, TypeOK
<1>5. CASE WritesResume
  <2>1. cmd \in Commands
    BY <1>0, <1>5 DEF WritesResume, Idle
  <2>2. cmd' \in Commands
    <3>1. CASE Performs
      <4>1. ToWrite \in SUBSET Paths
        BY DEF ToWrite, Paths
      <4>2. cmd' = [cmd EXCEPT !.at = "profile", !.todo = ToWrite]
        BY <1>5, <3>1 DEF WritesResume
      <4> HIDE DEF ToWrite
      <4> QED
        BY <2>1, <4>1, <4>2 DEF Commands
    <3>2. CASE ~Performs
      BY <1>5, <2>1, <3>2 DEF WritesResume, Commands
    <3> QED
      BY <3>1, <3>2
  <2>3. DOMAIN resume' \subseteq Elements(Profile) /\ resume' \in [DOMAIN resume' -> Contents]
    <3>1. OnRecord \subseteq Elements(Profile)
      BY DEF OnRecord, ToWrite
    <3>2. \A p \in OnRecord : cmd.seen[p] \in Contents
      BY <3>1, <2>1 DEF Commands, Paths
    <3> QED
      BY <1>5, <3>1, <3>2 DEF WritesResume, TypeOK
  <2> QED
    BY <1>5, <2>2, <2>3 DEF WritesResume, TypeOK
<1>6. CASE WritesProfile
  <2>1. cmd \in Commands
    BY <1>0, <1>6 DEF WritesProfile, Idle
  <2>2. PICK p \in Foremost(Profile) : Wrote(p) /\ cmd' = [cmd EXCEPT !.todo = @ \ {p}]
    BY <1>6 DEF WritesProfile
  <2>3. p \in Paths
    BY <2>1, ForemostIsToDo DEF Commands
  <2>4. cmd' \in Commands
    BY <2>1, <2>2 DEF Commands
  <2>5. disk' \in [Paths -> Contents] /\ loose' \subseteq Resumable
    BY <2>1, <2>2, <2>3 DEF Wrote, TypeOK, Contents, Commands
  <2> QED
    BY <1>6, <2>4, <2>5 DEF WritesProfile, TypeOK
<1>7. CASE RecordsProfile
  <2>1. cmd \in Commands
    BY <1>0, <1>7 DEF RecordsProfile, Idle
  <2> DEFINE e == [p \in Paths |-> IF p \in Elements(Profile) /\ cmd.actions[p] \in Recording
                                   THEN Managed(cmd.release) ELSE cmd.new.entries[p]]
  <2>2. e \in Entries
    BY <2>1, ManagedTyped DEF Commands, Manifests, Entries
  <2>3. [cmd.new EXCEPT !.setup = cmd.release, !.entries = e] \in Manifests
    BY <2>1, <2>2 DEF Commands, Manifests
  <2>4. cmd' = [cmd EXCEPT !.at = "bridge", !.new = [cmd.new EXCEPT !.setup = cmd.release, !.entries = e]]
    BY <1>7, <2>1 DEF RecordsProfile, Commands, Manifests
  <2>5. cmd' \in Commands
    BY <2>1, <2>3, <2>4 DEF Commands
  <2> QED
    BY <1>7, <2>5 DEF RecordsProfile, TypeOK, files
<1>8. CASE WritesBridge
  <2>1. cmd \in Commands
    BY <1>0, <1>8 DEF WritesBridge, Idle
  <2>2. [cmd.new EXCEPT !.bridged = TRUE] \in Manifests /\ [cmd.text EXCEPT !.line = TRUE] \in Texts
    BY <2>1 DEF Commands, Manifests, Texts
  <2>3. cmd' \in Commands
    <3>1. CASE cmd' = [cmd EXCEPT !.at = "commit"]
      BY <2>1, <3>1 DEF Commands
    <3>2. CASE cmd' = [cmd EXCEPT !.at = "commit", !.new.bridged = TRUE]
      BY <2>1, <2>2, <3>2 DEF Commands
    <3> QED
      BY <1>8, <3>1, <3>2 DEF WritesBridge, Goto
  <2> QED
    BY <1>8, <2>2, <2>3 DEF WritesBridge, TypeOK
<1>9. CASE Commits
  BY <1>0, <1>9 DEF Commits, TypeOK, Idle, Commands
<1>10. CASE Finishes
  BY <1>0, <1>10 DEF Finishes, Spends, NoResume, TypeOK, Idle, Commands
<1> QED
  BY <1>1, <1>2, <1>3, <1>4, <1>5, <1>6, <1>7, <1>8, <1>9, <1>10 DEF Applies

LEMMA StopsTyped ==
  ASSUME TypeOK, Stops
  PROVE  TypeOK'
<1>1. cmd \in Commands
  BY DEF Stops, At, TypeOK, Idle
<1>2. /\ disk' \in [Paths -> Contents]
      /\ bridge' \in Texts
      /\ DOMAIN resume' \subseteq Elements(Profile)
      /\ resume' \in [DOMAIN resume' -> Contents]
      /\ loose' \subseteq Resumable
  <2>1. NoResume \in [DOMAIN NoResume -> Contents] /\ DOMAIN NoResume = {} /\ NoText \in Texts
    BY DEF NoResume, NoText, Texts
  <2>2. CASE UNCHANGED <<disk, bridge, resume, loose>>
    BY <2>2 DEF TypeOK
  <2>3. CASE \E p \in Foremost(IF At("profile") THEN Profile ELSE Governance) :
               /\ disk' = [disk EXCEPT ![p] = Half]
               /\ loose' = loose \ {p}
               /\ UNCHANGED <<bridge, resume>>
    BY <2>3 DEF TypeOK, Contents
  <2>4. CASE resume' = NoResume /\ UNCHANGED <<disk, bridge, loose>>
    BY <2>1, <2>4 DEF TypeOK
  <2>5. CASE bridge' = NoText /\ UNCHANGED <<disk, resume, loose>>
    BY <2>1, <2>5 DEF TypeOK
  <2> QED
    BY <2>2, <2>3, <2>4, <2>5 DEF Stops, HalfWritten
<1>3. counts' \in [commands : Nat, plans : Nat, stops : Nat, edits : Nat] /\ spent' \in BOOLEAN
  BY <1>1 DEF Stops, Count, Spends, TypeOK, Commands
<1> QED
  BY <1>2, <1>3 DEF Stops, TypeOK

LEMMA TypeInvariant == TypeOK /\ [Next]_vars => TypeOK'
<1> SUFFICES ASSUME TypeOK, [Next]_vars PROVE TypeOK'
  OBVIOUS
<1>1. CASE Applies
  BY <1>1, AppliesTyped
<1>2. ASSUME NEW r \in Releases, NEW spine \in BOOLEAN, NEW withheld \in BOOLEAN,
             Plans(r, spine, withheld)
      PROVE  TypeOK'
  BY <1>2, IdentityTyped DEF Plans, Count, TypeOK, files
<1>3. ASSUME NEW r \in Releases, NEW named \in BOOLEAN, NEW approved \in BOOLEAN,
             NEW withheld \in BOOLEAN, Begins(r, named, approved, withheld)
      PROVE  TypeOK'
  BY <1>3, BeginsTyped
<1>4. CASE Stops
  BY <1>4, StopsTyped
<1>5. ASSUME NEW p \in Paths, NEW bytes \in {Absent, Mine}, Edits(p, bytes)
      PROVE  TypeOK'
  BY <1>5 DEF Edits, Count, TypeOK, Contents
<1>6. CASE EditsPin
  BY <1>6 DEF EditsPin, Count, TypeOK, Pins
<1>7. CASE UNCHANGED vars
  BY <1>7 DEF vars, files, TypeOK
<1> QED
  BY <1>1, <1>2, <1>3, <1>4, <1>5, <1>6, <1>7 DEF Next

LEMMA InitTyped == Init => TypeOK
<1>1. NoManifest \in Manifests
  BY DEF NoManifest, Manifests, Entries, NoEntry, Contents
<1>2. NoResume \in [DOMAIN NoResume -> Contents] /\ DOMAIN NoResume = {}
  BY DEF NoResume
<1> SUFFICES ASSUME Init PROVE TypeOK
  OBVIOUS
<1>3. disk \in [Paths -> Contents] /\ bridge \in Texts
  BY DEF Init, Contents, Texts
<1>4. pin \in Pins /\ shown \in Shown /\ counts \in [commands : Nat, plans : Nat, stops : Nat, edits : Nat]
  BY DEF Init, Pins, Shown
<1> QED
  BY <1>1, <1>2, <1>3, <1>4 DEF Init, TypeOK

\* Every variable of an initialization keeps its type.
THEOREM TypeCorrect == Spec => []TypeOK
BY InitTyped, TypeInvariant, PTL DEF Spec

------------------------------------------------------------------------------
(* What of the operator's an apply may write over: nothing it found.       *)

\* A recorded file of this product holds a release's bytes, and the entries of a profile are
\* its own.
OwnEntries(m) == \A p \in Paths :
  /\ m.entries[p].class = "managed" => m.entries[p].digest \in Releases
  /\ p \in Elements(Profile) => m.entries[p] = NoEntry \/ m.entries[p].class = "managed"

\* What an apply is to write held no bytes of the operator when the preflight looked.
ApplyKnows ==
  cmd # Idle =>
    /\ OwnEntries(cmd.new)
    /\ \A p \in cmd.todo : cmd.seen[p] # Mine
    /\ \A p \in Elements(Profile) : cmd.actions[p] \in Writing => cmd.seen[p] # Mine
    /\ cmd.text.text = bridge.text

ResumeKnows == \A p \in DOMAIN resume : resume[p] # Mine

SurvivalInv == TypeOK /\ OwnEntries(manifest) /\ ResumeKnows /\ ApplyKnows

LEMMA WritingIsSafe ==
  ASSUME SurvivalInv, NEW r \in Releases, NEW p \in Elements(Profile),
         ProfileAction(p, r) \in Writing
  PROVE  disk[p] # Mine
<1>1. Mine \notin Releases /\ Mine # Absent
  BY InitializationAssumption
<1>2. CASE manifest.entries[p] # NoEntry
  <2>1. manifest.entries[p].digest \in Releases
    BY <1>2 DEF SurvivalInv, OwnEntries, Paths
  <2>2. disk[p] \in {manifest.entries[p].digest, Absent}
    BY <1>2 DEF ProfileAction, Managing, Writing
  <2> QED
    BY <1>1, <2>1, <2>2
<1>3. CASE manifest.entries[p] = NoEntry
  <2>1. disk[p] = Absent \/ (p \in DOMAIN resume /\ disk[p] = resume[p])
    BY <1>3 DEF ProfileAction, Resuming, Writing
  <2> QED
    BY <1>1, <2>1 DEF SurvivalInv, ResumeKnows
<1> QED
  BY <1>2, <1>3

LEMMA ReconciledIsOwn ==
  ASSUME SurvivalInv
  PROVE  OwnEntries(Reconciled)
<1> SUFFICES ASSUME NEW p \in Paths
             PROVE  /\ Reconciled.entries[p].class = "managed" => Reconciled.entries[p].digest \in Releases
                    /\ p \in Elements(Profile) =>
                         Reconciled.entries[p] = NoEntry \/ Reconciled.entries[p].class = "managed"
  BY DEF OwnEntries
<1>1. CASE Reconciled.entries[p] = manifest.entries[p]
  BY <1>1 DEF SurvivalInv, OwnEntries
<1>2. CASE p \in Elements(Governance) /\ Reconciled.entries[p] = [class |-> "adopted", digest |-> disk[p]]
  BY <1>2, InitializationAssumption
<1> QED
  BY <1>1, <1>2, ReconciledTyped DEF SurvivalInv

LEMMA GoverningIsSafe ==
  ASSUME SurvivalInv, NEW p \in Elements(Governance), Governs(Reconciled, p)
  PROVE  disk[p] # Mine
BY ReconciledIsOwn, InitializationAssumption DEF Governs, OwnEntries, Paths

LEMMA BeginsSafely ==
  ASSUME SurvivalInv, NEW r \in Releases, NEW named \in BOOLEAN, NEW approved \in BOOLEAN,
         NEW withheld \in BOOLEAN, Begins(r, named, approved, withheld)
  PROVE  ApplyKnows'
<1>1. /\ cmd'.new = Reconciled
      /\ cmd'.todo = {p \in Elements(Governance) : Governs(Reconciled, p)}
      /\ cmd'.actions = ProfilePlan(r, withheld)
      /\ cmd'.seen = disk /\ cmd'.text = bridge /\ bridge' = bridge
  BY DEF Begins, files
<1>2. OwnEntries(cmd'.new)
  BY <1>1, ReconciledIsOwn
<1>3. \A p \in cmd'.todo : cmd'.seen[p] # Mine
  BY <1>1, GoverningIsSafe
<1>4. ASSUME NEW p \in Elements(Profile), cmd'.actions[p] \in Writing
      PROVE  cmd'.seen[p] # Mine
  <2>1. ProfileAction(p, r) \in Writing
    BY <1>1, <1>4 DEF ProfilePlan, Writing
  <2> QED
    BY <1>1, <2>1, WritingIsSafe
<1> QED
  BY <1>1, <1>2, <1>3, <1>4 DEF ApplyKnows, OwnEntries

LEMMA ManagingIsOwn ==
  ASSUME NEW r \in Releases
  PROVE  Managed(r).class = "managed" /\ Managed(r).digest \in Releases
BY DEF Managed

LEMMA AppliesSafely ==
  ASSUME SurvivalInv, Applies
  PROVE  OwnEntries(manifest)' /\ ResumeKnows' /\ ApplyKnows'
<1> USE DEF At, Goto
<1>0. cmd # Idle => cmd \in Commands
  BY DEF SurvivalInv, TypeOK
<1>1. CASE Revalidates
  <2>1. cmd \in Commands
    BY <1>0, <1>1 DEF Revalidates, Idle
  <2>2. cmd' = Idle \/ cmd' = [cmd EXCEPT !.at = "stage"]
    BY <1>1 DEF Revalidates
  <2> QED
    BY <1>1, <2>1, <2>2 DEF Revalidates, SurvivalInv, ApplyKnows, ResumeKnows, OwnEntries, files, Commands, Idle
<1>2. CASE StagesPin
  <2>1. cmd \in Commands
    BY <1>0, <1>2 DEF StagesPin, Idle
  <2>2. cmd' = Idle \/ cmd' = [cmd EXCEPT !.at = "pin", !.looked = pin]
    BY <1>2 DEF StagesPin
  <2> QED
    BY <1>2, <2>1, <2>2 DEF StagesPin, SurvivalInv, ApplyKnows, ResumeKnows, OwnEntries, files, Commands, Idle
<1>3. CASE RenamesPin
  <2>1. cmd \in Commands /\ cmd # Idle
    BY <1>0, <1>3 DEF RenamesPin, Idle
  <2>2. /\ cmd'.new.entries = cmd.new.entries
        /\ cmd'.todo = cmd.todo /\ cmd'.seen = cmd.seen
        /\ cmd'.actions = cmd.actions /\ cmd'.text = cmd.text
    BY <1>3, <2>1 DEF RenamesPin, Commands, Manifests
  <2> QED
    BY <1>3, <2>1, <2>2 DEF RenamesPin, SurvivalInv, ApplyKnows, ResumeKnows, OwnEntries
<1>4. CASE WritesGovernance
  <2>1. cmd \in Commands /\ cmd # Idle
    BY <1>0, <1>4 DEF WritesGovernance, Idle
  <2>2. PICK p \in Foremost(Governance) :
          cmd' = [cmd EXCEPT !.todo = @ \ {p}, !.new.entries[p] = Managed(cmd.release)]
    BY <1>4 DEF WritesGovernance
  <2>3. p \in Paths /\ cmd.release \in Releases
    BY <2>1, ForemostIsToDo DEF Commands
  <2>4. /\ cmd'.new.entries = [cmd.new.entries EXCEPT ![p] = Managed(cmd.release)]
        /\ cmd'.todo \subseteq cmd.todo /\ cmd'.seen = cmd.seen
        /\ cmd'.actions = cmd.actions /\ cmd'.text = cmd.text
    BY <2>1, <2>2 DEF Commands, Manifests
  <2>5. \A q \in Paths : \/ cmd'.new.entries[q] = cmd.new.entries[q]
                         \/ cmd'.new.entries[q] = Managed(cmd.release)
    BY <2>1, <2>3, <2>4 DEF Commands, Manifests, Entries
  <2>6. OwnEntries(cmd.new)
    BY <2>1 DEF SurvivalInv, ApplyKnows
  <2>7. OwnEntries(cmd'.new)
    BY <2>3, <2>5, <2>6, ManagingIsOwn DEF OwnEntries
  <2>8. OwnEntries(manifest)' /\ ResumeKnows'
    BY <1>4 DEF WritesGovernance, SurvivalInv, ResumeKnows, OwnEntries
  <2>9. bridge' = bridge
    BY <1>4 DEF WritesGovernance
  <2> QED
    BY <2>1, <2>4, <2>7, <2>8, <2>9 DEF SurvivalInv, ApplyKnows, OwnEntries
<1>5. CASE WritesResume
  <2>1. cmd \in Commands /\ cmd # Idle
    BY <1>0, <1>5 DEF WritesResume, Idle
  <2>2. /\ cmd'.new = cmd.new /\ cmd'.seen = cmd.seen
        /\ cmd'.actions = cmd.actions /\ cmd'.text = cmd.text
        /\ cmd'.todo = cmd.todo \/ cmd'.todo = ToWrite
    BY <1>5, <2>1, ZenonT(60) DEF WritesResume, Commands
  <2>3. \A p \in ToWrite : cmd.seen[p] # Mine
    BY <2>1 DEF SurvivalInv, ApplyKnows, ToWrite
  <2>4. ResumeKnows'
    BY <1>5, <2>3 DEF WritesResume, OnRecord, SurvivalInv, ResumeKnows
  <2> QED
    BY <1>5, <2>1, <2>2, <2>3, <2>4 DEF WritesResume, SurvivalInv, ApplyKnows, OwnEntries
<1>6. CASE WritesProfile
  <2>1. cmd \in Commands /\ cmd # Idle
    BY <1>0, <1>6 DEF WritesProfile, Idle
  <2>2. /\ cmd'.new = cmd.new /\ cmd'.seen = cmd.seen
        /\ cmd'.actions = cmd.actions /\ cmd'.text = cmd.text
        /\ cmd'.todo \subseteq cmd.todo
    BY <1>6, <2>1 DEF WritesProfile, Commands
  <2> QED
    BY <1>6, <2>1, <2>2 DEF WritesProfile, SurvivalInv, ApplyKnows, ResumeKnows, OwnEntries
<1>7. CASE RecordsProfile
  <2>1. cmd \in Commands /\ cmd # Idle
    BY <1>0, <1>7 DEF RecordsProfile, Idle
  <2>2. /\ cmd'.new.entries = [p \in Paths |-> IF p \in Elements(Profile) /\ cmd.actions[p] \in Recording
                                              THEN Managed(cmd.release) ELSE cmd.new.entries[p]]
        /\ cmd'.todo = cmd.todo /\ cmd'.seen = cmd.seen
        /\ cmd'.actions = cmd.actions /\ cmd'.text = cmd.text
    BY <1>7, <2>1 DEF RecordsProfile, Commands, Manifests
  <2>3. \A q \in Paths : \/ cmd'.new.entries[q] = cmd.new.entries[q]
                         \/ cmd'.new.entries[q] = Managed(cmd.release)
    BY <2>2
  <2>4. OwnEntries(cmd.new) /\ cmd.release \in Releases
    BY <2>1 DEF SurvivalInv, ApplyKnows, Commands
  <2>5. OwnEntries(cmd'.new)
    BY <2>3, <2>4, ManagingIsOwn DEF OwnEntries
  <2>6. OwnEntries(manifest)' /\ ResumeKnows' /\ bridge' = bridge
    BY <1>7 DEF RecordsProfile, SurvivalInv, ResumeKnows, OwnEntries, files
  <2> QED
    BY <2>1, <2>2, <2>5, <2>6 DEF SurvivalInv, ApplyKnows, OwnEntries
<1>8. CASE WritesBridge
  <2>1. cmd \in Commands /\ cmd # Idle
    BY <1>0, <1>8 DEF WritesBridge, Idle
  <2>2. /\ cmd'.new.entries = cmd.new.entries
        /\ cmd'.todo = cmd.todo /\ cmd'.seen = cmd.seen
        /\ cmd'.actions = cmd.actions /\ cmd'.text = cmd.text
    <3>1. CASE cmd' = [cmd EXCEPT !.at = "commit"]
      BY <2>1, <3>1 DEF Commands
    <3>2. CASE cmd' = [cmd EXCEPT !.at = "commit", !.new.bridged = TRUE]
      <4>1. [cmd.new EXCEPT !.bridged = TRUE].entries = cmd.new.entries
        BY <2>1 DEF Commands, Manifests
      <4> QED
        BY <2>1, <3>2, <4>1 DEF Commands
    <3> QED
      BY <1>8, <3>1, <3>2 DEF WritesBridge, Goto
  <2>3. bridge'.text = cmd.text.text
    BY <1>8, <2>1 DEF WritesBridge, SurvivalInv, ApplyKnows, Commands, Texts
  <2> QED
    BY <1>8, <2>1, <2>2, <2>3 DEF WritesBridge, SurvivalInv, ApplyKnows, ResumeKnows, OwnEntries
<1>9. CASE Commits
  <2>1. cmd \in Commands /\ cmd # Idle
    BY <1>0, <1>9 DEF Commits, Idle
  <2>2. /\ cmd'.new = cmd.new /\ cmd'.todo = cmd.todo /\ cmd'.seen = cmd.seen
        /\ cmd'.actions = cmd.actions /\ cmd'.text = cmd.text
    BY <1>9, <2>1 DEF Commits, Commands
  <2> QED
    BY <1>9, <2>1, <2>2 DEF Commits, SurvivalInv, ApplyKnows, ResumeKnows, OwnEntries
<1>10. CASE Finishes
  BY <1>10 DEF Finishes, NoResume, SurvivalInv, ApplyKnows, ResumeKnows, OwnEntries
<1> QED
  BY <1>1, <1>2, <1>3, <1>4, <1>5, <1>6, <1>7, <1>8, <1>9, <1>10 DEF Applies

LEMMA SurvivalStep == SurvivalInv /\ [Next]_vars => SurvivalInv'
<1> SUFFICES ASSUME SurvivalInv, [Next]_vars PROVE SurvivalInv'
  OBVIOUS
<1>0. TypeOK'
  BY TypeInvariant DEF SurvivalInv
<1>1. CASE Applies
  BY <1>0, <1>1, AppliesSafely DEF SurvivalInv
<1>2. ASSUME NEW r \in Releases, NEW spine \in BOOLEAN, NEW withheld \in BOOLEAN,
             Plans(r, spine, withheld)
      PROVE  SurvivalInv'
  BY <1>0, <1>2 DEF Plans, files, SurvivalInv, OwnEntries, ResumeKnows, ApplyKnows
<1>3. ASSUME NEW r \in Releases, NEW named \in BOOLEAN, NEW approved \in BOOLEAN,
             NEW withheld \in BOOLEAN, Begins(r, named, approved, withheld)
      PROVE  SurvivalInv'
  <2>1. ApplyKnows'
    BY <1>3, BeginsSafely
  <2> QED
    BY <1>0, <1>3, <2>1 DEF Begins, files, SurvivalInv, OwnEntries, ResumeKnows
<1>4. CASE Stops
  <2>1. cmd' = Idle /\ manifest' = manifest
    BY <1>4 DEF Stops
  <2>2. resume' = resume \/ resume' = NoResume
    BY <1>4 DEF Stops, HalfWritten
  <2>3. ResumeKnows'
    BY <2>2 DEF SurvivalInv, ResumeKnows, NoResume
  <2> QED
    BY <1>0, <2>1, <2>3 DEF SurvivalInv, OwnEntries, ApplyKnows
<1>5. ASSUME NEW p \in Paths, NEW bytes \in {Absent, Mine}, Edits(p, bytes)
      PROVE  SurvivalInv'
  BY <1>0, <1>5 DEF Edits, SurvivalInv, OwnEntries, ResumeKnows, ApplyKnows
<1>6. CASE EditsPin
  BY <1>0, <1>6 DEF EditsPin, SurvivalInv, OwnEntries, ResumeKnows, ApplyKnows
<1>7. CASE UNCHANGED vars
  BY <1>0, <1>7 DEF vars, files, SurvivalInv, OwnEntries, ResumeKnows, ApplyKnows
<1> QED
  BY <1>1, <1>2, <1>3, <1>4, <1>5, <1>6, <1>7 DEF Next

LEMMA SurvivalInit == Init => SurvivalInv
<1> SUFFICES ASSUME Init PROVE SurvivalInv
  OBVIOUS
<1>1. OwnEntries(manifest)
  BY DEF Init, NoManifest, NoEntry, OwnEntries
<1>2. ResumeKnows /\ ApplyKnows
  BY DEF Init, NoResume, ResumeKnows, ApplyKnows
<1> QED
  BY <1>1, <1>2, InitTyped DEF SurvivalInv

\* Only a file that is still to be written changes in a step of an apply, and the text of the
\* root instructions is lost only by an apply that stops.
LEMMA StepWritesToDo ==
  ASSUME SurvivalInv, Next, OfApply
  PROVE  /\ \A p \in Paths : disk'[p] # disk[p] => p \in cmd.todo
         /\ bridge.text /\ ~bridge'.text => cmd' = Idle
<1>0. disk \in [Paths -> Contents] /\ cmd \in Commands
  BY DEF SurvivalInv, TypeOK, OfApply
<1>1. CASE WritesGovernance
  BY <1>0, <1>1, ForemostIsToDo DEF WritesGovernance, Wrote
<1>2. CASE WritesProfile
  BY <1>0, <1>2, ForemostIsToDo DEF WritesProfile, Wrote
<1>3. CASE Stops
  <2>1. cmd' = Idle
    BY <1>3 DEF Stops
  <2>2. disk' = disk \/ \E p \in cmd.todo : disk' = [disk EXCEPT ![p] = Half]
    BY <1>3, ForemostIsToDo DEF Stops, HalfWritten
  <2> QED
    BY <1>0, <2>1, <2>2
<1>4. CASE WritesBridge
  <2>1. bridge'.text = bridge.text
    BY <1>0, <1>4 DEF WritesBridge, SurvivalInv, ApplyKnows, OfApply, Commands, Texts
  <2> QED
    BY <1>4, <2>1 DEF WritesBridge
<1>5. CASE Revalidates \/ StagesPin \/ RenamesPin \/ WritesResume \/ RecordsProfile \/ Commits \/ Finishes
  BY <1>5 DEF Revalidates, StagesPin, RenamesPin, WritesResume, RecordsProfile, Commits, Finishes, files
<1>6. ~ \E r \in Releases, named, approved, withheld \in BOOLEAN : Begins(r, named, approved, withheld)
  BY <1>0 DEF Begins, At, Commands
<1>7. ~ \E r \in Releases, spine, withheld \in BOOLEAN : Plans(r, spine, withheld)
  BY DEF OfApply, Plans
<1>8. ~ (EditsPin \/ \E p \in Paths, bytes \in {Absent, Mine} : Edits(p, bytes))
  BY DEF OfApply, Edits, EditsPin
<1> QED
  BY <1>1, <1>2, <1>3, <1>4, <1>5, <1>6, <1>7, <1>8 DEF Next, Applies

\* However often an apply is stopped and run again, whichever release runs and whatever the
\* operator edits in between, it writes over nothing of the operator's that it found.
THEOREM OperatorsFilesSurvive == Spec => AuthoredSurvives
<1>1. SurvivalInv /\ [Next]_vars =>
        [OfApply =>
           /\ \A p \in Paths : disk'[p] # disk[p] => cmd.seen[p] # Mine
           /\ bridge.text /\ ~bridge'.text => cmd' = Idle]_vars
  <2> SUFFICES ASSUME SurvivalInv, Next, OfApply
               PROVE  /\ \A p \in Paths : disk'[p] # disk[p] => cmd.seen[p] # Mine
                      /\ bridge.text /\ ~bridge'.text => cmd' = Idle
    BY DEF OfApply
  <2>1. \A p \in cmd.todo : cmd.seen[p] # Mine
    BY DEF SurvivalInv, ApplyKnows, OfApply
  <2> QED
    BY <2>1, StepWritesToDo
<1> QED
  BY <1>1, SurvivalInit, SurvivalStep, PTL DEF Spec, AuthoredSurvives

------------------------------------------------------------------------------
(* An approved plan is performed as it was shown.                          *)

\* An apply of an approved plan does what the plan showed, over what it showed.
ApplyAgrees ==
  cmd # Idle =>
    /\ cmd.at # "profile" => cmd.todo \subseteq Elements(Governance)
    /\ cmd.at = "profile" => cmd.todo \subseteq ToWrite
    /\ cmd.given # NoPlan =>
         /\ cmd.given.release = cmd.release /\ cmd.given.actions = cmd.actions
         /\ \A p \in Elements(Profile) : cmd.given.seen[p] = cmd.seen[p]
         /\ cmd.given.pin = cmd.pin
    /\ cmd.at \in {"revalidate", "stage", "pin"} => cmd.given # NoPlan
    /\ cmd.at = "pin" => cmd.looked = cmd.pin

ReviewInv == TypeOK /\ ApplyAgrees

LEMMA BeginsAgreeing ==
  ASSUME ReviewInv, NEW r \in Releases, NEW named \in BOOLEAN, NEW approved \in BOOLEAN,
         NEW withheld \in BOOLEAN, Begins(r, named, approved, withheld)
  PROVE  ApplyAgrees'
<1>1. /\ cmd'.todo \subseteq Elements(Governance)
      /\ cmd'.at = IF approved /\ shown.spine THEN "revalidate" ELSE "governance"
      /\ cmd'.given = IF approved THEN shown ELSE NoPlan
      /\ cmd'.release = r /\ cmd'.pin = pin
      /\ cmd'.actions = ProfilePlan(r, withheld) /\ cmd'.seen = disk
  BY DEF Begins
<1>2. CASE approved
  <2>1. shown = Identity(r, approved /\ shown.spine, withheld) /\ shown # NoPlan
    BY <1>2 DEF Begins
  <2>2. /\ shown.release = r /\ shown.actions = ProfilePlan(r, withheld) /\ shown.pin = pin
        /\ \A p \in Elements(Profile) : shown.seen[p] = disk[p]
    BY <2>1 DEF Identity
  <2> QED
    BY <1>1, <1>2, <2>1, <2>2 DEF ApplyAgrees
<1>3. CASE ~approved
  BY <1>1, <1>3 DEF ApplyAgrees
<1> QED
  BY <1>2, <1>3

LEMMA AppliesAgreeing ==
  ASSUME ReviewInv, Applies
  PROVE  ApplyAgrees'
<1> USE DEF At, Goto
<1>0. cmd # Idle => cmd \in Commands
  BY DEF ReviewInv, TypeOK
<1>1. CASE Revalidates
  <2>1. cmd \in Commands /\ cmd # Idle
    BY <1>0, <1>1 DEF Revalidates, Idle
  <2>2. cmd' = Idle \/ cmd' = [cmd EXCEPT !.at = "stage"]
    BY <1>1 DEF Revalidates
  <2> QED
    BY <1>1, <2>1, <2>2 DEF Revalidates, ReviewInv, ApplyAgrees, Commands
<1>2. CASE StagesPin
  <2>1. cmd \in Commands /\ cmd # Idle
    BY <1>0, <1>2 DEF StagesPin, Idle
  <2>2. cmd' = Idle \/ (pin = cmd.pin /\ cmd' = [cmd EXCEPT !.at = "pin", !.looked = pin])
    BY <1>2 DEF StagesPin
  <2> QED
    BY <1>2, <2>1, <2>2 DEF StagesPin, ReviewInv, ApplyAgrees, Commands
<1>3. CASE RenamesPin
  <2>1. cmd \in Commands /\ cmd # Idle
    BY <1>0, <1>3 DEF RenamesPin, Idle
  <2>2. /\ cmd'.at = "governance" /\ cmd'.todo = cmd.todo /\ cmd'.given = cmd.given
        /\ cmd'.release = cmd.release /\ cmd'.actions = cmd.actions
        /\ cmd'.seen = cmd.seen /\ cmd'.pin = cmd.pin
    BY <1>3, <2>1 DEF RenamesPin, Commands, Manifests
  <2> QED
    BY <1>3, <2>1, <2>2 DEF RenamesPin, ReviewInv, ApplyAgrees
<1>4. CASE WritesGovernance
  <2>1. cmd \in Commands /\ cmd # Idle
    BY <1>0, <1>4 DEF WritesGovernance, Idle
  <2>2. PICK p \in Foremost(Governance) :
          cmd' = [cmd EXCEPT !.todo = @ \ {p}, !.new.entries[p] = Managed(cmd.release)]
    BY <1>4 DEF WritesGovernance
  <2>3. /\ cmd'.at = cmd.at /\ cmd'.todo \subseteq cmd.todo /\ cmd'.given = cmd.given
        /\ cmd'.release = cmd.release /\ cmd'.actions = cmd.actions
        /\ cmd'.seen = cmd.seen /\ cmd'.pin = cmd.pin
    BY <2>1, <2>2 DEF Commands, Manifests
  <2> QED
    BY <1>4, <2>1, <2>3 DEF WritesGovernance, ReviewInv, ApplyAgrees
<1>5. CASE WritesResume
  <2>1. cmd \in Commands /\ cmd # Idle
    BY <1>0, <1>5 DEF WritesResume, Idle
  <2>2. /\ cmd'.given = cmd.given /\ cmd'.release = cmd.release /\ cmd'.actions = cmd.actions
        /\ cmd'.seen = cmd.seen /\ cmd'.pin = cmd.pin
        /\ \/ cmd'.at = "bridge" /\ cmd'.todo = {}
           \/ cmd'.at = "profile" /\ cmd'.todo = ToWrite
    BY <1>5, <2>1, ZenonT(60) DEF WritesResume, Commands
  <2>3. ToWrite' = ToWrite
    BY <2>2 DEF ToWrite
  <2> QED
    BY <1>5, <2>1, <2>2, <2>3 DEF ReviewInv, ApplyAgrees
<1>6. CASE WritesProfile
  <2>1. cmd \in Commands /\ cmd # Idle
    BY <1>0, <1>6 DEF WritesProfile, Idle
  <2>2. /\ cmd'.at = "profile" /\ cmd'.todo \subseteq cmd.todo /\ cmd'.given = cmd.given
        /\ cmd'.release = cmd.release /\ cmd'.actions = cmd.actions
        /\ cmd'.seen = cmd.seen /\ cmd'.pin = cmd.pin
    BY <1>6, <2>1 DEF WritesProfile, Commands
  <2>3. ToWrite' = ToWrite
    BY <2>2 DEF ToWrite
  <2> QED
    BY <1>6, <2>1, <2>2, <2>3 DEF WritesProfile, ReviewInv, ApplyAgrees
<1>7. CASE RecordsProfile
  <2>1. cmd \in Commands /\ cmd # Idle
    BY <1>0, <1>7 DEF RecordsProfile, Idle
  <2>2. /\ cmd'.at = "bridge" /\ cmd'.todo = {} /\ cmd'.given = cmd.given
        /\ cmd'.release = cmd.release /\ cmd'.actions = cmd.actions
        /\ cmd'.seen = cmd.seen /\ cmd'.pin = cmd.pin
    BY <1>7, <2>1 DEF RecordsProfile, Commands, Manifests
  <2> QED
    BY <2>1, <2>2 DEF ReviewInv, ApplyAgrees
<1>8. CASE WritesBridge
  <2>1. cmd \in Commands /\ cmd # Idle
    BY <1>0, <1>8 DEF WritesBridge, Idle
  <2>2. \/ cmd' = [cmd EXCEPT !.at = "commit"]
        \/ cmd' = [cmd EXCEPT !.at = "commit", !.new.bridged = TRUE]
    BY <1>8 DEF WritesBridge
  <2>3. /\ cmd'.at = "commit" /\ cmd'.todo = cmd.todo /\ cmd'.given = cmd.given
        /\ cmd'.release = cmd.release /\ cmd'.actions = cmd.actions
        /\ cmd'.seen = cmd.seen /\ cmd'.pin = cmd.pin
    BY <2>1, <2>2, ZenonT(60) DEF Commands, Manifests
  <2> QED
    BY <1>8, <2>1, <2>3 DEF WritesBridge, ReviewInv, ApplyAgrees
<1>9. CASE Commits
  <2>1. cmd \in Commands /\ cmd # Idle
    BY <1>0, <1>9 DEF Commits, Idle
  <2> QED
    BY <1>9, <2>1 DEF Commits, ReviewInv, ApplyAgrees, Commands
<1>10. CASE Finishes
  BY <1>10 DEF Finishes, ApplyAgrees
<1> QED
  BY <1>1, <1>2, <1>3, <1>4, <1>5, <1>6, <1>7, <1>8, <1>9, <1>10 DEF Applies

LEMMA ReviewStep == ReviewInv /\ [Next]_vars => ReviewInv'
<1> SUFFICES ASSUME ReviewInv, [Next]_vars PROVE ReviewInv'
  OBVIOUS
<1>0. TypeOK'
  BY TypeInvariant DEF ReviewInv
<1>1. CASE Applies
  BY <1>0, <1>1, AppliesAgreeing DEF ReviewInv
<1>2. ASSUME NEW r \in Releases, NEW named \in BOOLEAN, NEW approved \in BOOLEAN,
             NEW withheld \in BOOLEAN, Begins(r, named, approved, withheld)
      PROVE  ReviewInv'
  BY <1>0, <1>2, BeginsAgreeing DEF ReviewInv
<1>3. CASE Stops
  BY <1>0, <1>3 DEF Stops, ReviewInv, ApplyAgrees
<1>4. ASSUME cmd' = cmd
      PROVE  ReviewInv'
  BY <1>0, <1>4 DEF ReviewInv, ApplyAgrees, ToWrite
<1>5. ASSUME NEW r \in Releases, NEW spine \in BOOLEAN, NEW withheld \in BOOLEAN,
             Plans(r, spine, withheld)
      PROVE  ReviewInv'
  BY <1>4, <1>5 DEF Plans
<1>6. ASSUME NEW p \in Paths, NEW bytes \in {Absent, Mine}, Edits(p, bytes)
      PROVE  ReviewInv'
  BY <1>4, <1>6 DEF Edits
<1>7. CASE EditsPin \/ UNCHANGED vars
  BY <1>4, <1>7 DEF EditsPin, vars
<1> QED
  BY <1>1, <1>2, <1>3, <1>5, <1>6, <1>7 DEF Next

LEMMA ReviewInit == Init => ReviewInv
BY InitTyped DEF Init, ReviewInv, ApplyAgrees

\* Only the step that renames the pin changes it.
LEMMA StepRenamesPin ==
  ASSUME ReviewInv, Next, OfApply, pin' # pin
  PROVE  At("pin")
<1>1. RenamesPin \/ EditsPin
  BY DEF Next, Applies, Revalidates, StagesPin, WritesGovernance, WritesResume, WritesProfile,
         RecordsProfile, WritesBridge, Commits, Finishes, Plans, Begins, Stops, Edits, files
<1>2. ~EditsPin
  BY DEF OfApply, EditsPin
<1> QED
  BY <1>1, <1>2 DEF RenamesPin

\* Whatever the operator edits, and whenever, an approved plan is performed as it was shown:
\* no other release, no other file, over no other bytes, and the pin as it was reviewed.
THEOREM PlansAreKept == Spec => ReviewedIsDone
<1> DEFINE A ==
      /\ \A p \in Elements(Profile) :
           disk'[p] # disk[p] /\ cmd.given # NoPlan =>
             /\ cmd.given.release = cmd.release
             /\ cmd.given.actions[p] \in Writing
             /\ cmd.given.seen[p] = cmd.seen[p]
      /\ pin' # pin => cmd.given # NoPlan /\ cmd.looked = cmd.given.pin
<1>1. ASSUME SurvivalInv, ReviewInv, Next, OfApply
      PROVE  A
  <2>0. cmd \in Commands /\ cmd # Idle
    BY <1>1 DEF OfApply, ReviewInv, TypeOK
  <2>1. ASSUME NEW p \in Elements(Profile), disk'[p] # disk[p], cmd.given # NoPlan
        PROVE  /\ cmd.given.release = cmd.release
               /\ cmd.given.actions[p] \in Writing
               /\ cmd.given.seen[p] = cmd.seen[p]
    <3>1. p \in cmd.todo
      BY <1>1, <2>1, StepWritesToDo DEF Paths
    <3>2. p \notin Elements(Governance)
      BY InitializationAssumption
    <3>3. p \in ToWrite
      BY <1>1, <2>0, <3>1, <3>2 DEF ReviewInv, ApplyAgrees
    <3> QED
      BY <1>1, <2>0, <2>1, <3>3 DEF ReviewInv, ApplyAgrees, ToWrite
  <2>2. ASSUME pin' # pin
        PROVE  cmd.given # NoPlan /\ cmd.looked = cmd.given.pin
    BY <1>1, <2>0, <2>2, StepRenamesPin DEF ReviewInv, ApplyAgrees, At
  <2> QED
    BY <2>1, <2>2
<1>2. SurvivalInv /\ ReviewInv /\ [Next]_vars => [OfApply => A]_vars
  BY <1>1
<1> QED
  BY <1>2, SurvivalInit, SurvivalStep, ReviewInit, ReviewStep, PTL DEF Spec, ReviewedIsDone

------------------------------------------------------------------------------
(* What a stopped apply had written is found again by the next.            *)

\* Nothing of the apply that runs has touched the resume record or the entries of the profile,
\* or it had nothing of another to find.
Unspent == cmd = Idle \/ ~(cmd.over /\ cmd.setup) \/ cmd.at \in {"revalidate", "stage"}

\* What is loose is known: on the resume record, or as a path the manifest has.
Found ==
  ~spent /\ Unspent =>
    \A p \in loose : p \in DOMAIN resume \/ manifest.entries[p] # NoEntry

\* An apply that found nothing loose has only its own writes to answer for.
OwnWrites ==
  cmd # Idle /\ ~cmd.over =>
    /\ loose \subseteq ToWrite
    /\ loose # {} => Performs /\ cmd.at \in {"profile", "bridge", "commit"}

\* What an apply is to write is on the resume record before it is written.
Announced ==
  cmd # Idle =>
    /\ cmd.at = "profile" => Performs
    /\ Performs /\ cmd.at \in {"profile", "bridge", "commit", "finish"} => DOMAIN resume = ToWrite

\* No path the manifest has is dropped from it.
Inherits ==
  cmd # Idle => \A p \in Paths : manifest.entries[p] # NoEntry => cmd.new.entries[p] # NoEntry

\* A loose file that is as the release declares it is one the apply will record.
Recognized ==
  cmd # Idle /\ Performs /\ ~spent =>
    \A p \in loose : disk[p] = cmd.release => cmd.actions[p] \in Recording

\* What an apply will record is in the manifest it is about to write.
Entered ==
  cmd # Idle /\ Performs /\ cmd.at \in {"bridge", "commit", "finish"} =>
    \A p \in Elements(Profile) : cmd.actions[p] \in Recording => cmd.new.entries[p] = Managed(cmd.release)

Findings == Found /\ OwnWrites /\ Announced /\ Inherits /\ Recognized /\ Entered

FindingInv == ReviewInv /\ Findings

LEMMA EntriesDiffer ==
  ASSUME NEW r
  PROVE  Managed(r) # NoEntry /\ Managed(r).class = "managed"
BY DEF Managed, NoEntry

\* An apply begins: what is loose, it finds.
LEMMA BeginsFinding ==
  ASSUME FindingInv, NEW r \in Releases, NEW named \in BOOLEAN, NEW approved \in BOOLEAN,
         NEW withheld \in BOOLEAN, Begins(r, named, approved, withheld)
  PROVE  Findings'
<1>0. cmd = Idle /\ TypeOK
  BY DEF Begins, At, Commands, FindingInv, ReviewInv, TypeOK
<1>1. /\ cmd'.new = Reconciled /\ cmd'.release = r /\ cmd'.setup = Selected(named)
      /\ cmd'.withheld = withheld /\ cmd'.over = (loose # {})
      /\ cmd'.actions = ProfilePlan(r, withheld)
      /\ cmd'.at \in {"revalidate", "governance"}
      /\ disk' = disk /\ manifest' = manifest /\ resume' = resume
      /\ loose' = loose /\ spent' = spent
  BY DEF Begins, files
<1>2. ~spent => \A p \in loose : p \in DOMAIN resume \/ manifest.entries[p] # NoEntry
  BY <1>0 DEF FindingInv, Findings, Found, Unspent
<1>3. Found' /\ OwnWrites'
  BY <1>1, <1>2 DEF Found, OwnWrites, ToWrite
<1>4. Announced' /\ Entered'
  BY <1>1 DEF Announced, Entered
<1>5. Inherits'
  <2>1. \A p \in Paths : manifest.entries[p] # NoEntry => Reconciled.entries[p] # NoEntry
    <3> SUFFICES ASSUME NEW p \in Paths, manifest.entries[p] # NoEntry
                 PROVE  Reconciled.entries[p] # NoEntry
      OBVIOUS
    <3>1. [class |-> "adopted", digest |-> disk[p]] # NoEntry
      <4>1. NoEntry.class = "none" /\ [class |-> "adopted", digest |-> disk[p]].class = "adopted"
        BY DEF NoEntry
      <4> QED
        BY <4>1
    <3>2. \/ Reconciled.entries[p] = manifest.entries[p]
          \/ Reconciled.entries[p] = [class |-> "adopted", digest |-> disk[p]]
      BY <1>0, ReconciledTyped
    <3> QED
      BY <3>1, <3>2
  <2> QED
    BY <1>1, <2>1 DEF Inherits
<1>6. Recognized'
  <2> SUFFICES ASSUME ~spent, ~withheld, NEW p \in loose, disk[p] = r
               PROVE  ProfilePlan(r, withheld)[p] \in Recording
    BY <1>1 DEF Recognized, Performs
  <2>1. p \in Elements(Profile) /\ p \notin OnlyWhenAbsent /\ r # Absent
    BY <1>0, InitializationAssumption DEF TypeOK, Resumable
  <2>2. ProfileAction(p, r) \in {"unchanged", "resumed"}
    BY <1>2, <2>1 DEF ProfileAction, Managing, Resuming
  <2> QED
    BY <2>1, <2>2 DEF ProfilePlan, Recording
<1> QED
  BY <1>3, <1>4, <1>5, <1>6 DEF Findings

LEMMA AppliesFinding ==
  ASSUME FindingInv, Applies
  PROVE  Findings'
<1> USE DEF At, Goto
<1>0. /\ TypeOK /\ (cmd # Idle => cmd \in Commands) /\ ApplyAgrees
      /\ Found /\ OwnWrites /\ Announced /\ Inherits /\ Recognized /\ Entered
  BY DEF FindingInv, Findings, ReviewInv, TypeOK
<1> DEFINE Kept == /\ cmd'.over = cmd.over /\ cmd'.setup = cmd.setup /\ cmd'.withheld = cmd.withheld
                   /\ cmd'.release = cmd.release /\ cmd'.actions = cmd.actions
<1>1. CASE Revalidates
  <2>1. cmd \in Commands /\ cmd # Idle
    BY <1>0, <1>1 DEF Revalidates, Idle
  <2>2. Unspent /\ disk' = disk /\ manifest' = manifest /\ resume' = resume /\ loose' = loose /\ spent' = spent
    BY <1>1 DEF Revalidates, Unspent, files
  <2>3. CASE cmd' = Idle
    BY <1>0, <2>2, <2>3 DEF Findings, Found, OwnWrites, Announced, Inherits, Recognized, Entered
  <2>4. CASE cmd' = [cmd EXCEPT !.at = "stage"]
    <3>1. Kept /\ cmd'.at = "stage" /\ cmd'.new = cmd.new /\ cmd' # Idle
      BY <2>1, <2>4 DEF Commands, Idle
    <3>2. ToWrite' = ToWrite /\ Performs' = Performs
      BY <3>1 DEF ToWrite, Performs
    <3>3. cmd.at = "revalidate"
      BY <1>1 DEF Revalidates
    <3> HIDE DEF Kept
    <3> QED
      BY <1>0, <2>1, <2>2, <3>1, <3>2, <3>3
      DEF Kept, Findings, Found, OwnWrites, Announced, Inherits, Recognized, Entered
  <2> QED
    BY <1>1, <2>3, <2>4 DEF Revalidates
<1>2. CASE StagesPin
  <2>1. cmd \in Commands /\ cmd # Idle
    BY <1>0, <1>2 DEF StagesPin, Idle
  <2>2. Unspent /\ disk' = disk /\ manifest' = manifest /\ resume' = resume /\ loose' = loose /\ spent' = spent
    BY <1>2 DEF StagesPin, Unspent, files
  <2>3. CASE cmd' = Idle
    BY <1>0, <2>2, <2>3 DEF Findings, Found, OwnWrites, Announced, Inherits, Recognized, Entered
  <2>4. CASE cmd' = [cmd EXCEPT !.at = "pin", !.looked = pin]
    <3>1. Kept /\ cmd'.at = "pin" /\ cmd'.new = cmd.new /\ cmd' # Idle
      BY <2>1, <2>4 DEF Commands, Idle
    <3>2. ToWrite' = ToWrite /\ Performs' = Performs
      BY <3>1 DEF ToWrite, Performs
    <3>3. cmd.at = "stage"
      BY <1>2 DEF StagesPin
    <3> HIDE DEF Kept
    <3> QED
      BY <1>0, <2>1, <2>2, <3>1, <3>2, <3>3
      DEF Kept, Findings, Found, OwnWrites, Announced, Inherits, Recognized, Entered
  <2> QED
    BY <1>2, <2>3, <2>4 DEF StagesPin
<1>3. CASE RenamesPin
  <2>1. cmd \in Commands /\ cmd # Idle
    BY <1>0, <1>3 DEF RenamesPin, Idle
  <2>2. /\ Kept /\ cmd'.at = "governance" /\ cmd' # Idle /\ cmd.at = "pin"
        /\ cmd'.new.entries = cmd.new.entries
        /\ disk' = disk /\ manifest' = manifest /\ resume' = resume /\ loose' = loose /\ spent' = spent
    BY <1>3, <2>1 DEF RenamesPin, Commands, Manifests, Idle
  <2> HIDE DEF Kept
  <2>3. ToWrite' = ToWrite /\ Performs' = Performs /\ (Unspent' => Unspent)
    BY <2>1, <2>2 DEF Kept, ToWrite, Performs, Unspent
  <2> QED
    BY <1>0, <2>1, <2>2, <2>3
    DEF Kept, Findings, Found, OwnWrites, Announced, Inherits, Recognized, Entered
<1>4. CASE WritesGovernance
  <2>1. cmd \in Commands /\ cmd # Idle /\ cmd.at = "governance"
    BY <1>0, <1>4 DEF WritesGovernance, Idle
  <2>2. PICK p \in Foremost(Governance) :
          /\ IF PassedOver(p) THEN UNCHANGED <<disk, loose>> ELSE Wrote(p)
          /\ cmd' = [cmd EXCEPT !.todo = @ \ {p}, !.new.entries[p] = Managed(cmd.release)]
    BY <1>4 DEF WritesGovernance
  <2>3. p \in Paths /\ p \notin Resumable
    BY <2>1, ForemostIsToDo, InitializationAssumption DEF Commands, Resumable
  <2>4. /\ cmd'.new.entries = [cmd.new.entries EXCEPT ![p] = Managed(cmd.release)]
        /\ Kept /\ cmd'.at = cmd.at /\ cmd' # Idle
    BY <2>1, <2>2 DEF Commands, Manifests, Idle
  <2>5. loose' = loose /\ \A q \in loose : disk'[q] = disk[q]
    <3>1. p \notin loose /\ {p} \cap Resumable = {}
      BY <1>0, <2>3 DEF TypeOK
    <3>2. CASE UNCHANGED <<disk, loose>>
      BY <3>2
    <3>3. CASE Wrote(p)
      <4>1. disk' = [disk EXCEPT ![p] = cmd.release] /\ loose' = loose
        BY <3>1, <3>3 DEF Wrote
      <4>2. \A q \in loose : q \in Paths /\ q # p
        BY <1>0, <3>1 DEF TypeOK, Resumable, Paths
      <4> QED
        BY <1>0, <4>1, <4>2 DEF TypeOK
    <3> QED
      BY <2>2, <3>2, <3>3
  <2>6. \A q \in Paths : cmd'.new.entries[q] = cmd.new.entries[q] \/ cmd'.new.entries[q] # NoEntry
    BY <2>1, <2>3, <2>4, EntriesDiffer DEF Commands, Manifests, Entries
  <2>7. manifest' = manifest /\ resume' = resume /\ spent' = spent
    BY <1>4 DEF WritesGovernance
  <2> HIDE DEF Kept
  <2>8. ToWrite' = ToWrite /\ Performs' = Performs /\ (Unspent' => Unspent)
    BY <2>1, <2>4 DEF Kept, ToWrite, Performs, Unspent
  <2>9. Inherits'
    BY <1>0, <2>1, <2>6, <2>7 DEF Inherits
  <2> QED
    BY <1>0, <2>1, <2>4, <2>5, <2>7, <2>8, <2>9
    DEF Kept, Findings, Found, OwnWrites, Announced, Recognized, Entered
<1>5. CASE WritesResume
  <2>1. cmd \in Commands /\ cmd # Idle /\ cmd.at = "governance"
    BY <1>0, <1>5 DEF WritesResume, Idle
  <2>2. Kept /\ cmd'.new = cmd.new /\ cmd' # Idle
    <3>1. CASE cmd' = [cmd EXCEPT !.at = "profile", !.todo = ToWrite]
      <4> HIDE DEF ToWrite
      <4> QED
        BY <2>1, <3>1 DEF Commands, Idle
    <3>2. CASE cmd' = [cmd EXCEPT !.at = "bridge"]
      BY <2>1, <3>2 DEF Commands, Idle
    <3> QED
      BY <1>5, <3>1, <3>2 DEF WritesResume
  <2>3. /\ disk' = disk /\ manifest' = manifest /\ loose' = loose /\ spent' = spent
        /\ IF Performs THEN cmd'.at = "profile" /\ DOMAIN resume' = ToWrite
                       ELSE cmd'.at = "bridge" /\ resume' = resume
    <3>1. CASE Performs
      BY <1>5, <2>1, <3>1 DEF WritesResume, OnRecord, Commands
    <3>2. CASE ~Performs
      BY <1>5, <2>1, <3>2 DEF WritesResume, Commands
    <3> QED
      BY <3>1, <3>2
  <2> HIDE DEF Kept
  <2>4. ToWrite' = ToWrite /\ Performs' = Performs /\ (Unspent' => Unspent)
    BY <2>1, <2>2, <2>3 DEF Kept, ToWrite, Performs, Unspent
  <2>5. Found'
    <3>1. CASE Performs /\ ~cmd.over
      BY <1>0, <2>1, <2>3, <3>1 DEF OwnWrites, Found
    <3>2. CASE Performs /\ cmd.over
      BY <2>1, <2>2, <2>3, <3>2 DEF Kept, Found, Unspent, Performs
    <3>3. CASE ~Performs
      BY <1>0, <2>3, <2>4, <3>3 DEF Found
    <3> QED
      BY <3>1, <3>2, <3>3 DEF Commands
  <2>6. OwnWrites' /\ Announced' /\ Inherits' /\ Recognized' /\ Entered'
    BY <1>0, <2>1, <2>2, <2>3, <2>4
    DEF Kept, OwnWrites, Announced, Inherits, Recognized, Entered
  <2> QED
    BY <2>5, <2>6 DEF Findings
<1>6. CASE WritesProfile
  <2>1. cmd \in Commands /\ cmd # Idle /\ cmd.at = "profile"
    BY <1>0, <1>6 DEF WritesProfile, Idle
  <2>2. PICK p \in Foremost(Profile) : Wrote(p) /\ cmd' = [cmd EXCEPT !.todo = @ \ {p}]
    BY <1>6 DEF WritesProfile
  <2>3. p \in ToWrite
    BY <1>0, <2>1, ForemostIsToDo DEF ApplyAgrees
  <2>4. /\ Kept /\ cmd'.new = cmd.new /\ cmd'.at = "profile" /\ cmd' # Idle
        /\ manifest' = manifest /\ resume' = resume /\ spent' = spent
    BY <1>6, <2>1, <2>2 DEF WritesProfile, Commands, Idle
  <2>5. loose' \subseteq loose \cup {p} /\ \A q \in loose' : q # p => q \in loose /\ disk'[q] = disk[q]
    BY <1>0, <2>2 DEF Wrote, TypeOK
  <2>6. Performs
    BY <1>0, <2>1 DEF Announced
  <2> HIDE DEF Kept
  <2>7. ToWrite' = ToWrite /\ Performs' = Performs /\ (Unspent' => Unspent)
    BY <2>1, <2>4 DEF Kept, ToWrite, Performs, Unspent
  <2>8. Found'
    BY <1>0, <2>1, <2>3, <2>4, <2>5, <2>6, <2>7 DEF Found, Announced
  <2>9. Recognized'
    BY <1>0, <2>1, <2>3, <2>4, <2>5, <2>7 DEF Kept, Recognized, ToWrite, Recording
  <2>10. OwnWrites'
    BY <1>0, <2>1, <2>3, <2>4, <2>5, <2>6, <2>7 DEF Kept, OwnWrites
  <2> QED
    BY <1>0, <2>1, <2>4, <2>7, <2>8, <2>9, <2>10
    DEF Kept, Findings, Announced, Inherits, Entered
<1>7. CASE RecordsProfile
  <2>1. cmd \in Commands /\ cmd # Idle /\ cmd.at = "profile"
    BY <1>0, <1>7 DEF RecordsProfile, Idle
  <2>2. /\ cmd'.new.entries = [p \in Paths |-> IF p \in Elements(Profile) /\ cmd.actions[p] \in Recording
                                              THEN Managed(cmd.release) ELSE cmd.new.entries[p]]
        /\ Kept /\ cmd'.at = "bridge" /\ cmd' # Idle
    BY <1>7, <2>1 DEF RecordsProfile, Commands, Manifests, Idle
  <2>3. disk' = disk /\ manifest' = manifest /\ resume' = resume /\ loose' = loose /\ spent' = spent
    BY <1>7 DEF RecordsProfile, files
  <2>4. \A q \in Paths : cmd'.new.entries[q] = cmd.new.entries[q] \/ cmd'.new.entries[q] # NoEntry
    BY <2>2, EntriesDiffer
  <2>5. \A p \in Elements(Profile) : cmd.actions[p] \in Recording => cmd'.new.entries[p] = Managed(cmd.release)
    BY <2>2 DEF Paths
  <2> HIDE DEF Kept
  <2>6. ToWrite' = ToWrite /\ Performs' = Performs /\ (Unspent' => Unspent)
    BY <2>1, <2>2 DEF Kept, ToWrite, Performs, Unspent
  <2>7. Inherits' /\ Entered'
    BY <1>0, <2>1, <2>2, <2>3, <2>4, <2>5 DEF Kept, Inherits, Entered
  <2> QED
    BY <1>0, <2>1, <2>2, <2>3, <2>6, <2>7
    DEF Kept, Findings, Found, OwnWrites, Announced, Recognized
<1>8. CASE WritesBridge
  <2>1. cmd \in Commands /\ cmd # Idle /\ cmd.at = "bridge"
    BY <1>0, <1>8 DEF WritesBridge, Idle
  <2>2. Kept /\ cmd'.new.entries = cmd.new.entries /\ cmd'.at = "commit" /\ cmd' # Idle
    <3>1. CASE cmd' = [cmd EXCEPT !.at = "commit"]
      BY <2>1, <3>1 DEF Commands, Idle
    <3>2. CASE cmd' = [cmd EXCEPT !.at = "commit", !.new.bridged = TRUE]
      <4>1. [cmd.new EXCEPT !.bridged = TRUE].entries = cmd.new.entries
        BY <2>1 DEF Commands, Manifests
      <4> QED
        BY <2>1, <3>2, <4>1 DEF Commands, Idle
    <3> QED
      BY <1>8, <3>1, <3>2 DEF WritesBridge
  <2>3. disk' = disk /\ manifest' = manifest /\ resume' = resume /\ loose' = loose /\ spent' = spent
    BY <1>8 DEF WritesBridge
  <2> HIDE DEF Kept
  <2>4. ToWrite' = ToWrite /\ Performs' = Performs /\ (Unspent' => Unspent)
    BY <2>1, <2>2 DEF Kept, ToWrite, Performs, Unspent
  <2> QED
    BY <1>0, <2>1, <2>2, <2>3, <2>4
    DEF Kept, Findings, Found, OwnWrites, Announced, Inherits, Recognized, Entered
<1>9. CASE Commits
  <2>1. cmd \in Commands /\ cmd # Idle /\ cmd.at = "commit"
    BY <1>0, <1>9 DEF Commits, Idle
  <2>2. /\ Kept /\ cmd'.new = cmd.new /\ cmd'.at = "finish" /\ cmd' # Idle
        /\ disk' = disk /\ manifest' = cmd.new /\ resume' = resume /\ spent' = spent
        /\ loose' = {p \in loose : cmd.new.entries[p].class # "managed"}
    BY <1>9, <2>1 DEF Commits, Commands, Idle
  <2> HIDE DEF Kept
  <2>3. ToWrite' = ToWrite /\ Performs' = Performs /\ (Unspent' => Unspent)
    BY <2>1, <2>2 DEF Kept, ToWrite, Performs, Unspent
  <2>4. Found'
    BY <1>0, <2>1, <2>2, <2>3 DEF Found, Inherits, TypeOK, Resumable, Paths
  <2>5. OwnWrites'
    <3>1. ASSUME ~cmd.over PROVE loose' = {}
      <4>1. SUFFICES ASSUME NEW p \in loose PROVE cmd.new.entries[p].class = "managed"
        BY <2>2
      <4>2. Performs /\ p \in ToWrite
        BY <1>0, <2>1, <3>1, <4>1 DEF OwnWrites
      <4>3. cmd.new.entries[p] = Managed(cmd.release)
        BY <1>0, <2>1, <4>2 DEF Entered, ToWrite, Recording
      <4> QED
        BY <4>3, EntriesDiffer
    <3> QED
      BY <2>2, <3>1 DEF Kept, OwnWrites
  <2> QED
    BY <1>0, <2>1, <2>2, <2>3, <2>4, <2>5
    DEF Kept, Findings, Announced, Inherits, Recognized, Entered
<1>10. CASE Finishes
  <2>1. cmd \in Commands /\ cmd # Idle /\ cmd.at = "finish"
    BY <1>0, <1>10 DEF Finishes, Idle
  <2>2. /\ cmd' = Idle /\ manifest' = manifest /\ loose' = loose
        /\ resume' = IF cmd.setup THEN NoResume ELSE resume
        /\ spent' = (spent \/ (cmd.over /\ cmd.setup))
    BY <1>10 DEF Finishes, Spends
  <2>3. Found'
    <3>1. CASE ~cmd.setup
      BY <1>0, <2>2, <3>1 DEF Found, Unspent
    <3>2. CASE cmd.setup /\ cmd.over
      BY <2>2, <3>2 DEF Found
    <3>3. CASE ~cmd.over
      BY <1>0, <2>1, <2>2, <3>3 DEF OwnWrites, Found
    <3> QED
      BY <2>1, <3>1, <3>2, <3>3 DEF Commands
  <2> QED
    BY <2>2, <2>3 DEF Findings, OwnWrites, Announced, Inherits, Recognized, Entered
<1> QED
  BY <1>1, <1>2, <1>3, <1>4, <1>5, <1>6, <1>7, <1>8, <1>9, <1>10 DEF Applies

\* An apply that stops had nothing of its own to lose, or it was the one chance of another's.
LEMMA StopsFinding ==
  ASSUME FindingInv, Stops
  PROVE  Findings'
<1>0. cmd \in Commands /\ cmd # Idle /\ Found /\ OwnWrites
  BY DEF Stops, At, FindingInv, Findings, ReviewInv, TypeOK, Idle
<1>1. cmd' = Idle /\ manifest' = manifest /\ spent' = (spent \/ (cmd.over /\ cmd.setup))
  BY DEF Stops, Spends
<1>2. loose' \subseteq loose
  BY DEF Stops, HalfWritten
<1>3. resume' = resume \/ (cmd.at = "governance" /\ Performs)
  BY DEF Stops, HalfWritten, At
<1>4. Found'
  <2>1. CASE cmd.over /\ cmd.setup
    BY <1>1, <2>1 DEF Found
  <2>2. CASE ~cmd.over /\ resume' # resume
    BY <1>0, <1>2, <1>3, <2>2 DEF OwnWrites, Found
  <2>3. CASE ~cmd.setup \/ (~cmd.over /\ resume' = resume)
    BY <1>0, <1>1, <1>2, <1>3, <2>3 DEF Found, Unspent, Performs
  <2> QED
    BY <1>0, <2>1, <2>2, <2>3 DEF Commands
<1> QED
  BY <1>1, <1>4 DEF Findings, OwnWrites, Announced, Inherits, Recognized, Entered

LEMMA FindingStep == FindingInv /\ [Next]_vars => FindingInv'
<1> SUFFICES ASSUME FindingInv, [Next]_vars PROVE FindingInv'
  OBVIOUS
<1>0. ReviewInv'
  BY ReviewStep DEF FindingInv
<1>1. CASE Applies
  BY <1>0, <1>1, AppliesFinding DEF FindingInv
<1>2. ASSUME NEW r \in Releases, NEW named \in BOOLEAN, NEW approved \in BOOLEAN,
             NEW withheld \in BOOLEAN, Begins(r, named, approved, withheld)
      PROVE  FindingInv'
  BY <1>0, <1>2, BeginsFinding DEF FindingInv
<1>3. CASE Stops
  BY <1>0, <1>3, StopsFinding DEF FindingInv
<1>4. ASSUME cmd' = cmd, manifest' = manifest, resume' = resume, spent' = spent,
             loose' \subseteq loose, \A p \in loose' : disk'[p] = disk[p]
      PROVE  FindingInv'
  <2>1. ToWrite' = ToWrite /\ Performs' = Performs /\ Unspent' = Unspent
    BY <1>4 DEF ToWrite, Performs, Unspent
  <2> QED
    BY <1>0, <1>4, <2>1
    DEF FindingInv, Findings, Found, OwnWrites, Announced, Inherits, Recognized, Entered
<1>5. ASSUME NEW r \in Releases, NEW spine \in BOOLEAN, NEW withheld \in BOOLEAN,
             Plans(r, spine, withheld)
      PROVE  FindingInv'
  BY <1>4, <1>5 DEF Plans, files
<1>6. ASSUME NEW p \in Paths, NEW bytes \in {Absent, Mine}, Edits(p, bytes)
      PROVE  FindingInv'
  <2>1. \A q \in loose' : disk'[q] = disk[q]
    BY <1>6 DEF Edits, FindingInv, ReviewInv, TypeOK
  <2> QED
    BY <1>4, <1>6, <2>1 DEF Edits
<1>7. CASE EditsPin \/ UNCHANGED vars
  BY <1>4, <1>7 DEF EditsPin, vars, files
<1> QED
  BY <1>1, <1>2, <1>3, <1>5, <1>6, <1>7 DEF Next

LEMMA FindingInit == Init => FindingInv
<1> SUFFICES ASSUME Init PROVE FindingInv
  OBVIOUS
<1>1. cmd = Idle /\ loose = {}
  BY DEF Init
<1> QED
  BY <1>1, ReviewInit
  DEF FindingInv, Findings, Found, OwnWrites, Announced, Inherits, Recognized, Entered

\* Wherever an apply was stopped, the next one of the profile records every file the first had
\* written and the operator has not edited since, if it is of the same release.
THEOREM StoppedWorkIsRecorded == Spec => NothingLeftBehind
<1>1. FindingInv /\ [Next]_vars =>
        [At("commit") /\ cmd'.at = "finish" /\ Performs /\ ~spent =>
           \A p \in loose : disk[p] = cmd.release => manifest'.entries[p] = Managed(cmd.release)]_vars
  <2> SUFFICES ASSUME FindingInv, Next, At("commit"), cmd'.at = "finish", Performs, ~spent,
                      NEW p \in loose, disk[p] = cmd.release
               PROVE  manifest'.entries[p] = Managed(cmd.release)
    OBVIOUS
  <2>0. cmd # Idle /\ cmd.at = "commit" /\ p \in Elements(Profile)
    BY DEF At, Idle, FindingInv, ReviewInv, TypeOK, Resumable
  <2>1. Commits
    BY <2>0 DEF Next, Applies, At, Idle, Revalidates, StagesPin, RenamesPin, WritesGovernance,
         WritesResume, WritesProfile, RecordsProfile, WritesBridge, Finishes, Plans, Begins, Stops,
         Edits, EditsPin
  <2>2. manifest' = cmd.new
    BY <2>1 DEF Commits
  <2>3. cmd.actions[p] \in Recording
    BY <2>0 DEF FindingInv, Findings, Recognized
  <2> QED
    BY <2>0, <2>2, <2>3 DEF FindingInv, Findings, Entered
<1> QED
  BY <1>1, FindingInit, FindingStep, PTL DEF Spec, NothingLeftBehind
===============================================================================
