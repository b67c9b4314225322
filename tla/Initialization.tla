---------------------------- MODULE Initialization ----------------------------
(***************************************************************************)
(* One initialization of a project: the preflight decides everything from  *)
(* one reading; then come the writes, in order - the consented pin, the    *)
(* governance files, the files of a setup profile behind their resume      *)
(* record, the bridge line - and last the manifest that records them.  The *)
(* apply holds the manifest lock throughout; it may be killed, or fail, at *)
(* any write, and is then simply run again.  Files are written in place,   *)
(* so a write may stop half-way.  The operator edits files at any time,    *)
(* under no lock.                                                          *)
(*                                                                         *)
(* A preflight that refuses writes nothing and is no step.  Left out: the  *)
(* product home, the ignore rules (merged as the bridge is), the copies    *)
(* beside a conflict, paths transferred to the user, authored inputs, the  *)
(* progress record, and the steps after the manifest (corpus and           *)
(* registration), which change nothing of this state.                      *)
(***************************************************************************)
EXTENDS Sequences, Naturals

CONSTANTS
  Releases,         \* the releases of the product; each declares its own bytes for every file
  NoRelease,
  Governance,       \* the governance files, in the order they are written
  Profile,          \* the files of the setup profile, in the order they are written
  OnlyWhenAbsent,   \* those of the profile's files that never replace one that is there
  Absent,           \* what a path holds that is not there
  Mine,             \* what the operator writes
  Half,             \* what a write leaves that stopped half-way
  MaxCommands,      \* bound: applies begun
  MaxPlans,         \* bound: plans shown
  MaxStops,         \* bound: applies killed or failed at a write
  MaxEdits          \* bound: edits of the operator

Elements(s) == {s[i] : i \in DOMAIN s}

ASSUME InitializationAssumption ==
  /\ Elements(Governance) \cap Elements(Profile) = {}
  /\ OnlyWhenAbsent \subseteq Elements(Profile)
  /\ NoRelease \notin Releases
  /\ {Absent, Mine, Half} \cap Releases = {} /\ Mine \notin {Absent, Half}
  /\ MaxCommands \in Nat /\ MaxPlans \in Nat /\ MaxStops \in Nat /\ MaxEdits \in Nat

Paths == Elements(Governance) \cup Elements(Profile)
Resumable == Elements(Profile) \ OnlyWhenAbsent

VARIABLES
  disk,             \* what each path holds
  bridge,           \* the root instructions: the operator's text and the bridge line, or neither
  pin,              \* the pinned version, and the operator's edits around it
  manifest,         \* the manifest in force
  resume,           \* the resume record: each path to be written, with what it held before
  cmd,              \* the apply that runs
  shown,            \* the plan last shown to the operator
  loose,            \* history: resumable files this product wrote whole and no manifest records yet
  spent,            \* history: an apply of the profile over such files has ended
  counts            \* applies, plans, stops and edits so far

files == <<disk, bridge, pin, manifest, resume>>
vars == <<files, cmd, shown, loose, spent, counts>>

NoText == [text |-> FALSE, line |-> FALSE]
NoEntry == [class |-> "none", digest |-> Absent]
Managed(r) == [class |-> "managed", digest |-> r]
NoManifest ==
  [entries |-> [p \in Paths |-> NoEntry], setup |-> NoRelease, bridged |-> FALSE, pinned |-> FALSE]
NoResume == [p \in {} |-> Absent]

------------------------------------------------------------------------------
(* What the preflight decides.                                             *)

\* A governance file that is there and unrecorded is adopted as it is.
Reconciled ==
  [manifest EXCEPT !.entries = [p \in Paths |->
     IF p \in Elements(Governance) /\ @[p] = NoEntry /\ disk[p] # Absent
     THEN [class |-> "adopted", digest |-> disk[p]]
     ELSE @[p]]]

\* A governance file is written where there is none, or none but this product's.
Governs(m, p) ==
  LET e == m.entries[p] IN
  \/ e.class = "none" /\ disk[p] = Absent
  \/ e.class = "managed" /\ disk[p] \in {Absent, e.digest}

\* What becomes of a path that is recorded as the profile's.
Managing(e, p, r) ==
  IF disk[p] = r THEN "unchanged"
  ELSE IF disk[p] \in {e.digest, Absent} THEN "replace"
  ELSE "customized"

\* Mutant of Resuming: what an interrupted apply was to write is replaced, whatever it holds.
ResumingTrusting(p, r) == IF disk[p] = r THEN "resumed" ELSE "replace"

\* What becomes of a path an interrupted apply was to write.
Resuming(p, r) ==
  IF disk[p] = r THEN "resumed"
  ELSE IF disk[p] = resume[p] THEN "replace"
  ELSE "edited"

\* What the plan does with one path of the profile.
ProfileAction(p, r) ==
  IF manifest.entries[p] # NoEntry THEN Managing(manifest.entries[p], p, r)
  ELSE IF disk[p] = Absent THEN "write"
  ELSE IF p \in OnlyWhenAbsent THEN "left-alone"
  ELSE IF p \in DOMAIN resume THEN Resuming(p, r)
  ELSE "authored"

Writing == {"write", "replace"}
Recording == Writing \cup {"unchanged", "resumed"}

\* The plan of the profile: nothing when a prerequisite is unmet.
ProfilePlan(r, withheld) ==
  [p \in Elements(Profile) |-> IF withheld THEN "withheld" ELSE ProfileAction(p, r)]

\* Mutant of Identity: what the paths hold now is left out.
IdentityUnseen(r, spine, withheld) ==
  [release |-> r, spine |-> spine, pin |-> pin, seen |-> [p \in Elements(Profile) |-> Absent],
   actions |-> ProfilePlan(r, withheld), target |-> <<>>]

\* What the identity of a plan binds: the release, each path as it is and what is done with
\* it, and the pin; with a consented pin the whole target besides.
Identity(r, spine, withheld) ==
  [release |-> r, spine |-> spine, pin |-> pin, seen |-> [p \in Elements(Profile) |-> disk[p]],
   actions |-> ProfilePlan(r, withheld),
   target |-> IF spine THEN <<disk, bridge, manifest>> ELSE <<>>]

NoPlan == [release |-> NoRelease]

Idle == [at |-> "idle"]

At(step) == cmd.at = step
Count(what) == counts' = [counts EXCEPT ![what] = @ + 1]

\* init plan: the preflight alone, between two applies.
Plans(r, spine, withheld) ==
  /\ At("idle") /\ counts.plans < MaxPlans /\ Count("plans")
  /\ shown' = Identity(r, spine, withheld)
  /\ UNCHANGED <<files, cmd, loose, spent>>

\* The profile is planned when it is named now, or was recorded before.
Selected(named) == named \/ manifest.setup # NoRelease

\* init apply: the lock and the preflight, which refuses a plan that is not the one approved.
Begins(r, named, approved, withheld) ==
  LET m == Reconciled
      setup == Selected(named)
      spine == approved /\ shown.spine
  IN
  /\ At("idle") /\ counts.commands < MaxCommands /\ Count("commands")
  /\ withheld => setup
  /\ approved => setup /\ shown # NoPlan
  /\ approved => shown = Identity(r, spine, withheld)
  /\ cmd' = [at |-> IF spine THEN "revalidate" ELSE "governance",
             release |-> r, given |-> IF approved THEN shown ELSE NoPlan,
             setup |-> setup, withheld |-> withheld,
             actions |-> ProfilePlan(r, withheld),
             new |-> m, todo |-> {p \in Elements(Governance) : Governs(m, p)},
             text |-> bridge, pin |-> pin, looked |-> pin, seen |-> disk, over |-> loose # {}]
  /\ UNCHANGED <<files, shown, loose, spent>>

------------------------------------------------------------------------------
(* What the apply performs.                                                *)

Goto(step) == cmd' = [cmd EXCEPT !.at = step]

\* A consented pin: the approved plan is computed again before anything is written.
Revalidates ==
  /\ At("revalidate")
  /\ IF cmd.given = Identity(cmd.release, TRUE, cmd.withheld) THEN Goto("stage") ELSE cmd' = Idle
  /\ UNCHANGED <<files, shown, loose, spent, counts>>

\* The new pin is staged; the last look finds the bytes that were planned on, or nothing is done.
StagesPin ==
  /\ At("stage")
  /\ cmd' = IF pin = cmd.pin THEN [cmd EXCEPT !.at = "pin", !.looked = pin] ELSE Idle
  /\ UNCHANGED <<files, shown, loose, spent, counts>>

\* The staged pin, made from the bytes the preflight read, is renamed into place.
RenamesPin ==
  /\ At("pin")
  /\ pin' = [cmd.pin EXCEPT !.version = 2]
  /\ cmd' = [cmd EXCEPT !.at = "governance", !.new.pinned = TRUE]
  /\ UNCHANGED <<disk, bridge, manifest, resume, shown, loose, spent, counts>>

\* The next file to be written, in the order of the declaration.
Foremost(s) ==
  {s[i] : i \in {i \in DOMAIN s : s[i] \in cmd.todo /\ \A j \in 1 .. i - 1 : s[j] \notin cmd.todo}}

Wrote(p) ==
  /\ disk' = [disk EXCEPT ![p] = cmd.release]
  /\ loose' = loose \cup ({p} \cap Resumable)

\* A governance file already as declared and recorded is passed over.
PassedOver(p) == disk[p] = cmd.release /\ cmd.new.entries[p] = Managed(cmd.release)

WritesGovernance ==
  /\ At("governance")
  /\ \E p \in Foremost(Governance) :
       /\ IF PassedOver(p) THEN UNCHANGED <<disk, loose>> ELSE Wrote(p)
       /\ cmd' = [cmd EXCEPT !.todo = @ \ {p}, !.new.entries[p] = Managed(cmd.release)]
  /\ UNCHANGED <<bridge, pin, manifest, resume, shown, spent, counts>>

ToWrite == {p \in Elements(Profile) : cmd.actions[p] \in Writing}

\* Mutant of OnRecord: a file that was not there is not put on record.
OnRecordReplaced == {p \in ToWrite : cmd.seen[p] # Absent}

\* Every file of the profile that is about to be written.
OnRecord == ToWrite

\* A withheld profile writes nothing, and neither does one that is not selected.
Performs == cmd.setup /\ ~cmd.withheld

\* The resume record: what is about to be written, and what was there, for this apply alone.
WritesResume ==
  /\ At("governance") /\ cmd.todo = {}
  /\ IF Performs
     THEN /\ resume' = [p \in OnRecord |-> cmd.seen[p]]
          /\ cmd' = [cmd EXCEPT !.at = "profile", !.todo = ToWrite]
     ELSE Goto("bridge") /\ UNCHANGED resume
  /\ UNCHANGED <<disk, bridge, pin, manifest, shown, loose, spent, counts>>

WritesProfile ==
  /\ At("profile")
  /\ \E p \in Foremost(Profile) : Wrote(p) /\ cmd' = [cmd EXCEPT !.todo = @ \ {p}]
  /\ UNCHANGED <<bridge, pin, manifest, resume, shown, spent, counts>>

\* The entries and the selection of the profile, in memory.
RecordsProfile ==
  /\ At("profile") /\ cmd.todo = {}
  /\ cmd' = [cmd EXCEPT !.at = "bridge", !.new.setup = cmd.release,
               !.new.entries = [p \in Paths |->
                  IF p \in Elements(Profile) /\ cmd.actions[p] \in Recording
                  THEN Managed(cmd.release) ELSE cmd.new.entries[p]]]
  /\ UNCHANGED <<files, shown, loose, spent, counts>>

\* The bridge line goes before the text the preflight read; only an insertion is recorded.
WritesBridge ==
  /\ At("bridge")
  /\ IF cmd.text.line
     THEN Goto("commit") /\ UNCHANGED bridge
     ELSE /\ bridge' = [cmd.text EXCEPT !.line = TRUE]
          /\ cmd' = [cmd EXCEPT !.at = "commit", !.new.bridged = TRUE]
  /\ UNCHANGED <<disk, pin, manifest, resume, shown, loose, spent, counts>>

\* The manifest, staged and renamed: what it records is not loose any more.
Commits ==
  /\ At("commit") /\ Goto("finish")
  /\ manifest' = cmd.new
  /\ loose' = {p \in loose : manifest'.entries[p].class # "managed"}
  /\ UNCHANGED <<disk, bridge, pin, resume, shown, spent, counts>>

\* (History) The apply over loose files that had the profile planned has ended.
Spends == spent' = (spent \/ (cmd.over /\ cmd.setup))

\* The resume record is removed, also by an apply whose profile was withheld.
Finishes ==
  /\ At("finish") /\ cmd' = Idle
  /\ resume' = IF cmd.setup THEN NoResume ELSE resume
  /\ Spends
  /\ UNCHANGED <<disk, bridge, pin, manifest, shown, loose, counts>>

\* What a write in place may leave of its path.
HalfWritten ==
  \/ UNCHANGED <<disk, bridge, resume, loose>>
  \/ \E p \in Foremost(IF At("profile") THEN Profile ELSE Governance) :
       /\ At("profile") \/ (At("governance") /\ ~PassedOver(p))
       /\ disk' = [disk EXCEPT ![p] = Half]
       /\ loose' = loose \ {p}
       /\ UNCHANGED <<bridge, resume>>
  \/ /\ At("governance") /\ cmd.todo = {} /\ Performs
     /\ resume' = NoResume
     /\ UNCHANGED <<disk, bridge, loose>>
  \/ /\ At("bridge") /\ ~cmd.text.line
     /\ bridge' = NoText
     /\ UNCHANGED <<disk, resume, loose>>

\* The apply is killed, or a write fails and stops it.
Stops ==
  /\ ~At("idle") /\ counts.stops < MaxStops /\ Count("stops")
  /\ HalfWritten
  /\ cmd' = Idle
  /\ Spends
  /\ UNCHANGED <<pin, manifest, shown>>

\* The operator writes a file or removes it, or edits around the pin.
Edits(p, bytes) ==
  /\ counts.edits < MaxEdits /\ Count("edits")
  /\ disk[p] # bytes
  /\ disk' = [disk EXCEPT ![p] = bytes]
  /\ loose' = loose \ {p}
  /\ UNCHANGED <<bridge, pin, manifest, resume, cmd, shown, spent>>

EditsPin ==
  /\ counts.edits < MaxEdits /\ Count("edits")
  /\ pin' = [pin EXCEPT !.edits = @ + 1]
  /\ UNCHANGED <<disk, bridge, manifest, resume, cmd, shown, loose, spent>>

------------------------------------------------------------------------------
Init ==
  /\ disk \in [Paths -> {Absent, Mine}]
  /\ bridge \in [text : {TRUE}, line : BOOLEAN]
  /\ pin = [version |-> 1, edits |-> 0]
  /\ manifest = NoManifest /\ resume = NoResume
  /\ cmd = Idle /\ shown = NoPlan
  /\ loose = {} /\ spent = FALSE
  /\ counts = [commands |-> 0, plans |-> 0, stops |-> 0, edits |-> 0]

Applies ==
  \/ Revalidates \/ StagesPin \/ RenamesPin
  \/ WritesGovernance
  \/ WritesResume \/ WritesProfile \/ RecordsProfile
  \/ WritesBridge \/ Commits \/ Finishes

Next ==
  \/ Applies
  \/ \E r \in Releases, spine, withheld \in BOOLEAN : Plans(r, spine, withheld)
  \/ \E r \in Releases, named, approved, withheld \in BOOLEAN : Begins(r, named, approved, withheld)
  \/ Stops
  \/ \E p \in Paths, bytes \in {Absent, Mine} : Edits(p, bytes)
  \/ EditsPin

Spec == Init /\ [][Next]_vars

------------------------------------------------------------------------------
Contents == {Absent, Mine, Half} \cup Releases
Texts == [text : BOOLEAN, line : BOOLEAN]
Pins == [version : {1, 2}, edits : Nat]
Entries == [Paths -> [class : {"none", "adopted", "managed"}, digest : Contents]]
Manifests == [entries : Entries, setup : Releases \cup {NoRelease}, bridged : BOOLEAN, pinned : BOOLEAN]
Actions == Recording \cup {"customized", "left-alone", "edited", "authored", "withheld"}

Shown ==
  {NoPlan} \cup
  [release : Releases, spine : BOOLEAN, pin : Pins, seen : [Elements(Profile) -> Contents],
   actions : [Elements(Profile) -> Actions],
   target : {<<>>} \cup ([Paths -> Contents] \X Texts \X Manifests)]

Commands ==
  [at : {"revalidate", "stage", "pin", "governance", "profile", "bridge", "commit", "finish"},
   release : Releases, given : Shown, setup : BOOLEAN, withheld : BOOLEAN,
   actions : [Elements(Profile) -> Actions], new : Manifests, todo : SUBSET Paths,
   text : Texts, pin : Pins, looked : Pins, seen : [Paths -> Contents], over : BOOLEAN]

TypeOK ==
  /\ disk \in [Paths -> Contents]
  /\ bridge \in Texts
  /\ pin \in Pins
  /\ manifest \in Manifests
  /\ DOMAIN resume \subseteq Elements(Profile)
  /\ resume \in [DOMAIN resume -> Contents]
  /\ cmd = Idle \/ cmd \in Commands
  /\ shown \in Shown
  /\ loose \subseteq Resumable
  /\ spent \in BOOLEAN
  /\ counts \in [commands : Nat, plans : Nat, stops : Nat, edits : Nat]

\* A step of an apply, which no edit of the operator is.
OfApply == cmd # Idle /\ cmd' # cmd

\* However often an apply is stopped and run again, it never writes over bytes of the
\* operator that its preflight found at a path, nor, unless a write of them stops half-way,
\* loses the text of the root instructions.
AuthoredSurvives ==
  [][OfApply =>
       /\ \A p \in Paths : disk'[p] # disk[p] => cmd.seen[p] # Mine
       /\ bridge.text /\ ~bridge'.text => cmd' = Idle]_vars

\* When an apply was stopped, the next one of the profile finds every file the first had
\* written as its own, if it is of the same release, and its manifest records it; what the
\* operator has edited since is not taken for the product's.  That apply is the only chance:
\* if it is stopped or withheld too, or of another release, the files stay unrecorded, as those
\* do that never replace one that is there ("Known divergences" of the README).
NothingLeftBehind ==
  [][At("commit") /\ cmd'.at = "finish" /\ Performs /\ ~spent =>
       \A p \in loose : disk[p] = cmd.release => manifest'.entries[p] = Managed(cmd.release)]_vars

\* An apply of an approved plan writes a file of the profile only where the plan said so, with
\* the release it named and over the bytes it showed, and replaces the pin only if the last
\* look found it as the operator had reviewed it.
ReviewedIsDone ==
  [][OfApply =>
       /\ \A p \in Elements(Profile) :
            disk'[p] # disk[p] /\ cmd.given # NoPlan =>
              /\ cmd.given.release = cmd.release
              /\ cmd.given.actions[p] \in Writing
              /\ cmd.given.seen[p] = cmd.seen[p]
       /\ pin' # pin => cmd.given # NoPlan /\ cmd.looked = cmd.given.pin]_vars
===============================================================================
