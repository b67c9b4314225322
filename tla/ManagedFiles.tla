----------------------------- MODULE ManagedFiles -----------------------------
(***************************************************************************)
(* The environment of a target repository: the files an adapter's release  *)
(* declares, the manifest that records which of them are this product's,   *)
(* and the commands that write both: apply and upgrade, apply with the     *)
(* operator's consent for a drifted file, remove, and the transfer of a    *)
(* path from one owner to another.                                         *)
(*                                                                         *)
(* A manifest is known by its digest; here, by its revision, which every   *)
(* commit makes anew.  Commands run as processes and may be killed between *)
(* any two steps; the operator edits files at any time, under no lock.     *)
(* Links, authored inputs, the claims of other installers, the bridge line *)
(* and an adapter that cannot run are left out.                            *)
(***************************************************************************)
EXTENDS Naturals, Sequences, FiniteSets

CONSTANTS
  Proc,             \* the processes that run commands
  Paths,            \* the files
  Declares,         \* for each release, the contents it declares
  Edits,            \* the contents an operator writes
  NoFile,           \* the content of a file that is not there
  Nobody,           \* the holder of a free lock
  MaxRevs,          \* bound: manifests committed
  MaxPlans,         \* bound: transfer plans shown
  MaxEdits,         \* bound: edits made
  MaxKills          \* bound: commands killed

ASSUME ManagedFilesAssumption ==
  /\ Nobody \notin Proc /\ NoFile \notin Edits
  /\ \A r \in DOMAIN Declares : DOMAIN Declares[r] \subseteq Paths
  /\ MaxRevs \in Nat /\ MaxPlans \in Nat /\ MaxEdits \in Nat /\ MaxKills \in Nat

VARIABLES
  files,            \* what each path holds
  manifest,         \* the manifest in force
  lock,             \* who holds the manifest lock
  cmd,              \* the command each process runs
  plans,            \* the transfer plans shown to the operator
  consent,          \* the replacement the operator last consented to
  edits,            \* the edits made so far
  kills             \* the commands killed so far

vars == <<files, manifest, lock, cmd, plans, consent, edits, kills>>

Releases == DOMAIN Declares

NoEntry == [class |-> "user", digest |-> NoFile, moved |-> FALSE]

Entry(class, digest, moved) == [class |-> class, digest |-> digest, moved |-> moved]

NoManifest == [rev |-> 0, entries |-> [p \in Paths |-> NoEntry], journal |-> <<>>]

Idle == [verb |-> "none", at |-> "idle", base |-> 0, new |-> NoManifest, puts |-> {},
         swaps |-> {}, drops |-> {}, given |-> NoFile, seen |-> [p \in Paths |-> NoFile]]

NoConsent == [path |-> CHOOSE p \in Paths : TRUE, recorded |-> NoFile, found |-> NoFile,
              replacement |-> NoFile]

------------------------------------------------------------------------------
(* What a plan finds, from one reading of the manifest and of each file.   *)

Managed(m, p) == m.entries[p].class = "managed"

Put(p, content) == [path |-> p, content |-> content]

\* The file is gone, or holds the bytes the manifest records.
Untouched(m, p) == files[p] \in {NoFile, m.entries[p].digest}

\* A declared file is written where nothing was ever there, or nothing but what this product wrote.
PlannedWrites(m, r) ==
  {Put(p, Declares[r][p]) : p \in {q \in DOMAIN Declares[r] :
     \/ Managed(m, q) /\ Untouched(m, q)
     \/ m.entries[q].class = "user" /\ files[q] = NoFile}}

\* A managed file no longer declared is retired, unless it drifted or was transferred.
PlannedRetired(m, r) ==
  {p \in Paths : Managed(m, p) /\ ~m.entries[p].moved /\ p \notin DOMAIN Declares[r] /\ Untouched(m, p)}

Drifted(m, p) == Managed(m, p) /\ ~Untouched(m, p)

------------------------------------------------------------------------------
(* The ownership journal.                                                  *)

Record(p, from, to, digest, rev, reverts) ==
  [path |-> p, from |-> from, to |-> to, digest |-> digest, before |-> rev, reverts |-> reverts]

About(m, p) == {i \in DOMAIN m.journal : m.journal[i].path = p}

\* The place of the latest record of a path; 0 when there is none.
Latest(m, p) ==
  IF About(m, p) = {} THEN 0 ELSE CHOOSE i \in About(m, p) : \A j \in About(m, p) : j <= i

Admitted(from, to) ==
  <<from, to>> \in {<<"user", "adopted">>, <<"user", "managed">>, <<"adopted", "user">>, <<"managed", "user">>}

\* Mutant of Superseded: a removal after a transfer is forgotten.
NeverSuperseded(m, rec) == FALSE

\* The product's own operations that leave a path in another class than its record.
Superseded(m, rec) ==
  \/ rec.to = "managed" /\ m.entries[rec.path].class = "user"
  \/ rec.to = "user" /\ Managed(m, rec.path) /\ ~m.entries[rec.path].moved

\* The journal agrees with the entries.
Agrees(m) ==
  \A i \in {Latest(m, p) : p \in Paths} \ {0} :
    LET rec == m.journal[i] IN m.entries[rec.path].class = rec.to \/ Superseded(m, rec)

\* The digest a file should have after a recorded transfer.
Expected(m, rec) == IF rec.to = "user" THEN rec.digest ELSE m.entries[rec.path].digest

\* A release of the product declares the path, so the product can manage it.
Adoptable(p, to) == to = "managed" => \E r \in Releases : p \in DOMAIN Declares[r]

Resulting(to, digest) ==
  CASE to = "user" -> NoEntry
    [] to = "adopted" -> Entry("adopted", digest, FALSE)
    [] OTHER -> Entry("managed", digest, TRUE)

------------------------------------------------------------------------------
(* Commands.                                                               *)

Runs(p, at) == cmd[p].at = at

Goto(p, c) == cmd' = [cmd EXCEPT ![p] = c]

Ends(p) == Goto(p, Idle)

Take(p) == lock = Nobody /\ lock' = p

Work(verb, at, m) ==
  [Idle EXCEPT !.verb = verb, !.at = at, !.base = m.rev, !.new = m, !.seen = files]

\* A managed file's entry: its new digest, and whether it was transferred, as before.
Wrote(c, q, content) ==
  [c EXCEPT !.new.entries[q] = Entry("managed", content, c.new.entries[q].moved)]

\* Mutant of Moved: a manifest that changed since it was read is written over.
NeverMoved(c) == FALSE

\* The manifest is not the one this command read.
Moved(c) == manifest.rev # c.base

\* env apply and env upgrade: the lock, the manifest and the plan.
ApplyStarts(p, r) ==
  /\ Runs(p, "idle") /\ Take(p)
  /\ Goto(p, [Work("apply", "write", manifest) EXCEPT
                !.puts = PlannedWrites(manifest, r), !.drops = PlannedRetired(manifest, r)])
  /\ UNCHANGED <<files, manifest, plans, consent, edits, kills>>

\* The operator is shown a plan that names a drifted file, and consents to its replacement.
Consents(q, r) ==
  /\ q \in DOMAIN Declares[r] /\ Drifted(manifest, q) /\ files[q] # Declares[r][q]
  /\ consent' = [path |-> q, recorded |-> manifest.entries[q].digest, found |-> files[q],
                 replacement |-> Declares[r][q]]
  /\ consent' # consent
  /\ UNCHANGED <<files, manifest, lock, cmd, plans, edits, kills>>

\* Mutant of SameReplacement: the plan's identity leaves out what the file held.
SameReplacementUnfound(m, r) ==
  /\ Drifted(m, consent.path)
  /\ consent.recorded = m.entries[consent.path].digest
  /\ consent.replacement = Declares[r][consent.path]

\* The replacement planned now is the one consented to.
SameReplacement(m, r) ==
  /\ Drifted(m, consent.path)
  /\ consent.recorded = m.entries[consent.path].digest
  /\ consent.found = files[consent.path]
  /\ consent.replacement = Declares[r][consent.path]

\* The file already holds the replacement; recording it is all there is to do.
AlreadySatisfied(m, r) == Drifted(m, consent.path) /\ files[consent.path] = Declares[r][consent.path]

\* env apply with a consent: the manifest is read, and the plan made, before the lock.
ConsentedStarts(p, r) ==
  LET q == consent.path
      m == manifest
  IN
  /\ Runs(p, "idle") /\ consent # NoConsent /\ q \in DOMAIN Declares[r]
  /\ \/ /\ SameReplacement(m, r) /\ files[q] # Declares[r][q]
        /\ Goto(p, [Work("replace", "lock", m) EXCEPT !.swaps = {Put(q, Declares[r][q])}, !.given = consent.found,
                      !.puts = PlannedWrites(m, r), !.drops = PlannedRetired(m, r)])
     \/ /\ AlreadySatisfied(m, r)
        /\ Goto(p, [Wrote(Work("replace", "lock", m), q, files[q]) EXCEPT
                      !.puts = PlannedWrites(m, r), !.drops = PlannedRetired(m, r)])
  /\ UNCHANGED <<files, manifest, lock, plans, consent, edits, kills>>

\* The lock, and a refusal when the manifest moved since it was read.
ConsentedLocks(p) ==
  /\ Runs(p, "lock")
  /\ \/ Moved(cmd[p]) /\ Ends(p) /\ UNCHANGED lock
     \/ ~Moved(cmd[p]) /\ Take(p) /\ Goto(p, [cmd[p] EXCEPT !.at = "check"])
  /\ UNCHANGED <<files, manifest, plans, consent, edits, kills>>

Release(p) == lock' = IF lock = p THEN Nobody ELSE lock

\* The last look before any rename: every file still holds what the plan saw.
ChecksTargets(p) ==
  /\ Runs(p, "check")
  /\ IF \A s \in cmd[p].swaps : files[s.path] = cmd[p].seen[s.path]
     THEN Goto(p, [cmd[p] EXCEPT !.at = "swap"]) /\ UNCHANGED lock
     ELSE Ends(p) /\ Release(p)
  /\ UNCHANGED <<files, manifest, plans, consent, edits, kills>>

\* A staged replacement is renamed over the drifted file.
Swaps(p) ==
  /\ Runs(p, "swap")
  /\ \/ \E s \in cmd[p].swaps :
          /\ files' = [files EXCEPT ![s.path] = s.content]
          /\ Goto(p, [Wrote(cmd[p], s.path, s.content) EXCEPT !.swaps = @ \ {s}])
     \/ cmd[p].swaps = {} /\ Goto(p, [cmd[p] EXCEPT !.at = "write"]) /\ UNCHANGED files
  /\ UNCHANGED <<manifest, lock, plans, consent, edits, kills>>

\* A declared file is written.
Writes(p) ==
  /\ Runs(p, "write")
  /\ \/ \E w \in cmd[p].puts :
          /\ files' = [files EXCEPT ![w.path] = w.content]
          /\ Goto(p, [Wrote(cmd[p], w.path, w.content) EXCEPT !.puts = @ \ {w}])
     \/ cmd[p].puts = {} /\ Goto(p, [cmd[p] EXCEPT !.at = "drop"]) /\ UNCHANGED files
  /\ UNCHANGED <<manifest, lock, plans, consent, edits, kills>>

\* A retired or removed file goes, with its entry, while it holds the recorded bytes.
Drops(p) ==
  /\ Runs(p, "drop")
  /\ \/ \E q \in cmd[p].drops :
          IF files[q] \in {NoFile, cmd[p].new.entries[q].digest}
          THEN /\ files' = [files EXCEPT ![q] = NoFile]
               /\ Goto(p, [cmd[p] EXCEPT !.new.entries[q] = NoEntry, !.drops = @ \ {q}])
          ELSE /\ Goto(p, [cmd[p] EXCEPT !.drops = @ \ {q}])
               /\ UNCHANGED files
     \/ cmd[p].drops = {} /\ Goto(p, [cmd[p] EXCEPT !.at = "commit"]) /\ UNCHANGED files
  /\ UNCHANGED <<manifest, lock, plans, consent, edits, kills>>

\* env remove: every managed path, under the lock.
RemoveStarts(p) ==
  /\ Runs(p, "idle") /\ manifest.rev # 0 /\ Take(p)
  /\ Goto(p, [Work("remove", "drop", manifest) EXCEPT !.drops = {q \in Paths : Managed(manifest, q)}])
  /\ UNCHANGED <<files, manifest, plans, consent, edits, kills>>

\* What a plan's identity binds.
PlanOf(q, from, to, digest, rev) ==
  [path |-> q, from |-> from, to |-> to, digest |-> digest, rev |-> rev]

\* transfer plan: one reading of the manifest and of the file, and no lock.
PlansTransfer(q, from, to) ==
  /\ Admitted(from, to) /\ manifest.rev # 0
  /\ manifest.entries[q].class = from /\ files[q] # NoFile /\ Adoptable(q, to)
  /\ PlanOf(q, from, to, files[q], manifest.rev) \notin plans /\ Cardinality(plans) < MaxPlans
  /\ plans' = plans \cup {PlanOf(q, from, to, files[q], manifest.rev)}
  /\ UNCHANGED <<files, manifest, lock, cmd, consent, edits, kills>>

\* Mutant of Current: a plan is current whatever the manifest has become.
CurrentFile(q, from, to) ==
  \E pl \in plans : pl = PlanOf(q, from, to, files[q], pl.rev)

\* A plan that was shown is the plan the inputs give now.
Current(q, from, to) == PlanOf(q, from, to, files[q], manifest.rev) \in plans

Recorded(m, q, to, rec) ==
  [m EXCEPT !.entries[q] = Resulting(to, rec.digest), !.journal = Append(@, rec)]

\* transfer apply: refused when the lock is busy, the journal disagrees or the plan is stale.
TransferStarts(p, q, from, to) ==
  /\ Runs(p, "idle") /\ Take(p) /\ manifest.rev # 0
  /\ Agrees(manifest) /\ manifest.entries[q].class = from /\ files[q] # NoFile /\ Adoptable(q, to)
  /\ Current(q, from, to)
  /\ Goto(p, [Work("transfer", "commit", manifest) EXCEPT
                !.new = Recorded(manifest, q, to, Record(q, from, to, files[q], manifest.rev, 0))])
  /\ UNCHANGED <<files, manifest, plans, consent, edits, kills>>

\* The latest transfer of its path, its class and its bytes still as it left them.
Reversible(m, i) ==
  LET rec == m.journal[i] IN
  /\ i = Latest(m, rec.path)
  /\ m.entries[rec.path].class = rec.to
  /\ files[rec.path] # NoFile /\ files[rec.path] = Expected(m, rec)

\* transfer revert: the inverse move of a recorded transfer.
RevertStarts(p, i) ==
  LET rec == manifest.journal[i] IN
  /\ Runs(p, "idle") /\ Take(p)
  /\ Agrees(manifest) /\ Reversible(manifest, i) /\ Adoptable(rec.path, rec.from)
  /\ Goto(p, [Work("revert", "commit", manifest) EXCEPT
                !.new = Recorded(manifest, rec.path, rec.from,
                                 Record(rec.path, rec.to, rec.from, files[rec.path], manifest.rev, i))])
  /\ UNCHANGED <<files, manifest, plans, consent, edits, kills>>

\* The manifest is staged, found to be the one that was read, and renamed into place.
Commits(p) ==
  /\ Runs(p, "commit")
  /\ \/ Moved(cmd[p]) /\ UNCHANGED manifest
     \/ /\ ~Moved(cmd[p]) /\ manifest.rev < MaxRevs
        /\ manifest' = [cmd[p].new EXCEPT !.rev = manifest.rev + 1]
  /\ Ends(p) /\ Release(p)
  /\ UNCHANGED <<files, plans, consent, edits, kills>>

------------------------------------------------------------------------------
(* The operator's editor, and kills.                                       *)

EditsFile(q, content) ==
  /\ edits < MaxEdits /\ edits' = edits + 1
  /\ files[q] # content /\ files' = [files EXCEPT ![q] = content]
  /\ UNCHANGED <<manifest, lock, cmd, plans, consent, kills>>

Killed(p) ==
  /\ ~Runs(p, "idle") /\ kills < MaxKills
  /\ kills' = kills + 1
  /\ Ends(p) /\ Release(p)
  /\ UNCHANGED <<files, manifest, plans, consent, edits>>

------------------------------------------------------------------------------

Init ==
  /\ files \in [Paths -> {NoFile} \cup Edits]
  /\ manifest = NoManifest
  /\ lock = Nobody /\ cmd = [p \in Proc |-> Idle]
  /\ plans = {} /\ consent = NoConsent
  /\ edits = 0 /\ kills = 0

Product(p) ==
  \/ \E r \in Releases : ApplyStarts(p, r) \/ ConsentedStarts(p, r)
  \/ ConsentedLocks(p)
  \/ ChecksTargets(p)
  \/ Swaps(p)
  \/ Writes(p)
  \/ Drops(p)
  \/ RemoveStarts(p)
  \/ \E q \in Paths, from, to \in {"user", "adopted", "managed"} : TransferStarts(p, q, from, to)
  \/ \E i \in DOMAIN manifest.journal : RevertStarts(p, i)
  \/ Commits(p)

Operator ==
  \/ \E q \in Paths, r \in Releases : Consents(q, r)
  \/ \E q \in Paths, from, to \in {"user", "adopted", "managed"} : PlansTransfer(q, from, to)
  \/ \E q \in Paths, content \in Edits \cup {NoFile} : EditsFile(q, content)

Next ==
  \/ \E p \in Proc : Product(p)
  \/ \E p \in Proc : Killed(p)
  \/ Operator

Spec == Init /\ [][Next]_vars

------------------------------------------------------------------------------
(* Properties.                                                             *)

\* The ownership journal never disagrees with the entries, whatever order the
\* product's own commands take a path through: a disagreement is another hand's.
JournalAgrees == Agrees(manifest)

\* No commit loses a transfer that was recorded after its command read the
\* manifest: every manifest in force continues the journal of the one before.
NothingLost ==
  [][\A i \in DOMAIN manifest.journal :
       i \in DOMAIN manifest'.journal /\ manifest'.journal[i] = manifest.journal[i]]_vars

\* A transfer is recorded only of a path, classes, bytes and a manifest that an
\* operator was shown together; and a reversal only of the bytes that the record
\* it undoes accounts for.
TransferAsShown ==
  [][Len(manifest'.journal) > Len(manifest.journal) =>
       LET rec == manifest'.journal[Len(manifest'.journal)] IN
       IF rec.reverts = 0 THEN PlanOf(rec.path, rec.from, rec.to, rec.digest, manifest.rev) \in plans
       ELSE rec.digest = Expected(manifest, manifest.journal[rec.reverts])]_vars

\* The operator's bytes that a command saw in place when it planned are in place
\* when it ends, but for the one replacement the operator consented to, of those
\* bytes.
SeenEditsSurvive ==
  [][\A p \in Proc, q \in Paths :
       cmd'[p] # cmd[p] /\ files'[q] # files[q] /\ files[q] \in Edits /\ files[q] = cmd[p].seen[q] =>
         \/ manifest.entries[q].digest = files[q]
         \/ cmd[p].given = files[q]]_vars
===============================================================================
