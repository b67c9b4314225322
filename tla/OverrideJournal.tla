---------------------------- MODULE OverrideJournal ----------------------------
(***************************************************************************)
(* The override journal and its state authority: two files, written in up  *)
(* to five durable steps under the repository lock, read under it, and     *)
(* settled by the operator when they disagree.                             *)
(*                                                                         *)
(* A line is known by its digest; here, by the number it was written       *)
(* under.  The lock is exclusive, so the steps of a write are one program  *)
(* counter.  A kill frees the lock between any two steps and may tear the  *)
(* line being appended.  Hands other than the product's edit the files     *)
(* between commands.                                                       *)
(*                                                                         *)
(* JournalProofs is about this module and about two more, so what every    *)
(* specification has is named OJ... here.                                  *)
(***************************************************************************)
EXTENDS Naturals, Sequences

CONSTANTS
  Specs,            \* the specs an override may name
  NoSpec,           \* what a line that names none has in its place
  MaxWrites,        \* bound: lines ever begun
  MaxKills,         \* bound: writes interrupted
  MaxEdits          \* bound: edits from outside the product

ASSUME OverrideJournalAssumption ==
  NoSpec \notin Specs /\ MaxWrites \in Nat /\ MaxKills \in Nat /\ MaxEdits \in Nat

VARIABLES
  journal,          \* the journal file
  authority,        \* the state authority
  pc,               \* where the holder of the lock is in its write; "free" when nobody holds it
  write,            \* what it is writing
  serial,           \* the lines begun so far
  kills,            \* the writes interrupted so far
  edits,            \* the edits from outside so far
  chosen,           \* history: the lines an operator was told of or chose in a recovery
  tail              \* history: a grant or revocation was begun over an unacknowledged tail

files == <<journal, authority>>
history == <<chosen, tail>>
ojvars == <<files, pc, write, serial, kills, edits, history>>

NoLine == [d |-> 0, prev |-> 0, what |-> "none", spec |-> NoSpec, voids |-> 0]
GarbledLine == [NoLine EXCEPT !.what = "garbage"]

NoJournal == [exists |-> FALSE, lines |-> <<>>, torn |-> FALSE]

NoIntent == [position |-> 0, d |-> 0]

Document(n, last, intended) == [kind |-> "doc", lines |-> n, last |-> last, intended |-> intended]

NoAuthority == [kind |-> "absent", lines |-> 0, last |-> 0, intended |-> NoIntent]

NoWrite == [step1 |-> FALSE, cut |-> FALSE, replace |-> FALSE, lines |-> 0, last |-> 0,
            alines |-> 0, alast |-> 0, line |-> NoLine]

------------------------------------------------------------------------------
(* Reading the two files.                                                  *)

DigestAt(j, k) == IF k = 0 THEN 0 ELSE j.lines[k].d

\* Line k parses and links to the line before it.
Follows(j, k) == j.lines[k].what # "garbage" /\ j.lines[k].prev = DigestAt(j, k - 1)

\* How many lines verify: those before the first that does not follow.
Verified(j) ==
  CHOOSE n \in 0 .. Len(j.lines) :
    /\ \A k \in 1 .. n : Follows(j, k)
    /\ n < Len(j.lines) => ~Follows(j, n + 1)

Invalid(j) == Verified(j) < Len(j.lines)

\* The state of a journal whose authority is missing or does not parse.
WithoutAuthority(j, a) ==
  IF ~j.exists THEN (IF a.kind = "absent" THEN "empty" ELSE "missing")
  ELSE IF Invalid(j) THEN "invalid" ELSE "disagreement"

WithoutJournal(a) ==
  IF a.lines # 0 THEN "missing"
  ELSE IF a.intended = NoIntent THEN "empty" ELSE "intentWithoutLine"

\* The state of two files that both read.
Compared(j, a) ==
  LET n == Len(j.lines)
      c == a.lines
      i == a.intended
  IN
  CASE n < c \/ a.last # DigestAt(j, c) -> "disagreement"
    [] OTHER ->
       CASE i = NoIntent -> IF n > c \/ j.torn THEN "disagreement" ELSE "agree"
         [] i # NoIntent /\ n > c /\ i.position = n + 1 ->
              IF j.torn THEN "intentTorn" ELSE "intentWithoutLine"
         [] i # NoIntent /\ n > c /\ i.position = n /\ ~j.torn /\ DigestAt(j, n) = i.d -> "pending"
         [] i # NoIntent /\ n = c /\ i.position = c + 1 ->
              IF j.torn THEN "intentTorn" ELSE "intentWithoutLine"
         [] OTHER -> "disagreement"

Classify(j, a) ==
  CASE a.kind # "doc" -> WithoutAuthority(j, a)
    [] a.kind = "doc" /\ ~j.exists -> WithoutJournal(a)
    [] a.kind = "doc" /\ j.exists /\ Invalid(j) -> "invalid"
    [] OTHER -> Compared(j, a)

\* Mutant of Covered: every line that verifies is read.
CoveredAll(j, a) == Verified(j)

\* The lines the fold reads: those the authority covers.
Covered(j, a) ==
  IF a.kind = "doc" /\ a.lines < Verified(j) THEN a.lines ELSE Verified(j)

\* The grant lines in force among the lines covered.
GrantsInForce(j, a) ==
  LET n == Covered(j, a)
      voided == {j.lines[k].voids : k \in 1 .. n}
      kept == {k \in 1 .. n : j.lines[k].d \notin voided}
  IN {k \in kept :
        /\ j.lines[k].what = "grant"
        /\ \A l \in kept : l > k => ~(j.lines[l].what = "revoke" /\ j.lines[l].spec = j.lines[k].spec)}

InForce(j, a) == {j.lines[k].spec : k \in GrantsInForce(j, a)}

Readable(state) == state \in {"empty", "agree", "intentWithoutLine", "intentTorn"}


State == Classify(journal, authority)
Current == InForce(journal, authority)

\* The recovery choices a state allows.
Allowed(state) ==
  CASE state \in {"empty", "agree"} -> {}
    [] state \in {"intentWithoutLine", "intentTorn"} -> {"discard"}
    [] state = "pending" -> {"complete", "discard"}
    [] state = "disagreement" -> {"asRead"}
    [] state = "invalid" -> {"prefix"}
    [] OTHER -> {"empty"}

------------------------------------------------------------------------------
(* The verbs, up to their first durable step.                              *)

LineOf(what, s, prev, voids) ==
  [d |-> serial + 1, prev |-> prev, what |-> what, spec |-> s, voids |-> voids]

Begin(w) ==
  /\ pc = "free" /\ serial < MaxWrites
  /\ serial' = serial + 1
  /\ write' = w
  /\ pc' = IF w.step1 THEN "step1" ELSE "step2"
  /\ UNCHANGED <<files, kills, edits>>

\* A torn last line is cut off before the next is appended.
Cut == journal.torn

\* Grant and revoke: both follow the authority's count, whatever the journal holds past it.
Change(what, s) ==
  /\ Readable(State)
  /\ IF what = "grant" THEN s \notin Current ELSE s \in Current
  /\ LET a == IF authority.kind = "doc" THEN authority ELSE NoAuthority IN
     /\ Begin([step1 |-> authority.kind # "doc", cut |-> Cut, replace |-> FALSE,
               lines |-> a.lines, last |-> a.last, alines |-> a.lines, alast |-> a.last,
               line |-> LineOf(what, s, a.last, 0)])
     /\ tail' = (tail \/ Len(journal.lines) > a.lines)
     /\ UNCHANGED chosen

\* Mutant of DiscardPending: the baseline is everything that verifies, acknowledged first.
DiscardAtBaseline ==
  LET n == Len(journal.lines) IN
  /\ "discard" \in Allowed(State)
  /\ Begin([step1 |-> TRUE, cut |-> Cut, replace |-> FALSE,
            lines |-> n, last |-> DigestAt(journal, n), alines |-> n, alast |-> DigestAt(journal, n),
            line |-> LineOf("recover", NoSpec, DigestAt(journal, n), 0)])
  /\ UNCHANGED history

\* A pending tail is kept out of force by the old count until the line that voids it is durable.
DiscardPending ==
  LET n == Len(journal.lines)
      c == authority.lines
      ends == IF n > c THEN n ELSE c
      last == IF n > c THEN DigestAt(journal, n) ELSE authority.last
  IN
  /\ "discard" \in Allowed(State)
  /\ Begin([step1 |-> FALSE, cut |-> Cut, replace |-> FALSE,
            lines |-> ends, last |-> last, alines |-> c, alast |-> authority.last,
            line |-> LineOf("recover", NoSpec, last, IF n > c THEN DigestAt(journal, c + 1) ELSE 0)])
  /\ UNCHANGED history

\* The choices that write their baseline before their line.
RecoverTo(choice, n, replace) ==
  /\ choice \in Allowed(State)
  /\ Begin([step1 |-> TRUE, cut |-> ~replace /\ Cut, replace |-> replace,
            lines |-> n, last |-> DigestAt(journal, n), alines |-> n, alast |-> DigestAt(journal, n),
            line |-> LineOf("recover", NoSpec, DigestAt(journal, n), 0)])
  /\ chosen' = chosen \cup {journal.lines[k].d : k \in 1 .. n}
  /\ UNCHANGED tail

Recover ==
  \/ DiscardPending
  \/ RecoverTo("complete", Len(journal.lines), FALSE)
  \/ RecoverTo("asRead", Len(journal.lines), FALSE)
  \/ RecoverTo("prefix", Verified(journal), TRUE)
  \/ RecoverTo("empty", 0, FALSE)

------------------------------------------------------------------------------
(* The durable steps.                                                      *)

Step(here, next) ==
  /\ pc = here /\ pc' = next
  /\ UNCHANGED <<serial, kills, edits>>

\* Step 1: the baseline, durable before anything else.
BaselineAuthority ==
  /\ Step("step1", "step2")
  /\ authority' = Document(write.lines, write.last, NoIntent)
  /\ UNCHANGED <<journal, write, history>>

\* Step 2: the intended line, its position and its digest.
IntendLine ==
  /\ Step("step2", IF write.cut THEN "cut" ELSE "append")
  /\ authority' = Document(write.alines, write.alast,
                           [position |-> write.lines + 1, d |-> write.line.d])
  /\ UNCHANGED <<journal, write, history>>

\* A torn last line is cut off, durably, before the append.
CutTorn ==
  /\ Step("cut", "append")
  /\ journal' = [journal EXCEPT !.torn = FALSE]
  /\ UNCHANGED <<authority, write, history>>

Kept == IF write.replace THEN SubSeq(journal.lines, 1, write.lines) ELSE journal.lines

\* A line appended to a torn one makes one line of the two.
Appended == Append(Kept, IF journal.torn /\ ~write.replace THEN GarbledLine ELSE write.line)

\* Step 3: the line, appended or with the prefix that is kept.
AppendLine ==
  /\ Step("append", "step4")
  /\ journal' = [exists |-> TRUE, lines |-> Appended, torn |-> FALSE]
  /\ UNCHANGED <<authority, write, history>>

\* Step 4: the new count, no intended line; the operator is told.
Acknowledge ==
  /\ Step("step4", "free")
  /\ authority' = Document(write.lines + 1, write.line.d, NoIntent)
  /\ chosen' = chosen \cup {write.line.d}
  /\ write' = NoWrite
  /\ UNCHANGED <<journal, tail>>

\* A write stops between two steps: a kill, or a step that failed.
Stops ==
  /\ pc # "free" /\ kills < MaxKills
  /\ pc' = "free" /\ write' = NoWrite /\ kills' = kills + 1
  /\ UNCHANGED <<files, serial, edits, history>>

\* It stops within step 3 and leaves part of the line.
Tear ==
  /\ pc = "append" /\ ~write.replace /\ kills < MaxKills
  /\ journal' = [journal EXCEPT !.exists = TRUE, !.torn = TRUE]
  /\ pc' = "free" /\ write' = NoWrite /\ kills' = kills + 1
  /\ UNCHANGED <<authority, serial, edits, history>>

------------------------------------------------------------------------------
(* What other hands do to the files between commands.                      *)

Edit(j, a) ==
  /\ pc = "free" /\ edits < MaxEdits
  /\ journal' = j /\ authority' = a
  /\ <<j, a>> # files
  /\ edits' = edits + 1
  /\ UNCHANGED <<pc, write, kills, history>>

WithLines(s) == [journal EXCEPT !.lines = s]

\* An older journal restored, a line edited in place, and a file removed or garbled.
EditFiles ==
  /\ \/ journal.exists /\ \E n \in 0 .. Len(journal.lines) - 1 :
          Edit(WithLines(SubSeq(journal.lines, 1, n)), authority)
     \/ \E k \in DOMAIN journal.lines :
          Edit(WithLines([journal.lines EXCEPT ![k] = GarbledLine]), authority)
     \/ Edit(NoJournal, authority)
     \/ Edit(journal, NoAuthority)
     \/ Edit(journal, [NoAuthority EXCEPT !.kind = "garbled"])
  /\ UNCHANGED serial

\* A line changed, or added, by hand: it parses, and its digest is new.
EditLine ==
  /\ serial < MaxWrites /\ serial' = serial + 1
  /\ \/ \E k \in DOMAIN journal.lines, s \in Specs :
          Edit(WithLines([journal.lines EXCEPT ![k].d = serial + 1, ![k].spec = s]), authority)
     \/ journal.exists /\ \E s \in Specs :
          Edit(WithLines(Append(journal.lines,
                 LineOf("grant", s, DigestAt(journal, Len(journal.lines)), 0))), authority)

------------------------------------------------------------------------------

OJInit ==
  /\ journal = NoJournal /\ authority = NoAuthority
  /\ pc = "free" /\ write = NoWrite
  /\ serial = 0 /\ kills = 0 /\ edits = 0
  /\ chosen = {} /\ tail = FALSE

OJNext ==
  \/ \E what \in {"grant", "revoke"}, s \in Specs : Change(what, s)
  \/ Recover
  \/ BaselineAuthority
  \/ IntendLine
  \/ CutTorn
  \/ AppendLine
  \/ Acknowledge
  \/ Stops
  \/ Tear
  \/ EditFiles
  \/ EditLine

OJSpec == OJInit /\ [][OJNext]_ojvars

------------------------------------------------------------------------------
(* Properties.                                                             *)

\* What the files and the writer may hold.
OJTypeOK ==
  /\ journal.exists \in BOOLEAN /\ journal.torn \in BOOLEAN
  /\ Len(journal.lines) <= MaxWrites
  /\ \A k \in DOMAIN journal.lines :
       /\ journal.lines[k].d \in 0 .. serial
       /\ journal.lines[k].spec \in Specs \cup {NoSpec}
  /\ authority.kind \in {"absent", "garbled", "doc"}
  /\ authority.lines \in 0 .. MaxWrites
  /\ authority.intended.position \in 0 .. MaxWrites
  /\ pc \in {"free", "step1", "step2", "cut", "append", "step4"}
  /\ serial \in 0 .. MaxWrites /\ kills \in 0 .. MaxKills /\ edits \in 0 .. MaxEdits

\* A grant is in force only if its own command was acknowledged, or an operator
\* completed or adopted it: no interrupted write, and no interrupted discard of
\* one, brings its line into force, and no one edit does; two edits of an
\* unacknowledged tail may pass for the product's (the section "Known
\* divergences" of the README).
InForceWasChosen ==
  edits <= 1 /\ Readable(State) =>
    \A k \in GrantsInForce(journal, authority) : journal.lines[k].d \in chosen

\* No write of the product, nor any interruption of one, leaves files that read
\* as edited, as long as nobody edited them and no grant or revocation was begun
\* over a discard that was interrupted (the section "Known divergences" of the
\* README).
OwnWritesReadBack ==
  edits = 0 /\ ~tail => State \in {"empty", "agree", "intentWithoutLine", "intentTorn", "pending"}

\* A write that stopped anywhere is told from an edit, and its line from one in force.
StopsAreTold == InForceWasChosen /\ OwnWritesReadBack

believed == Readable(State) \/ State = "pending"

Promise == INSTANCE OverrideSet WITH
  believed <- believed, inForce <- IF believed THEN Current ELSE {}

\* While the files are believed, the set in force changes by one spec at a time,
\* and only a spec that is not in force is granted.
ImplementsOverrideSet == Promise!Spec
================================================================================
