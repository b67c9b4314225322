------------------------------- MODULE RunRecord -------------------------------
(***************************************************************************)
(* The run record of one repository: an append-only, hash-linked file that *)
(* several processes of the product take turns to write, one at a time,    *)
(* under the repository lock.                                              *)
(*                                                                         *)
(* A record is abstracted to its identity and the identity it links to.    *)
(* The file is its complete lines and one bit: whether bytes without a     *)
(* line break follow them.  A write can stop part way, the process can be  *)
(* killed between any two calls, and power can go, which keeps a prefix of *)
(* whatever was not yet synced.                                            *)
(***************************************************************************)
EXTENDS Naturals, Sequences

CONSTANTS
  Proc,             \* processes that write the record
  NoProc,           \* the holder of a free lock
  MaxRecords,       \* bound: records ever linked, lost ones included
  CarryOn           \* whether a caller may append again after an append failed

ASSUME RunRecordAssumption ==
  /\ NoProc \notin Proc
  /\ MaxRecords \in Nat
  /\ CarryOn \in BOOLEAN

VARIABLES
  holder,           \* who holds the flock
  lines,            \* complete lines of the file
  torn,             \* whether an incomplete last line follows them
  synced,           \* how many lines are known to be on the device
  dirty,            \* whether the file changed since the last sync
  linked,           \* identities handed out so far
  acked,            \* history: identities whose append returned Ok
  step,             \* where each process is
  head,             \* each process's in-memory head of the chain
  memory,           \* each process's in-memory records
  tornSeen,         \* whether a process still has a torn tail to cut
  pending           \* the record a process is appending

file  == <<lines, torn, synced, dirty>>
local == <<step, head, memory, tornSeen, pending>>
vars  == <<holder, file, linked, acked, local>>

Anchor  == 0                                  \* what the first record links to
Record  == [id : Nat, prev : Nat]
Garbage == [id |-> 0, prev |-> 0]             \* a line that does not parse

Steps == {"idle", "locked", "open", "cut", "write", "sync"}

IdBefore(s, i) == IF i = 1 THEN Anchor ELSE s[i - 1].id

\* Every line parses and links to the one before it.
Linked(s) == \A i \in DOMAIN s : s[i] # Garbage /\ s[i].prev = IdBefore(s, i)

HeadOf(s) == IF s = << >> THEN Anchor ELSE s[Len(s)].id

------------------------------------------------------------------------------

Init ==
  /\ holder = NoProc
  /\ lines = << >>
  /\ torn = FALSE
  /\ synced = 0
  /\ dirty = FALSE
  /\ linked = 0
  /\ acked = {}
  /\ step = [p \in Proc |-> "idle"]
  /\ head = [p \in Proc |-> Anchor]
  /\ memory = [p \in Proc |-> << >>]
  /\ tornSeen = [p \in Proc |-> FALSE]
  /\ pending = [p \in Proc |-> Garbage]

\* Mutant of TryAcquire: a shared lock, which a second holder is granted.
TryAcquireShared(p) ==
  /\ step[p] = "idle"
  /\ holder' = p
  /\ step' = [step EXCEPT ![p] = "locked"]
  /\ UNCHANGED <<file, linked, acked, head, memory, tornSeen, pending>>

\* Taking the lock never waits: a busy lock leaves the caller where it was.
TryAcquire(p) ==
  /\ step[p] = "idle"
  /\ holder = NoProc
  /\ holder' = p
  /\ step' = [step EXCEPT ![p] = "locked"]
  /\ UNCHANGED <<file, linked, acked, head, memory, tornSeen, pending>>

\* The chain is dropped and the lock with it; so it is when the process dies.
Forget(p) ==
  /\ holder' = NoProc
  /\ step' = [step EXCEPT ![p] = "idle"]
  /\ head' = [head EXCEPT ![p] = Anchor]
  /\ memory' = [memory EXCEPT ![p] = << >>]
  /\ tornSeen' = [tornSeen EXCEPT ![p] = FALSE]
  /\ pending' = [pending EXCEPT ![p] = Garbage]

\* A record that does not parse or does not link is refused and nothing is
\* written; otherwise the head is rebuilt from the complete lines.
OpenChain(p) ==
  /\ step[p] = "locked"
  /\ \/ /\ Linked(lines)
        /\ step' = [step EXCEPT ![p] = "open"]
        /\ head' = [head EXCEPT ![p] = HeadOf(lines)]
        /\ memory' = [memory EXCEPT ![p] = lines]
        /\ tornSeen' = [tornSeen EXCEPT ![p] = torn]
        /\ UNCHANGED <<holder, pending>>
     \/ /\ ~ Linked(lines)
        /\ Forget(p)
  /\ UNCHANGED <<file, linked, acked>>

\* Mutant of BeginAppend: the torn tail is reported and never cut.
BeginAppendOverTail(p) ==
  /\ step[p] = "open"
  /\ linked < MaxRecords
  /\ linked' = linked + 1
  /\ pending' = [pending EXCEPT ![p] = [id |-> linked + 1, prev |-> head[p]]]
  /\ head' = [head EXCEPT ![p] = linked + 1]
  /\ step' = [step EXCEPT ![p] = "write"]
  /\ UNCHANGED <<holder, file, acked, memory, tornSeen>>

\* The record is linked, and the in-memory head moved, before any byte is
\* written.
BeginAppend(p) ==
  /\ step[p] = "open"
  /\ linked < MaxRecords
  /\ linked' = linked + 1
  /\ pending' = [pending EXCEPT ![p] = [id |-> linked + 1, prev |-> head[p]]]
  /\ head' = [head EXCEPT ![p] = linked + 1]
  /\ step' = [step EXCEPT ![p] = IF tornSeen[p] THEN "cut" ELSE "write"]
  /\ UNCHANGED <<holder, file, acked, memory, tornSeen>>

\* The append returned an error.  Most callers stop here; some append again on
\* the same open chain.
AppendFailed(p) ==
  \/ Forget(p)
  \/ /\ CarryOn
     /\ step' = [step EXCEPT ![p] = "open"]
     /\ tornSeen' = [tornSeen EXCEPT ![p] = FALSE]
     /\ UNCHANGED <<holder, head, memory, pending>>

\* The torn tail found at open is cut, and the cut synced, before the write.
\* The chain forgets the tail before it tries, so a failed cut is not retried.
CutTail(p) ==
  /\ step[p] = "cut"
  /\ \/ /\ torn' = FALSE
        /\ synced' = Len(lines)
        /\ dirty' = FALSE
        /\ step' = [step EXCEPT ![p] = "write"]
        /\ tornSeen' = [tornSeen EXCEPT ![p] = FALSE]
        /\ UNCHANGED <<holder, head, memory, pending>>
     \/ /\ torn' \in {torn, FALSE}            \* the cut or its sync failed
        /\ dirty' = (dirty \/ torn' # torn)
        /\ UNCHANGED synced
        /\ AppendFailed(p)
  /\ UNCHANGED <<lines, linked, acked>>

\* Mutant of WriteLine: the file is opened truncated instead of appended to.
WriteLineTruncating(p) ==
  /\ step[p] = "write"
  /\ dirty' = TRUE
  /\ lines' = <<pending[p]>>
  /\ torn' = FALSE
  /\ step' = [step EXCEPT ![p] = "sync"]
  /\ UNCHANGED <<holder, head, memory, tornSeen, pending, synced, linked, acked>>

\* Bytes written after an incomplete line join it: the line they complete does
\* not parse.
WriteLine(p) ==
  /\ step[p] = "write"
  /\ dirty' = TRUE
  /\ \/ /\ lines' = Append(lines, IF torn THEN Garbage ELSE pending[p])
        /\ torn' = FALSE
        /\ step' = [step EXCEPT ![p] = "sync"]
        /\ UNCHANGED <<holder, head, memory, tornSeen, pending>>
     \/ /\ torn' \in {torn, TRUE}             \* nothing written, or a part
        /\ UNCHANGED lines
        /\ AppendFailed(p)
  /\ UNCHANGED <<synced, linked, acked>>

\* Mutant of SyncRecord: the record is acknowledged without the sync.
SyncRecordUnsynced(p) ==
  /\ step[p] = "sync"
  /\ acked' = acked \cup {pending[p].id}
  /\ memory' = [memory EXCEPT ![p] = Append(@, pending[p])]
  /\ step' = [step EXCEPT ![p] = "open"]
  /\ UNCHANGED <<holder, head, tornSeen, pending, lines, torn, synced, dirty, linked>>

\* Only a synced record joins the in-memory records and is acknowledged.
SyncRecord(p) ==
  /\ step[p] = "sync"
  /\ \/ /\ synced' = Len(lines)
        /\ dirty' = FALSE
        /\ acked' = acked \cup {pending[p].id}
        /\ memory' = [memory EXCEPT ![p] = Append(@, pending[p])]
        /\ step' = [step EXCEPT ![p] = "open"]
        /\ UNCHANGED <<holder, head, tornSeen, pending>>
     \/ /\ AppendFailed(p)                    \* the line stays, unacknowledged
        /\ UNCHANGED <<synced, dirty, acked>>
  /\ UNCHANGED <<lines, torn, linked>>

CloseChain(p) ==
  /\ step[p] \in {"locked", "open"}
  /\ Forget(p)
  /\ UNCHANGED <<file, linked, acked>>

\* A killed process loses its lock to the operating system and leaves what it
\* wrote, part of the line in hand included.
Kill(p) ==
  /\ step[p] # "idle"
  /\ Forget(p)
  /\ \/ step[p] = "write" /\ torn' = TRUE /\ dirty' = TRUE
     \/ UNCHANGED <<torn, dirty>>
  /\ UNCHANGED <<lines, synced, linked, acked>>

\* Every process dies, and of what was not synced a prefix is left.
PowerLoss ==
  /\ \E n \in synced .. Len(lines) :
       /\ lines' = SubSeq(lines, 1, n)
       /\ torn' \in IF dirty THEN BOOLEAN ELSE {torn}
       /\ synced' = n
  /\ dirty' = FALSE
  /\ holder' = NoProc
  /\ step' = [p \in Proc |-> "idle"]
  /\ head' = [p \in Proc |-> Anchor]
  /\ memory' = [p \in Proc |-> << >>]
  /\ tornSeen' = [p \in Proc |-> FALSE]
  /\ pending' = [p \in Proc |-> Garbage]
  /\ UNCHANGED <<linked, acked>>

Next ==
  \/ PowerLoss
  \/ \E p \in Proc :
       \/ TryAcquire(p)
       \/ OpenChain(p)
       \/ BeginAppend(p)
       \/ CutTail(p)
       \/ WriteLine(p)
       \/ SyncRecord(p)
       \/ CloseChain(p)
       \/ Kill(p)

Spec == Init /\ [][Next]_vars

------------------------------------------------------------------------------

\* Every variable keeps its type.
TypeOK ==
  /\ holder \in Proc \cup {NoProc}
  /\ lines \in Seq(Record)
  /\ torn \in BOOLEAN
  /\ synced \in 0 .. Len(lines)
  /\ dirty \in BOOLEAN
  /\ linked \in Nat
  /\ acked \subseteq Nat
  /\ step \in [Proc -> Steps]
  /\ head \in [Proc -> Nat]
  /\ memory \in [Proc -> Seq(Record)]
  /\ tornSeen \in [Proc -> BOOLEAN]
  /\ pending \in [Proc -> Record]

\* Whatever was lost, cut or killed, the next open reads the record and its
\* links verify: recovery never refuses the history (record.rs, Chain::open).
ChainOpens == Linked(lines)

\* A record whose append returned Ok is on the device, below the synced mark,
\* so no kill and no power loss removes it: fsync before acknowledge.
AcknowledgedIsDurable ==
  \A a \in acked : \E i \in 1 .. synced : lines[i].id = a

\* A process that folds its in-memory records decides on exactly what the file
\* holds: no other process has written behind its back, and none of its own
\* appends is on the file and missing from memory.
FoldReadsTheFile == \A p \in Proc : step[p] = "open" => memory[p] = lines

\* Why the links survive, provided every caller stops at its first failed
\* append: a process past "idle" is the one holder, what it has in memory is
\* the file, and the record it is about to write links to the file's last line.
WriterAgrees ==
  \A p \in Proc :
    /\ step[p] # "idle" => holder = p
    /\ step[p] = "open" =>
         memory[p] = lines /\ head[p] = HeadOf(lines) /\ tornSeen[p] = torn
    /\ step[p] \in {"cut", "write"} =>
         /\ memory[p] = lines
         /\ pending[p] # Garbage
         /\ pending[p].prev = HeadOf(lines)
         /\ pending[p].id = head[p]
    /\ step[p] = "sync" =>
         lines = Append(memory[p], pending[p]) /\ pending[p].id = head[p]
    /\ step[p] \in {"write", "sync"} => ~ torn /\ ~ tornSeen[p]

ChainInv == Linked(lines) /\ WriterAgrees

\* An earlier record is never rewritten: a step keeps every synced line.
NeverRewritten ==
  [][/\ synced <= Len(lines')
     /\ \A i \in 1 .. synced : lines'[i] = lines[i]]_vars

\* The file implements the durable log: its lines are the log, and what is
\* acknowledged is what the last sync covered.
DL == INSTANCE DurableLog WITH
        Entries <- Record, log <- lines, acknowledged <- synced
ImplementsDurableLog == DL!Spec
===============================================================================
