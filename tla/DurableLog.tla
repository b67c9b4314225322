------------------------------ MODULE DurableLog ------------------------------
(***************************************************************************)
(* What the run record promises, stated without files, processes or locks: *)
(* one log, extended at its end, of which a growing prefix is              *)
(* acknowledged.  An entry past the acknowledged prefix belongs to an      *)
(* append whose caller never got an answer; it may vanish or stay.  An     *)
(* acknowledged entry never changes and never goes away.                   *)
(***************************************************************************)
EXTENDS Naturals, Sequences

CONSTANT Entries    \* what one record can hold

VARIABLES
  log,              \* the complete records
  acknowledged      \* how many of them a caller may rely on

vars == <<log, acknowledged>>

TypeOK ==
  /\ log \in Seq(Entries)
  /\ acknowledged \in 0 .. Len(log)

Init ==
  /\ log = << >>
  /\ acknowledged = 0

\* One more record, not yet acknowledged.
Extend ==
  /\ Len(log') = Len(log) + 1
  /\ log'[Len(log')] \in Entries
  /\ SubSeq(log', 1, Len(log)) = log
  /\ UNCHANGED acknowledged

\* The caller learns that everything present is durable.
Acknowledge ==
  /\ acknowledged' = Len(log)
  /\ UNCHANGED log

\* A crash drops some of what nobody was promised; what is left is durable.
LoseUnacknowledged ==
  /\ \E n \in acknowledged .. Len(log) : log' = SubSeq(log, 1, n)
  /\ acknowledged' = Len(log')

Next == Extend \/ Acknowledge \/ LoseUnacknowledged

Spec == Init /\ [][Next]_vars
===============================================================================
