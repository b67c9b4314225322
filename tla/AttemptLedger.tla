---------------------------- MODULE AttemptLedger ----------------------------
(***************************************************************************)
(* What the run record of one repository promises about attempts, stated   *)
(* without processes, locks, queues or entries.  At most one attempt is    *)
(* live; it ends once; nothing starts while run-admission is halted; a     *)
(* stop is asked only of the live attempt, and it is confirmed only of an  *)
(* attempt that ended cancelled.                                           *)
(***************************************************************************)
CONSTANTS Attempts, Scopes, Words

VARIABLES
  live,             \* the attempts without an end: none, or one
  ended,            \* how each finished attempt ended
  halted,           \* the scopes that stand halted
  asked,            \* attempts asked to stop
  confirmed         \* attempts confirmed to have stopped

vars == <<live, ended, halted, asked, confirmed>>

Stopping == {"run-admission", "tool-effects"}   \* halting one asks the live attempt to stop

TypeOK ==
  /\ live \in SUBSET Attempts
  /\ ended \in UNION {[S -> Words] : S \in SUBSET Attempts}
  /\ halted \in SUBSET Scopes
  /\ asked \in SUBSET Attempts
  /\ confirmed \in SUBSET Attempts

Init ==
  /\ live = {}
  /\ ended = << >>
  /\ halted = {}
  /\ asked = {}
  /\ confirmed = {}

Start(a) ==
  /\ live = {}
  /\ a \notin DOMAIN ended
  /\ "run-admission" \notin halted
  /\ live' = {a}
  /\ UNCHANGED <<ended, halted, asked, confirmed>>

End(a) ==
  /\ live = {a}
  /\ live' = {}
  /\ DOMAIN ended' = DOMAIN ended \cup {a}
  /\ ended'[a] \in Words
  /\ \A b \in DOMAIN ended : ended'[b] = ended[b]
  /\ UNCHANGED <<halted, asked, confirmed>>

Halt ==
  /\ UNCHANGED <<live, ended, confirmed>>
  /\ \E S \in SUBSET Scopes :
       /\ halted' = halted \cup S
       /\ asked' = IF S \cap Stopping # {} THEN asked \cup live ELSE asked

Resume ==
  /\ UNCHANGED <<live, ended, asked, confirmed>>
  /\ \E S \in SUBSET Scopes : halted' = halted \ S

Confirm(a) ==
  /\ a \in asked \ confirmed
  /\ a \in DOMAIN ended
  /\ ended[a] = "cancelled"
  /\ confirmed' = confirmed \cup {a}
  /\ UNCHANGED <<live, ended, halted, asked>>

Next ==
  \/ Halt \/ Resume
  \/ \E a \in Attempts : Start(a) \/ End(a) \/ Confirm(a)

Spec == Init /\ [][Next]_vars
===============================================================================
