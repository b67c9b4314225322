---------------------------- MODULE ControllerLease ----------------------------
(***************************************************************************)
(* What typed operations promise a controller.  Each run has at most one   *)
(* holder, a lease passes on only after it was given up, a key is decided  *)
(* once and only while somebody holds the run, and what was decided moves  *)
(* forward only: accepted, completed, stopped.                             *)
(***************************************************************************)
CONSTANTS Runs, Controllers, Nobody, Keys

VARIABLES
  holder,           \* who holds each run
  verdict           \* what each run decided under each key

vars == <<holder, verdict>>

Verdicts == {"undecided", "refused", "accepted", "completed", "stopped"}

Init ==
  /\ holder = [r \in Runs |-> Nobody]
  /\ verdict = [r \in Runs |-> [k \in Keys |-> "undecided"]]

Take(r, c) ==
  /\ holder[r] = Nobody
  /\ holder' = [holder EXCEPT ![r] = c]
  /\ UNCHANGED verdict

Lose(r) ==
  /\ holder[r] # Nobody
  /\ holder' = [holder EXCEPT ![r] = Nobody]
  /\ UNCHANGED verdict

\* A new key is decided under the run's lease.
Decide(r, k) ==
  /\ holder[r] # Nobody
  /\ verdict[r][k] = "undecided"
  /\ \E v \in {"accepted", "refused"} : verdict' = [verdict EXCEPT ![r][k] = v]
  /\ UNCHANGED holder

\* What was accepted comes to something, lease or no lease.
Complete(r, k) ==
  /\ verdict[r][k] = "accepted"
  /\ verdict' = [verdict EXCEPT ![r][k] = "completed"]
  /\ UNCHANGED holder

Confirm(r, k) ==
  /\ verdict[r][k] = "completed"
  /\ verdict' = [verdict EXCEPT ![r][k] = "stopped"]
  /\ UNCHANGED holder

Next ==
  \E r \in Runs :
    \/ \E c \in Controllers : Take(r, c)
    \/ Lose(r)
    \/ \E k \in Keys : Decide(r, k) \/ Complete(r, k) \/ Confirm(r, k)

Spec == Init /\ [][Next]_vars
===============================================================================
