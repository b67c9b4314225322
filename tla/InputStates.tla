------------------------------ MODULE InputStates ------------------------------
(***************************************************************************)
(* What operator input promises whoever reads it: an input only moves from *)
(* pending to delivered to acknowledged, or from pending or delivered to   *)
(* expired, and inputs are numbered in the order they were recorded.       *)
(***************************************************************************)
EXTENDS Naturals

CONSTANT MaxInputs

VARIABLE state            \* where each input stands

Inputs == 1 .. MaxInputs

Init == state = [id \in Inputs |-> "none"]

Moves == {<<"none", "pending">>, <<"pending", "delivered">>, <<"delivered", "acknowledged">>,
          <<"pending", "expired">>, <<"delivered", "expired">>}

\* One input moves, and is recorded after those numbered before it.
Move(id) ==
  /\ \E s \in {"pending", "delivered", "acknowledged", "expired"} :
       state' = [state EXCEPT ![id] = s]
  /\ <<state[id], state'[id]>> \in Moves
  /\ \A j \in 1 .. id - 1 : state[j] # "none"

Next == state' # state /\ \E id \in Inputs : Move(id)

Spec == Init /\ [][Next]_state
===============================================================================
