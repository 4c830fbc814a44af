------------------------------ MODULE Decision ------------------------------
(***************************************************************************)
(* What an approval request promises its caller, with no server, no timer  *)
(* and no browser in sight: the user says something at most once, the      *)
(* caller is given a verdict at most once, and a verdict that approves or  *)
(* denies is what the user had said by the time it was given.              *)
(***************************************************************************)

CONSTANTS Said,     \* what a user can say: approved, denied
          GivenUp,  \* verdicts nobody said: timeout, aborted
          Nothing   \* neither said nor given yet

VARIABLES said, verdict

vars == <<said, verdict>>

Init ==
  /\ said = Nothing
  /\ verdict = Nothing

(* The user decides.  Only the first decision counts. *)
Say(o) ==
  /\ said = Nothing
  /\ said' = o
  /\ UNCHANGED verdict

(* The caller learns the outcome, or stops waiting for one. *)
Settle(v) ==
  /\ verdict = Nothing
  /\ v \in Said => v = said
  /\ verdict' = v
  /\ UNCHANGED said

Next ==
  \/ \E o \in Said : Say(o)
  \/ \E v \in Said \cup GivenUp : Settle(v)

Spec == Init /\ [][Next]_vars
=============================================================================
