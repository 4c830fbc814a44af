------------------------------ MODULE SerialLog ------------------------------
(***************************************************************************)
(* What Logger.Append promises its callers, with no mutex and no file      *)
(* handle in sight: each call adds one row behind the last one, in a       *)
(* single step, and returns that row, or it adds nothing and fails.        *)
(***************************************************************************)
EXTENDS AuditChain

CONSTANTS Callers, Whats,
          Pending,   \* the call has not returned
          Failed     \* the call returned an error

VARIABLES log, result

vars == <<log, result>>

Init ==
  /\ log = <<>>
  /\ result = [c \in Callers |-> Pending]

(* A caller calls again. *)
Call(c) ==
  /\ result' = [result EXCEPT ![c] = Pending]
  /\ UNCHANGED log

(* The whole of a call that succeeds. *)
Add(c, what) ==
  LET row == NextRow(Tip(log), what)
  IN /\ result[c] = Pending
     /\ log' = Append(log, row)
     /\ result' = [result EXCEPT ![c] = row]

(* The whole of one that does not. *)
Fail(c) ==
  /\ result[c] = Pending
  /\ result' = [result EXCEPT ![c] = Failed]
  /\ UNCHANGED log

Next ==
  \E c \in Callers :
    \/ Call(c) \/ Fail(c)
    \/ \E what \in Whats : Add(c, what)

Spec == Init /\ [][Next]_vars
=============================================================================
