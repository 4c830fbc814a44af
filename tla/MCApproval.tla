----------------------------- MODULE MCApproval -----------------------------
(* Approval on two tabs of two requests each: enough for a click that loses *)
(* to another, a reload after a decision, and a click in flight at the      *)
(* moment the listener closes.                                              *)
EXTENDS Approval, TLC

CONSTANTS t1, t2

MCTabs == {t1, t2}
=============================================================================
