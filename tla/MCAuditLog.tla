----------------------------- MODULE MCAuditLog -----------------------------
(* Three callers on two Loggers: two of them queue on one mutex, the third  *)
(* is another process.                                                      *)
EXTENDS AuditLog, TLC

CONSTANTS c1, c2, c3, l1, l2

MCCallers == {c1, c2, c3}
MCLoggers == {l1, l2}
MCLoggerOf == (c1 :> l1) @@ (c2 :> l1) @@ (c3 :> l2)
=============================================================================
