--------------------------- MODULE MCStateChange ---------------------------
(* One invocation of every kind of command under every kind of policy, or   *)
(* two invocations on one resource (the definitions that begin with Pair).  *)
(* The embedded policy knows three operations; Strict lowers a threshold to *)
(* 0, Lax makes the default a write.                                        *)
EXTENDS StateChange, TLC

CONSTANTS i1, i2, r1

MCInvocations == {i1}
PairInvocations == {i1, i2}
MCResources   == {r1}

MCEmbedded == Document(Entry("destructive", "always_required", NoThreshold),
  [search |-> Entry("read", Absent, NoThreshold),
   lock   |-> Entry("write", "required_if_count_over_threshold", {1}),
   delete |-> Entry("destructive", "always_required", NoThreshold)])

Strict == Document(Entry(Absent, Absent, NoThreshold), [lock |-> Entry("write", Absent, {0})])

Lax == Document(Entry("write", Absent, NoThreshold),
  [search |-> Entry("read", "always_required", NoThreshold),
   delete |-> Entry("write", "always_required", NoThreshold)])

MCPolicyFiles == {<<Missing>>, <<Malformed, Strict>>, <<Lax, Malformed>>,
                  <<Malformed, Malformed>>}

Command(op) == [op |-> op, resource |-> r1, override |-> Absent, dryRun |-> FALSE,
                dispatcher |-> FALSE, dangerous |-> FALSE, snapshot |-> TRUE,
                mutates |-> TRUE]

MCCommands == {
  [Command("search") EXCEPT !.mutates = FALSE, !.snapshot = FALSE],
  [Command("lock") EXCEPT !.override = "operator"],
  [Command("lock") EXCEPT !.dispatcher = TRUE, !.dangerous = TRUE, !.snapshot = FALSE],
  Command("delete"),
  [Command("delete") EXCEPT !.dryRun = TRUE],
  Command("unlisted"),
  [Command("unlisted") EXCEPT !.override = "admin", !.snapshot = FALSE]}

(* One that asks and one that does not. *)
PairCommands == {
  [Command("delete") EXCEPT !.override = "operator"],
  [Command("lock") EXCEPT !.override = "operator", !.snapshot = FALSE]}
PairPolicyFiles == {<<Missing>>}
=============================================================================
