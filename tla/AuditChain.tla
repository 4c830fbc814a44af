----------------------------- MODULE AuditChain -----------------------------
(***************************************************************************)
(* The rows of ~/.config/ws1/audit.log and the hash chain through them     *)
(* (internal/audit): what Append computes from the last row, and what      *)
(* Verify reports of a file.                                               *)
(*                                                                         *)
(* SHA-256 is taken to be injective: the hash of a row is the row itself   *)
(* with the field that hashEntry blanks left out.  What a row says of its  *)
(* operation (time, caller, arguments, result ...) is one value, "what".   *)
(***************************************************************************)
EXTENDS Naturals, Sequences

Genesis == [seq |-> 0]      \* prev_hash of a first row
Torn    == [torn |-> TRUE]  \* a line that does not parse

(* Mutant: what the row says is left out of the hash as well. *)
MutHashOf(row) == [seq |-> row.seq]

(* hashEntry: every field but prev_hash. *)
HashOf(row) == [seq |-> row.seq, what |-> row.what]

Row(seq, what, prev) == [seq |-> seq, what |-> what, prev |-> prev]

(* The rows that sequence numbers of S and contents of W can make. *)
RowsOver(S, W) ==
  LET hashes == [seq : S, what : W] \cup {Genesis}
  IN [seq : S, what : W, prev : hashes]

(* Mutant: the hash of a row is left out of the row that follows it. *)
MutNextRow(tip, what) ==
  Row(IF tip = Genesis THEN 1 ELSE tip.seq + 1, what, Genesis)

(* Append: the row that follows tip.  Genesis stands for an empty file. *)
NextRow(tip, what) ==
  IF tip = Genesis THEN Row(1, what, Genesis)
                   ELSE Row(tip.seq + 1, what, HashOf(tip))

Parses(log) == \A i \in DOMAIN log : log[i] # Torn

(* tailOne: the last row of a file that parses to its end. *)
Tip(log) == IF log = <<>> THEN Genesis ELSE log[Len(log)]

(* Verify: the first row's number, and every later row against the row just *)
(* before it.  The first row's prev_hash is not looked at.                  *)
Linked(log, i) ==
  IF i = 1 THEN log[1].seq = 1
  ELSE /\ log[i].prev = HashOf(log[i-1])
       /\ log[i].seq = log[i-1].seq + 1

Failures(log) == {i \in DOMAIN log : ~Linked(log, i)}

(* Verify ends without an error and reports ok. *)
VerifyOK(log) == Parses(log) /\ Failures(log) = {}
=============================================================================
