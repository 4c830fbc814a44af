----------------------------- MODULE PolicyFile -----------------------------
(***************************************************************************)
(* operations.policy.yaml as text that ws1-build bulk-classify rewrites    *)
(* and the loaders parse: a set of blocks, one for each top-level key of   *)
(* an operation.  The header, the default block and comments say nothing   *)
(* that Policy's built-in default does not.                                *)
(***************************************************************************)
EXTENDS OpNames, Policy

CONSTANTS DestructiveParts,  \* parts of names with one of destructiveNamePatterns
          BulkParts          \* parts of names with one of bulkInNamePattern

(* How the key of a block is written: as formatPolicyEntry writes it; with  *)
(* something behind the colon on its line; in quotes; with spaces before    *)
(* the colon; and, where the text of the file ends, without its colon.      *)
Styles == {"plain", "inline", "quoted", "spaced"}
Keys   == Styles \cup {"cut"}

Block(op, entry, key) == [op |-> op, entry |-> entry, key |-> key]

(* An entry that ends in mid-line, and that YAML does not take for one.     *)
Unreadable == Entry("unreadable", Absent, NoThreshold)

NamesIn(file) == {b.op : b \in file}

BulkThreshold == 50

Destructive == Entry("destructive", "always_required", NoThreshold)

ByMethod(op, method) ==
  CASE method \in {"GET", "HEAD", "OPTIONS"} -> Entry("read", Absent, NoThreshold)
    [] method \in {"POST", "PUT", "PATCH"} ->
         IF PartsOf(op) \cap BulkParts # {}
         THEN Entry("write", "required_if_count_over_threshold", {BulkThreshold})
         ELSE Entry("write", Absent, NoThreshold)
    [] OTHER -> Destructive

(* Mutant: the method is looked at first. *)
MutClassify(op, method) ==
  IF method = "POST" THEN ByMethod(op, method)
  ELSE IF PartsOf(op) \cap DestructiveParts # {} THEN Destructive ELSE ByMethod(op, method)

(* classify: a destructive name wins over the method. *)
classify(op, method) ==
  IF PartsOf(op) \cap DestructiveParts # {} THEN Destructive ELSE ByMethod(op, method)

Heuristic(row) == Block(row.op, classify(row.op, row.at.method), "plain")

buildPolicyYAML(index) == {Heuristic(row) : row \in index}

(* Mutant: the scan misses every key, as with line ends of another system.  *)
MutExistingOps(file) == {}

(* The text before the colon, for each of the two scans: only the second    *)
(* trims it, and neither takes the quotes off.                              *)
KeyText(op, key) == [op |-> op, as |-> IF key \in {"quoted", "spaced"} THEN key ELSE "plain"]
Trimmed(op, key) == [op |-> op, as |-> IF key = "quoted" THEN key ELSE "plain"]

(* The line scan of mergePolicy: the line of a key ends in its colon.       *)
existingOps(file) == {KeyText(b.op, b.key) : b \in {c \in file : c.key \notin {"inline", "cut"}}}

Orphans(file, index) == existingOps(file) \ {KeyText(op, "plain") : op \in NamesOf(index)}

(* removeEntriesByOp: the scan for what was found to be an orphan.          *)
removeEntriesByOp(file, keys) == {b \in file : b.key = "cut" \/ Trimmed(b.op, b.key) \notin keys}

(* Mutant: an entry that differs from the heuristic is brought up to date.  *)
MutMergePolicy(file, index, prune) ==
  {b \in file : b.op \notin NamesOf(index)} \cup {Heuristic(row) : row \in index}

mergePolicy(file, index, prune) ==
  LET added == {Heuristic(row) : row \in {r \in index : KeyText(r.op, "plain") \notin existingOps(file)}}
      merged == file \cup added
  IN IF prune THEN removeEntriesByOp(merged, Orphans(file, index)) ELSE merged

(* What YAML makes of the text: a key is the same however it is written,    *)
(* and one that comes twice is an error, as is a file that ends in mid-line.*)
Parsed(file) ==
  IF \/ \E a, b \in file : a # b /\ a.op = b.op
     \/ \E b \in file : b.entry = Unreadable
  THEN Malformed
  ELSE Document(builtinDefault,
         [op \in NamesIn(file) |-> (CHOOSE b \in file : b.op = op).entry])

(* What the beginning of an entry says, up to the end of a line or to where *)
(* the rest of the line still makes sense: the fields come in the order of  *)
(* formatPolicyEntry, a word cut short is one that nobody knows, and of a   *)
(* number the first digit remains.                                          *)
CutEntries(e) ==
  IF e = Unreadable THEN {e}
  ELSE {Blank, Entry(e.class, Absent, NoThreshold)} \cup
       {Entry(e.class, e.approval, t) : t \in {NoThreshold, {n \div 10 : n \in e.threshold}, e.threshold}}

(* What is left of a block when the file ends in it.                        *)
Stumps(b) ==
  {Block(b.op, Unreadable, b.key), Block(b.op, Unreadable, "cut")} \cup
  {Block(b.op, e, b.key) : e \in CutEntries(b.entry)} \cup
  (IF b.key = "inline" THEN {Block(b.op, Blank, "plain")} ELSE {})

(* What is left of the header, version and default block when it ends in    *)
(* mid-line there; when it still makes sense it is no less strict.          *)
HeadStump ==
  Block([name |-> [base |-> <<None, None, None>>, method |-> None, suffix |-> None], alt |-> 0],
        Unreadable, "cut")

(* The block that a merge wrote for a key its scan had missed is the later  *)
(* of the two.                                                              *)
Before(file, b) == {c \in file : c # b /\ ~(c.op = b.op /\ c.key = "plain")}

(* What a write that is cut short leaves of the text: some blocks, at most  *)
(* n of them, and perhaps the beginning of one more.  In which order blocks *)
(* come is not modelled.                                                    *)
CutFiles(file, n) ==
  LET few(blocks) == {kept \in SUBSET blocks : Cardinality(kept) <= n}
  IN few(file) \cup UNION {{kept \cup {stump} : kept \in few(Before(file, b)), stump \in Stumps(b)}
                             : b \in file}

(* The rows of writeOperationIndex. *)
SkillRows(index, doc) ==
  {[op |-> row.op,
    class |-> IF row.op \in DOMAIN doc.entries THEN doc.entries[row.op].class ELSE Absent]
     : row \in index}
=============================================================================
