------------------------------- MODULE Policy -------------------------------
(***************************************************************************)
(* What operations.policy.yaml says of an operation and what follows from  *)
(* it (internal/policy, cmd/ws1/escalate.go, Profile.Can): which document  *)
(* is in force, the entry of an operation, whether a call needs approval,  *)
(* and which profile may make it.                                          *)
(***************************************************************************)
EXTENDS Naturals

CONSTANT Embedded  \* the document compiled into the binary

(* Go's empty string: a field the document leaves out, no profile. *)
Absent == "absent"

Classes     == {"read", "write", "destructive"}
Approvals   == {Absent, "always_required", "required_if_count_over_threshold"}
NoThreshold == {}  \* a nil pointer; {n} is one to n
Profiles    == {"ro", "operator", "admin"}

Entry(class, approval, threshold) ==
  [class |-> class, approval |-> approval, threshold |-> threshold]
Blank == Entry(Absent, Absent, NoThreshold)

(* A file that can be read holds a document, or something YAML rejects. *)
Missing   == [kind |-> "missing"]
Malformed == [kind |-> "malformed"]
Document(default, entries) ==
  [kind |-> "document", default |-> default, entries |-> entries]

Entries == [class : Classes \cup {Absent}, approval : Approvals, threshold : SUBSET Nat]

IsDocument(doc) ==
  /\ doc.kind = "document"
  /\ doc.default \in Entries
  /\ \A op \in DOMAIN doc.entries : doc.entries[op] \in Entries

builtinDefault == Entry("destructive", "always_required", NoThreshold)

(* parse: __default__ overrides the built-in default field by field, its    *)
(* threshold excepted.                                                      *)
DefaultOf(doc) ==
  LET or(given, builtin) == IF given = Absent THEN builtin ELSE given
  IN Entry(or(doc.default.class, builtinDefault.class),
           or(doc.default.approval, builtinDefault.approval), NoThreshold)

(* Load: a file that cannot be read stands for the embedded document. *)
Load(file) == IF file = Missing THEN Embedded ELSE file

(* loadActivePolicy: WS1_POLICY_FILE when set, then the working directory;  *)
(* a candidate that does not parse is passed over.                          *)
loadActivePolicy(candidates) ==
  LET good == {n \in DOMAIN candidates : Load(candidates[n]) # Malformed}
  IN IF good = {} THEN Embedded
     ELSE Load(candidates[CHOOSE n \in good : \A m \in good : n <= m])

(* Classify: an operation without an entry gets the default. *)
Classify(doc, op) ==
  IF op \in DOMAIN doc.entries THEN doc.entries[op] ELSE DefaultOf(doc)

(* Mutant: what is sent through a dispatcher is not looked at. *)
MutEscalate(dispatcher, dangerous, e) == e

(* escalateForDangerousCommand: a dispatcher path with a command name on    *)
(* the dangerous list.                                                      *)
Escalate(dispatcher, dangerous, e) ==
  IF dispatcher /\ dangerous
  THEN Entry("destructive", "always_required", e.threshold)
  ELSE e

IsDestructive(e) == e.class = "destructive" \/ e.approval = "always_required"

(* Mutant: the threshold itself counts as too many. *)
MutRequiresApproval(e, n) ==
  IsDestructive(e) \/ \E t \in e.threshold : n >= t

(* RequiresApproval: the test of the approval mode in front of the          *)
(* threshold changes nothing, and a threshold alone is enough.              *)
RequiresApproval(e, n) ==
  \/ IsDestructive(e)
  \/ \E t \in e.threshold : n > t

Capability(profile) ==
  CASE profile = "ro" -> {"read"}
    [] profile \in {"operator", "admin"} -> Classes
    [] OTHER -> {}

(* Mutant: every configured profile may do everything. *)
MutCan(profile, class) == class \in Classes

Can(profile, class) == class \in Capability(profile)
=============================================================================
