------------------------------- MODULE OpNames -------------------------------
(***************************************************************************)
(* How ws1-build names the operations of the OpenAPI documents             *)
(* (cmd/ws1-build/openapi.go) and which rows make up the operation index.  *)
(*                                                                         *)
(* A document is a set of endpoints, an index a set of rows.  A name keeps *)
(* the parts its text is joined from apart: no part contains a dot.        *)
(***************************************************************************)
EXTENDS Naturals, FiniteSets

None     == "none"        \* Go's empty string: a part the name does not have
Untagged == "untagged"
Methods  == {"GET", "POST", "PUT", "PATCH", "DELETE", "HEAD", "OPTIONS"}

lower == [GET |-> "get", POST |-> "post", PUT |-> "put", PATCH |-> "patch",
          DELETE |-> "delete", HEAD |-> "head", OPTIONS |-> "options"]

(* path: the place of the path template among the sorted ones.  param: the  *)
(* "by" suffix of its last parameter, None when it has no parameter, ""     *)
(* when that parameter has no name.  tag: the first tag, None without tags. *)
(* segment: the first fixed segment of the path.  stem: what deriveVerb     *)
(* takes of the operationId, None when that is nothing.                     *)
IsEndpoint(e) ==
  /\ DOMAIN e = {"section", "tag", "segment", "stem", "method", "path", "param"}
  /\ e.method \in Methods /\ e.path \in Nat

(* A JSON object has a key once: one endpoint for a path and a method.      *)
IsDoc(doc) ==
  /\ IsFiniteSet(doc)
  /\ \A e \in doc : IsEndpoint(e)
  /\ \A e, f \in doc : e.path = f.path /\ e.method = f.method => e = f

deriveTag(e) == CASE e.tag # None     -> e.tag
                  [] e.segment # None -> e.segment
                  [] OTHER            -> Untagged

deriveVerb(e) == IF e.stem # None THEN e.stem ELSE lower[e.method]

Base(e) == <<e.section, deriveTag(e), deriveVerb(e)>>

pathSuffixFor(e) == CASE e.param = None -> "list"
                      [] e.param = ""   -> None
                      [] OTHER          -> e.param

(* disambiguateCollisions, pass 1: the method, when the same name also      *)
(* stands for another method.                                               *)
Methodical(doc, e) ==
  [base |-> Base(e),
   method |-> IF \E f \in doc : Base(f) = Base(e) /\ f.method # e.method
              THEN lower[e.method] ELSE None]

(* Pass 3: what the path looks like, when several paths still share it.     *)
(* (Pass 2 drops rows with one name, method and path: IsDoc has none.)      *)
Suffixed(doc, e) ==
  LET name == Methodical(doc, e)
      shared == \E f \in doc : f # e /\ Methodical(doc, f) = name
  IN [base |-> name.base, method |-> name.method,
      suffix |-> IF shared THEN pathSuffixFor(e) ELSE None]

(* Pass 4: the rows of the same name that come before this one, in the      *)
(* order of their paths.                                                    *)
Earlier(doc, e) == {f \in doc : f.path < e.path /\ Suffixed(doc, f) = Suffixed(doc, e)}

(* Mutant: pass 4 tells the first row from the rest, not the rest apart.    *)
MutOpName(doc, e) ==
  [name |-> Suffixed(doc, e), alt |-> IF Earlier(doc, e) = {} THEN 0 ELSE 1]

OpName(doc, e) == [name |-> Suffixed(doc, e), alt |-> Cardinality(Earlier(doc, e))]

(* Mutant: pass 2 takes rows of one name for duplicates.                    *)
MutExtractOps(doc) ==
  {[op |-> OpName(doc, e), at |-> e] : e \in
     {f \in doc : \A g \in doc : Base(g) = Base(f) => f.path <= g.path}}

extractOps(doc) == {[op |-> OpName(doc, e), at |-> e] : e \in doc}

NamesOf(index) == {row.op : row \in index}

(* What the name is put together from: the text its patterns are looked for *)
(* in.                                                                      *)
PartsOf(op) == {op.name.base[1], op.name.base[2], op.name.base[3],
                op.name.method, op.name.suffix}
=============================================================================
