------------------------------- MODULE Listing -------------------------------
(***************************************************************************)
(* An agent walks through a search page by page, one `ws1` command each:   *)
(* executeRead and its pagination fields (cmd/ws1/sections.go), the exit   *)
(* code that follows from the envelope (internal/envelope), and the search *)
(* of the tenant as test/mockws1 has it: pages count from 0.  The agent    *)
(* does as skills/ws1-uem/concepts/02-api-surface.md:77 says, and asks     *)
(* again for a page whose command ended with the exit code for that.       *)
(***************************************************************************)
EXTENDS Naturals, Sequences, FiniteSets

CONSTANTS
  Items,       \* what a search can match
  Starts,      \* what it may match when the walk begins, in the tenant's order
  Sizes,       \* page sizes an agent asks for
  Shapes,      \* which of Keys an answer may have
  NoMeta,      \* an envelope without pagination fields
  MaxPage, MaxChanges, MaxFaults  \* bounds of the model

Keys == {"Total", "Page", "PageSize"}

Distinct(s) == \A i, j \in 1..Len(s) : s[i] = s[j] => i = j

Members(s) == {s[i] : i \in 1..Len(s)}

Meta == [count : Nat, page : Nat, page_size : Nat, has_more : BOOLEAN]

ASSUME ListingAssumption ==
  /\ Starts \subseteq Seq(Items) /\ \A s \in Starts : Distinct(s)
  /\ Sizes \subseteq Nat \ {0}
  /\ Shapes \subseteq SUBSET Keys
  /\ NoMeta \notin Meta
  /\ MaxPage \in Nat /\ MaxChanges \in Nat /\ MaxFaults \in Nat

VARIABLES
  items,       \* what the search matches now
  shape, size, \* the keys of this search's answers, and the page size
  page,        \* the page asked for
  envelope,    \* exit code and pagination fields of the last command
  pc,          \* "ask", "told", "done" or "gave up"
  shown,       \* history: the items of all pages, in the order they came
  original,    \* history: what the search matched when the walk began
  shifts,      \* history: {"added", "removed"}, what happened since then
  changes, faults  \* counters of the bounds

tenant == <<items, shape, size, original>>
vars == <<tenant, page, envelope, pc, shown, shifts, changes, faults>>

Init ==
  /\ items \in Starts /\ original = items
  /\ shape \in Shapes /\ size \in Sizes
  /\ page = 0 /\ pc = "ask" /\ shown = <<>>
  /\ envelope = [exit |-> 0, meta |-> NoMeta]
  /\ shifts = {} /\ changes = 0 /\ faults = 0
-----------------------------------------------------------------------------
(* The exit codes of envelope/exit.go. *)
Recoverable == {"RATE_LIMITED", "APPROVAL_TIMEOUT", "APPROVAL_DENIED",
                "STALE_RESOURCE", "NETWORK_ERROR", "ASYNC_JOB_PENDING"}
ConfigAuth  == {"AUTH_INSUFFICIENT_FOR_OP", "TENANT_REQUIRED",
                "APPROVAL_REQUIRED", "SPEC_VERSION_MISMATCH"}
Validation  == {"IDENTIFIER_AMBIGUOUS", "IDENTIFIER_NOT_FOUND", "UNKNOWN_OPERATION"}

ExitCode(code) == CASE code = "OK"             -> 0
                    [] code \in Recoverable    -> 2
                    [] code \in ConfigAuth     -> 3
                    [] code \in Validation     -> 4
                    [] OTHER                   -> 5

httpError(status) == CASE status = 401 -> "AUTH_INSUFFICIENT_FOR_OP"
                       [] status = 429 -> "RATE_LIMITED"
                       [] status = 404 -> "IDENTIFIER_NOT_FOUND"
                       [] OTHER        -> "INTERNAL_ERROR"

(* What a read can fail with: no answer, an HTTP error, a body that is not  *)
(* JSON.                                                                    *)
ReadErrors == {httpError(status) : status \in {400, 401, 404, 429, 500}}
                \cup {"NETWORK_ERROR", "INTERNAL_ERROR"}

numField(m, key) == IF key \in DOMAIN m THEN m[key] ELSE 0

(* WithPagination: all of the fields or none. *)
WithPagination(m, more) ==
  IF "Total" \notin DOMAIN m THEN NoMeta
  ELSE [count |-> m["Total"], page |-> numField(m, "Page"),
        page_size |-> numField(m, "PageSize"), has_more |-> more]

(* Mutants: one page too many, one too few, and the first page for ever.    *)
MutOneMore(m) == WithPagination(m,
  /\ numField(m, "PageSize") > 0
  /\ (numField(m, "Page") + 1) * numField(m, "PageSize") <= m["Total"])
MutOneLess(m) == WithPagination(m,
  /\ numField(m, "PageSize") > 0
  /\ (numField(m, "Page") + 2) * numField(m, "PageSize") <= m["Total"])
MutForEver(m) == WithPagination(m, numField(m, "PageSize") < m["Total"])

extractPaginationMeta(m) == WithPagination(m,
  /\ numField(m, "PageSize") > 0
  /\ (numField(m, "Page") + 1) * numField(m, "PageSize") < m["Total"])

(* Mutant: the item at the end of the slice is part of it. *)
MutPaginate(s, p, n) ==
  LET start == p * n
      end == IF start + n + 1 > Len(s) THEN Len(s) ELSE start + n + 1
  IN IF start >= Len(s) THEN <<>> ELSE SubSeq(s, start + 1, end)

(* The tenant's paginate. *)
paginate(s, p, n) ==
  LET start == p * n
      end == IF start + n > Len(s) THEN Len(s) ELSE start + n
  IN IF start >= Len(s) THEN <<>> ELSE SubSeq(s, start + 1, end)

(* The numbers of the tenant's answer, as far as this search has them.      *)
Answer == [key \in shape |-> CASE key = "Total"    -> Len(items)
                               [] key = "Page"     -> page
                               [] key = "PageSize" -> size]
-----------------------------------------------------------------------------
(* executeRead: the command prints its envelope and exits. *)
ExecuteRead ==
  /\ pc = "ask" /\ pc' = "told"
  /\ envelope' = [exit |-> ExitCode("OK"), meta |-> extractPaginationMeta(Answer)]
  /\ shown' = shown \o paginate(items, page, size)
  /\ UNCHANGED <<tenant, page, shifts, changes, faults>>

ReadFails ==
  /\ pc = "ask" /\ pc' = "told"
  /\ faults < MaxFaults /\ faults' = faults + 1
  /\ \E code \in ReadErrors : envelope' = [exit |-> ExitCode(code), meta |-> NoMeta]
  /\ UNCHANGED <<tenant, page, shown, shifts, changes>>

HasMore == envelope.meta # NoMeta /\ envelope.meta.has_more

NextPage ==
  /\ pc = "told" /\ envelope.exit = 0 /\ HasMore
  /\ page < MaxPage
  /\ page' = page + 1 /\ pc' = "ask"
  /\ UNCHANGED <<tenant, envelope, shown, shifts, changes, faults>>

AskAgain ==
  /\ pc = "told" /\ envelope.exit = 2
  /\ pc' = "ask"
  /\ UNCHANGED <<tenant, page, envelope, shown, shifts, changes, faults>>

Finish ==
  /\ pc = "told" /\ envelope.exit # 2 /\ ~(envelope.exit = 0 /\ HasMore)
  /\ pc' = IF envelope.exit = 0 THEN "done" ELSE "gave up"
  /\ UNCHANGED <<tenant, page, envelope, shown, shifts, changes, faults>>

Walk == ExecuteRead \/ ReadFails \/ NextPage \/ AskAgain \/ Finish

(* Somebody else changes what the search matches while the walk is on.      *)
Change(s, what) ==
  /\ pc \in {"ask", "told"} /\ changes < MaxChanges
  /\ items' = s
  /\ shifts' = shifts \cup {what} /\ changes' = changes + 1
  /\ UNCHANGED <<shape, size, original, page, envelope, pc, shown, faults>>

Add(x, k) ==
  /\ x \notin Members(items) \cup Members(shown)
  /\ Change([i \in 1..Len(items) + 1 |->
               IF i < k THEN items[i] ELSE IF i = k THEN x ELSE items[i - 1]], "added")

Remove(k) ==
  Change([i \in 1..Len(items) - 1 |-> IF i < k THEN items[i] ELSE items[i + 1]], "removed")

Next ==
  \/ Walk
  \/ \E x \in Items : \E k \in 1..Len(items) + 1 : Add(x, k)
  \/ \E k \in 1..Len(items) : Remove(k)

(* The agent goes on; what it waits for is a command that ends (DoIsBounded *)
(* of ApiClient).                                                           *)
Spec == Init /\ [][Next]_vars /\ WF_vars(Walk)
-----------------------------------------------------------------------------
TypeOK ==
  /\ items \in Seq(Items) /\ original \in Seq(Items) /\ shown \in Seq(Items)
  /\ shape \in Shapes /\ size \in Sizes
  /\ page \in 0..MaxPage
  /\ pc \in {"ask", "told", "done", "gave up"}
  /\ envelope.exit \in {0, 2, 3, 4, 5}
  /\ envelope.meta \in Meta \cup {NoMeta}
  /\ shifts \subseteq {"added", "removed"}
  /\ changes \in 0..MaxChanges /\ faults \in 0..MaxFaults

Complete == shape = Keys

(* A walk that ends well has shown everything the search matched when it    *)
(* began, unless something was removed under it, which pulls items to pages *)
(* already read: additions and failed tries hide nothing (hasMore).         *)
OnlyRemovalsHide ==
  pc = "done" /\ Complete /\ "removed" \notin shifts
    => Members(original) \subseteq Members(shown)

(* No item is shown twice, unless something was added, which pushes items   *)
(* to pages still to come; also a page asked for again repeats none.        *)
OnlyAdditionsRepeat == "added" \notin shifts => Distinct(shown)

(* No command is spent on a page behind the last: the total that exactly    *)
(* fills its pages is the boundary (hasMore).                               *)
NoPageTooMany ==
  page > 0 /\ Complete /\ "removed" \notin shifts => page * size < Len(items)

(* The walk ends, whatever the tenant's answers lack, unless they tell the  *)
(* size of a page and not its number: then every page looks like the first. *)
WalkEnds ==
  ("PageSize" \in shape => "Page" \in shape) => <>(pc \in {"done", "gave up"})
=============================================================================
