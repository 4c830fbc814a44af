------------------------------ MODULE AuditLog ------------------------------
(***************************************************************************)
(* Callers of Logger.Append that share one audit log file.  A Logger's     *)
(* mutex serializes the calls made on that Logger; every CLI process makes *)
(* a Logger of its own (writeAuditRow), so callers of different Loggers    *)
(* meet only in the file.  LoggerOf says which caller uses which Logger.   *)
(*                                                                         *)
(* Append is three steps: take the mutex, read the last row (tailOne), and *)
(* open and write.  The file may be edited by hand between any two steps,  *)
(* and a write may be cut short (a full disk).                             *)
(***************************************************************************)
EXTENDS AuditChain

CONSTANTS Callers, Loggers,
          LoggerOf,   \* LoggerOf[c]: the Logger caller c appends with
          Whats,      \* what a row can say
          MaxRows,    \* bound: lines in the file
          MaxEdits    \* bound: edits by hand, cut-short writes

NoCaller == "none"

ASSUME AuditLogAssumption ==
  /\ NoCaller \notin Callers
  /\ LoggerOf \in [Callers -> Loggers]
  /\ MaxRows \in Nat /\ MaxEdits \in Nat

VARIABLES
  log,      \* the file's lines
  holder,   \* holder[l]: the caller that holds Logger l's mutex, or none
  pc,       \* pc[c]: "idle", "locked" or "read"
  tail,     \* tail[c]: the row tailOne gave caller c, or Genesis
  result,   \* result[c]: what Append last returned to c: a row or an error
  overlap,  \* history: a row was written behind a tail that was not its own
  edited,   \* history: lines edited by hand that had a line after them
  edits     \* history: edits and cut-short writes so far

vars == <<log, holder, pc, tail, result, overlap, edited, edits>>

Error    == [error |-> TRUE]
NoResult == [pending |-> TRUE]

Init ==
  /\ log = <<>>
  /\ holder = [l \in Loggers |-> NoCaller]
  /\ pc = [c \in Callers |-> "idle"]
  /\ tail = [c \in Callers |-> Genesis]
  /\ result = [c \in Callers |-> NoResult]
  /\ overlap = FALSE /\ edited = {} /\ edits = 0
-----------------------------------------------------------------------------
(* l.mu.Lock(). *)
Lock(c) ==
  /\ pc[c] = "idle" /\ Len(log) < MaxRows
  /\ holder[LoggerOf[c]] = NoCaller
  /\ holder' = [holder EXCEPT ![LoggerOf[c]] = c]
  /\ pc' = [pc EXCEPT ![c] = "locked"]
  /\ result' = [result EXCEPT ![c] = NoResult]
  /\ UNCHANGED <<log, tail, overlap, edited, edits>>

(* Append returns r: the deferred unlock runs on every path. *)
Return(c, r) ==
  /\ result' = [result EXCEPT ![c] = r]
  /\ holder' = [holder EXCEPT ![LoggerOf[c]] = NoCaller]
  /\ pc' = [pc EXCEPT ![c] = "idle"]

(* Mutant: a line that does not parse is skipped, the unlock forgotten. *)
MutReadFails(c) ==
  /\ pc[c] = "locked" /\ ~Parses(log)
  /\ pc' = [pc EXCEPT ![c] = "idle"]
  /\ result' = [result EXCEPT ![c] = Error]
  /\ UNCHANGED <<log, holder, tail, overlap, edited, edits>>

(* tailOne fails: a line does not parse, or the file cannot be read. *)
ReadFails(c) ==
  /\ pc[c] = "locked" /\ ~Parses(log)
  /\ Return(c, Error)
  /\ UNCHANGED <<log, tail, overlap, edited, edits>>

(* tailOne: the last row. *)
ReadTail(c) ==
  /\ pc[c] = "locked" /\ Parses(log)
  /\ tail' = [tail EXCEPT ![c] = Tip(log)]
  /\ pc' = [pc EXCEPT ![c] = "read"]
  /\ UNCHANGED <<log, holder, result, overlap, edited, edits>>

(* The row lands at the end of the file.  A line that was cut short has no  *)
(* newline: the row is glued to it and the line still does not parse.       *)
AtEnd(row) == IF Tip(log) = Torn THEN log ELSE Append(log, row)

(* Mutant: the rows read by tailOne are written back with the new one.      *)
MutWriteRow(c, what) ==
  /\ pc[c] = "read"
  /\ LET row == NextRow(tail[c], what) IN
       /\ log' = Append(SubSeq(log, 1, tail[c].seq), row)
       /\ Return(c, row)
  /\ overlap' = (overlap \/ tail[c] # Tip(log))
  /\ UNCHANGED <<tail, edited, edits>>

(* OpenFile with O_APPEND and one Write. *)
WriteRow(c, what) ==
  /\ pc[c] = "read"
  /\ LET row == NextRow(tail[c], what) IN
       /\ log' = AtEnd(row)
       /\ Return(c, row)
  /\ overlap' = (overlap \/ tail[c] # Tip(log))
  /\ UNCHANGED <<tail, edited, edits>>

(* OpenFile fails: nothing reached the file. *)
WriteFails(c) ==
  /\ pc[c] = "read"
  /\ Return(c, Error)
  /\ UNCHANGED <<log, tail, overlap, edited, edits>>

(* Write is cut short: the file now ends in a line that does not parse. *)
WriteTorn(c) ==
  /\ pc[c] = "read" /\ edits < MaxEdits
  /\ log' = AtEnd(Torn)
  /\ Return(c, Error)
  /\ edits' = edits + 1
  /\ UNCHANGED <<tail, overlap, edited>>

(* Line i is changed by hand: it says something else. *)
Edit(i, what) ==
  /\ edits < MaxEdits
  /\ i \in DOMAIN log /\ log[i] # Torn /\ log[i].what # what
  /\ log' = [log EXCEPT ![i] = [@ EXCEPT !.what = what]]
  /\ edited' = IF i < Len(log) THEN edited \cup {i} ELSE edited
  /\ edits' = edits + 1
  /\ UNCHANGED <<holder, pc, tail, result, overlap>>

Call(c) ==
  \/ ReadFails(c) \/ ReadTail(c) \/ WriteFails(c) \/ WriteTorn(c)
  \/ \E what \in Whats : WriteRow(c, what)

Full == Len(log) >= MaxRows /\ UNCHANGED vars

Next ==
  \/ \E c \in Callers : Lock(c) \/ Call(c)
  \/ \E i \in 1..MaxRows, what \in Whats : Edit(i, what)
  \/ Full

(* A call that holds the mutex runs to its end: nothing in it blocks.       *)
Spec == Init /\ [][Next]_vars /\ \A c \in Callers : WF_vars(Call(c))
-----------------------------------------------------------------------------
Rows == RowsOver(Nat \ {0}, Whats)

TypeOK ==
  /\ log \in Seq(Rows \cup {Torn})
  /\ holder \in [Loggers -> Callers \cup {NoCaller}]
  /\ pc \in [Callers -> {"idle", "locked", "read"}]
  /\ tail \in [Callers -> Rows \cup {Genesis}]
  /\ result \in [Callers -> Rows \cup {Error, NoResult}]
  /\ overlap \in BOOLEAN
  /\ edited \subseteq Nat
  /\ edits \in 0..MaxEdits

(* The chain breaks only where two calls overlapped, a write was cut short  *)
(* or a line was edited: with none of these, Verify reports ok whatever     *)
(* calls failed and however calls of one Logger queued up.                  *)
OnlyOverlapBreaks == ~overlap /\ edits = 0 => VerifyOK(log)

(* Even when calls of several Loggers overlap, the rows form a tree: each   *)
(* row follows the start of the chain or some row written before it.        *)
RowsFormATree ==
  edits = 0 =>
    \A i \in DOMAIN log :
      \/ log[i].seq = 1 /\ log[i].prev = Genesis
      \/ \E j \in 1..(i - 1) :
           log[i].prev = HashOf(log[j]) /\ log[i].seq = log[j].seq + 1

(* An edit of a line that has a line after it is reported from then on, at  *)
(* that next line, whatever is appended later.  (Where calls overlapped, an *)
(* edit can even mend a broken link: with two rows 1, the second edited to  *)
(* say what the first says fits the row 2 that follows it.)                 *)
EditIsReported ==
  \A i \in edited :
    edits = 1 /\ ~overlap => Parses(log) /\ i + 1 \in Failures(log)

(* The entry that Append returned to a caller is in the file, whoever else  *)
(* wrote meanwhile, as long as no line was cut short or edited.             *)
ReturnedRowIsInFile ==
  edits = 0 => \A c \in Callers : result[c] \in Rows => \E i \in DOMAIN log : log[i] = result[c]

(* Every call lets go of its Logger, also after a line that does not parse  *)
(* has made each of them fail: no error path keeps the mutex.               *)
LoggerIsFreed == \A l \in Loggers : holder[l] # NoCaller ~> holder[l] = NoCaller

(* audit.go: "Concurrent calls are safe but strictly serialized via mu".    *)
(* So a file that nobody edited and no full disk cut short verifies.        *)
UneditedFileVerifies == edits = 0 => VerifyOK(log)
=============================================================================
