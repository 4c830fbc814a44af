--------------------------- MODULE AuditLogProofs ---------------------------
(***************************************************************************)
(* The audit log for any callers, Loggers and length: what holds of the    *)
(* chain while nobody edits the file and no write is cut short.            *)
(***************************************************************************)
EXTENDS AuditLog, TLAPS

(* A row is neither the start of the chain nor a line that does not parse.  *)
LEMMA RowIsARow ==
  \A row \in Rows : row # Genesis /\ row # Torn /\ row.seq \in Nat \ {0} /\ row.what \in Whats
<1> SUFFICES ASSUME NEW row \in Rows
             PROVE  row # Genesis /\ row # Torn /\ row.seq \in Nat \ {0} /\ row.what \in Whats
  OBVIOUS
<1>1. row.seq \in Nat \ {0} /\ row.what \in Whats
  BY DEF Rows, RowsOver
<1>2. row # Genesis
  BY <1>1 DEF Genesis
<1>3. row # Torn
  <2>1. DOMAIN row = {"seq", "what", "prev"}
    BY DEF Rows, RowsOver
  <2>2. DOMAIN Torn = {"torn"}
    BY DEF Torn
  <2> QED
    BY <2>1, <2>2
<1> QED
  BY <1>1, <1>2, <1>3

(* The row Append makes of a tail is a row, one number and one hash on.     *)
LEMMA NextRowIsARow ==
  ASSUME NEW tip \in Rows \cup {Genesis}, NEW what \in Whats
  PROVE  /\ NextRow(tip, what) \in Rows
         /\ NextRow(tip, what).what = what
         /\ tip = Genesis => NextRow(tip, what).seq = 1 /\ NextRow(tip, what).prev = Genesis
         /\ tip # Genesis => NextRow(tip, what).seq = tip.seq + 1
                             /\ NextRow(tip, what).prev = HashOf(tip)
<1>1. CASE tip = Genesis
  BY <1>1 DEF NextRow, Row, Rows, RowsOver
<1>2. CASE tip # Genesis
  <2>1. tip \in Rows /\ tip.seq \in Nat \ {0} /\ tip.what \in Whats
    BY <1>2, RowIsARow
  <2>2. HashOf(tip) \in [seq : Nat \ {0}, what : Whats]
    BY <2>1 DEF HashOf
  <2> QED
    BY <1>2, <2>1, <2>2 DEF NextRow, Row, Rows, RowsOver
<1> QED
  BY <1>1, <1>2

(* Append behind the last row keeps a chain without failures.               *)
LEMMA ChainGrows ==
  ASSUME NEW f \in Seq(Rows \cup {Torn}), VerifyOK(f), NEW what \in Whats
  PROVE  VerifyOK(Append(f, NextRow(Tip(f), what)))
<1> DEFINE row == NextRow(Tip(f), what)
           g   == Append(f, row)
<1>1. /\ \A i \in DOMAIN f : f[i] \in Rows
      /\ Tip(f) \in Rows \cup {Genesis}
  BY DEF VerifyOK, Parses, Tip
<1>2. row \in Rows
  BY <1>1, NextRowIsARow
<1>3. /\ g \in Seq(Rows \cup {Torn}) /\ Len(g) = Len(f) + 1
      /\ \A i \in DOMAIN f : g[i] = f[i]
      /\ g[Len(f) + 1] = row
  BY <1>2
<1>4. Parses(g)
  BY <1>1, <1>2, <1>3, RowIsARow DEF Parses
<1>5. ASSUME NEW i \in DOMAIN g PROVE Linked(g, i)
  <2>1. CASE i \in DOMAIN f
    <3>1. Linked(f, i)
      BY <2>1 DEF VerifyOK, Failures
    <3>2. i > 1 => i - 1 \in DOMAIN f
      BY <2>1
    <3> QED
      BY <2>1, <3>1, <3>2, <1>3 DEF Linked
  <2>2. CASE i = Len(f) + 1 /\ f = <<>>
    <3>1. row.seq = 1
      BY <2>2, NextRowIsARow DEF Tip
    <3> QED
      BY <2>2, <3>1, <1>3 DEF Linked
  <2>3. CASE i = Len(f) + 1 /\ f # <<>>
    <3>1. Tip(f) = f[Len(f)] /\ Len(f) \in DOMAIN f
      BY <2>3 DEF Tip
    <3>2. Tip(f) # Genesis
      BY <3>1, <1>1, RowIsARow
    <3>3. row.seq = f[Len(f)].seq + 1 /\ row.prev = HashOf(f[Len(f)])
      BY <3>1, <3>2, <1>1, NextRowIsARow
    <3> QED
      BY <2>3, <3>1, <3>3, <1>3 DEF Linked
  <2> QED
    BY <2>1, <2>2, <2>3, <1>3
<1> QED
  BY <1>4, <1>5 DEF VerifyOK, Failures
-----------------------------------------------------------------------------
(* Type correctness of the file, the mutexes and the calls.                 *)
THEOREM TypeCorrect == Spec => []TypeOK
<1>1. Init => TypeOK
  <2> SUFFICES ASSUME Init PROVE TypeOK
    OBVIOUS
  <2>1. log \in Seq(Rows \cup {Torn}) /\ holder \in [Loggers -> Callers \cup {NoCaller}]
    BY DEF Init
  <2>2. /\ pc \in [Callers -> {"idle", "locked", "read"}]
        /\ tail \in [Callers -> Rows \cup {Genesis}]
        /\ result \in [Callers -> Rows \cup {Error, NoResult}]
    BY DEF Init
  <2>3. edits \in 0..MaxEdits
    BY AuditLogAssumption DEF Init
  <2>4. edited \subseteq Nat /\ overlap \in BOOLEAN
    BY DEF Init
  <2> QED
    BY <2>1, <2>2, <2>3, <2>4 DEF TypeOK
<1>2. TypeOK /\ [Next]_vars => TypeOK'
  <2> SUFFICES ASSUME TypeOK, [Next]_vars PROVE TypeOK'
    OBVIOUS
  <2> USE AuditLogAssumption DEF TypeOK, Return
  <2>1. ASSUME NEW c \in Callers, Lock(c) PROVE TypeOK'
    BY <2>1 DEF Lock
  <2>2. ASSUME NEW c \in Callers, ReadFails(c) \/ WriteFails(c) PROVE TypeOK'
    BY <2>2 DEF ReadFails, WriteFails
  <2>3. ASSUME NEW c \in Callers, ReadTail(c) PROVE TypeOK'
    <3>1. Tip(log) \in Rows \cup {Genesis}
      BY <2>3 DEF ReadTail, Parses, Tip
    <3> QED
      BY <2>3, <3>1 DEF ReadTail
  <2>4. ASSUME NEW c \in Callers, NEW what \in Whats, WriteRow(c, what) PROVE TypeOK'
    <3>1. NextRow(tail[c], what) \in Rows
      BY NextRowIsARow
    <3>2. AtEnd(NextRow(tail[c], what)) \in Seq(Rows \cup {Torn})
      BY <3>1 DEF AtEnd
    <3>3. overlap' \in BOOLEAN
      BY <2>4 DEF WriteRow
    <3> QED
      BY <2>4, <3>1, <3>2, <3>3 DEF WriteRow
  <2>5. ASSUME NEW c \in Callers, WriteTorn(c) PROVE TypeOK'
    <3>1. AtEnd(Torn) \in Seq(Rows \cup {Torn})
      BY DEF AtEnd
    <3> QED
      BY <2>5, <3>1 DEF WriteTorn
  <2>6. ASSUME NEW i \in 1..MaxRows, NEW what \in Whats, Edit(i, what) PROVE TypeOK'
    <3>1. log[i] \in Rows
      BY <2>6 DEF Edit
    <3>2. [log[i] EXCEPT !.what = what] \in Rows
      BY <3>1 DEF Rows, RowsOver
    <3>3. log' \in Seq(Rows \cup {Torn})
      BY <2>6, <3>2 DEF Edit
    <3> QED
      BY <2>6, <3>3 DEF Edit
  <2>7. CASE Full \/ UNCHANGED vars
    BY <2>7 DEF Full, vars
  <2> QED
    BY <2>1, <2>2, <2>3, <2>4, <2>5, <2>6, <2>7 DEF Next, Call
<1> QED
  BY <1>1, <1>2, PTL DEF Spec
-----------------------------------------------------------------------------
(* The strengthening for any number of Loggers: while nothing was edited    *)
(* or cut short, a tail that a call has in hand and a row a call returned   *)
(* were written to the file and are still there, and the chain is whole     *)
(* unless calls overlapped.                                                 *)
InFile(f, row) == \E i \in DOMAIN f : f[i] = row

Chain == ~overlap => VerifyOK(log)
TailsInFile == \A c \in Callers : pc[c] = "read" => tail[c] = Genesis \/ InFile(log, tail[c])

Unedited == Parses(log) /\ Chain /\ TailsInFile

IInv == TypeOK /\ (edits = 0 => Unedited /\ RowsFormATree /\ ReturnedRowIsInFile)

(* A step that leaves the count of edits at 0 edits nothing.                *)
LEMMA NoEdit ==
  ASSUME TypeOK, [Next]_vars, edits' = 0
  PROVE  /\ edits = 0
         /\ \/ log' = log /\ overlap' = overlap
            \/ \E c \in Callers, what \in Whats : WriteRow(c, what)
<1> USE DEF TypeOK
<1>1. ASSUME NEW c \in Callers, Lock(c) \/ ReadFails(c) \/ ReadTail(c) \/ WriteFails(c)
      PROVE  edits = 0 /\ log' = log /\ overlap' = overlap
  BY <1>1 DEF Lock, ReadFails, ReadTail, WriteFails
<1>2. ASSUME NEW c \in Callers, NEW what \in Whats, WriteRow(c, what) PROVE edits = 0
  BY <1>2 DEF WriteRow
<1>3. ASSUME NEW c \in Callers, WriteTorn(c) PROVE FALSE
  BY <1>3, AuditLogAssumption DEF WriteTorn
<1>4. ASSUME NEW i \in 1..MaxRows, NEW what \in Whats, Edit(i, what) PROVE FALSE
  BY <1>4, AuditLogAssumption DEF Edit
<1>5. CASE Full \/ UNCHANGED vars
  BY <1>5 DEF Full, vars
<1> QED
  BY <1>1, <1>2, <1>3, <1>4, <1>5 DEF Next, Call

(* The row that WriteRow appends, and what it leaves of the file.           *)
LEMMA WriteAppends ==
  ASSUME TypeOK, Parses(log), NEW c \in Callers, NEW what \in Whats, WriteRow(c, what)
  PROVE  /\ NextRow(tail[c], what) \in Rows
         /\ log' = Append(log, NextRow(tail[c], what))
         /\ Len(log') = Len(log) + 1
         /\ \A i \in DOMAIN log : log'[i] = log[i]
         /\ log'[Len(log) + 1] = NextRow(tail[c], what)
         /\ Parses(log')
<1>1. NextRow(tail[c], what) \in Rows
  BY NextRowIsARow DEF TypeOK
<1>2. Tip(log) # Torn
  BY DEF Tip, Parses, Genesis, Torn
<1>3. log' = Append(log, NextRow(tail[c], what))
  BY <1>2 DEF WriteRow, AtEnd
<1>4. /\ Len(log') = Len(log) + 1
      /\ \A i \in DOMAIN log : log'[i] = log[i]
      /\ log'[Len(log) + 1] = NextRow(tail[c], what)
  BY <1>1, <1>3 DEF TypeOK
<1>5. Parses(log')
  BY <1>1, <1>3, <1>4, RowIsARow DEF Parses, TypeOK
<1> QED
  BY <1>1, <1>3, <1>4, <1>5

(* What Append returns when it fails is not a row.                          *)
LEMMA ErrorIsNoRow == Error \notin Rows /\ NoResult \notin Rows
<1>1. \A row \in Rows : DOMAIN row = {"seq", "what", "prev"}
  BY DEF Rows, RowsOver
<1>2. DOMAIN Error = {"error"} /\ DOMAIN NoResult = {"pending"}
  BY DEF Error, NoResult
<1> QED
  BY <1>1, <1>2

(* A step that leaves the file alone.                                       *)
LEMMA QuietStep ==
  ASSUME IInv, TypeOK', [Next]_vars, edits' = 0, edits = 0, log' = log, overlap' = overlap,
         ~\E c \in Callers, what \in Whats : WriteRow(c, what)
  PROVE  Unedited' /\ RowsFormATree' /\ ReturnedRowIsInFile'
<1> USE DEF IInv, Unedited
<1>1. Parses(log') /\ Chain' /\ RowsFormATree'
  BY DEF Chain, RowsFormATree
<1>2. ASSUME NEW c \in Callers, ReadTail(c) PROVE TailsInFile' /\ ReturnedRowIsInFile'
  <2>1. Tip(log) = Genesis \/ InFile(log, Tip(log))
    BY DEF Tip, InFile, TypeOK
  <2>2. TailsInFile'
    BY <1>2, <2>1 DEF ReadTail, TailsInFile, TypeOK
  <2>3. ReturnedRowIsInFile'
    BY <1>2 DEF ReadTail, ReturnedRowIsInFile, TypeOK
  <2> QED
    BY <2>2, <2>3
<1>3. ASSUME NEW c \in Callers, Lock(c) \/ ReadFails(c) \/ WriteFails(c) \/ WriteTorn(c)
      PROVE  TailsInFile' /\ ReturnedRowIsInFile'
  <2>1. TailsInFile'
    BY <1>3 DEF Lock, ReadFails, WriteFails, WriteTorn, Return, TailsInFile, TypeOK
  <2>2. result' = [result EXCEPT ![c] = NoResult] \/ result' = [result EXCEPT ![c] = Error]
    BY <1>3 DEF Lock, ReadFails, WriteFails, WriteTorn, Return
  <2>3. ReturnedRowIsInFile'
    BY <2>2, ErrorIsNoRow DEF ReturnedRowIsInFile, TypeOK
  <2> QED
    BY <2>1, <2>3
<1>4. ASSUME NEW i \in 1..MaxRows, NEW what \in Whats, Edit(i, what)
      PROVE  TailsInFile' /\ ReturnedRowIsInFile'
  BY <1>4 DEF Edit, TailsInFile, ReturnedRowIsInFile
<1>5. ASSUME Full \/ UNCHANGED vars PROVE TailsInFile' /\ ReturnedRowIsInFile'
  BY <1>5 DEF Full, vars, TailsInFile, ReturnedRowIsInFile
<1>6. TailsInFile' /\ ReturnedRowIsInFile'
  BY <1>2, <1>3, <1>4, <1>5 DEF Next, Call
<1> QED
  BY <1>1, <1>6

(* A step that writes a row, behind the tail it has in hand.                *)
LEMMA WritingStep ==
  ASSUME IInv, TypeOK', edits = 0,
         NEW c \in Callers, NEW what \in Whats, WriteRow(c, what)
  PROVE  Unedited' /\ RowsFormATree' /\ ReturnedRowIsInFile'
<1> DEFINE row == NextRow(tail[c], what)
<1> USE DEF IInv, Unedited
<1>1. /\ row \in Rows /\ log' = Append(log, row) /\ Len(log') = Len(log) + 1
      /\ \A i \in DOMAIN log : log'[i] = log[i]
      /\ log'[Len(log) + 1] = row
      /\ Parses(log')
  BY WriteAppends
<1>2. DOMAIN log' = 1..(Len(log) + 1) /\ DOMAIN log = 1..Len(log) /\ Len(log) \in Nat
  BY <1>1 DEF TypeOK
<1>3. \A r : InFile(log, r) => InFile(log', r)
  BY <1>1, <1>2 DEF InFile
<1>4. Chain'
  <2> SUFFICES ASSUME ~overlap' PROVE VerifyOK(log')
    BY DEF Chain
  <2>1. ~overlap /\ tail[c] = Tip(log)
    BY DEF WriteRow
  <2> QED
    BY <2>1, <1>1, ChainGrows DEF Chain, TypeOK
<1>5. TailsInFile'
  BY <1>3 DEF TailsInFile, WriteRow, Return, TypeOK
<1>6. ReturnedRowIsInFile'
  <2>1. \A d \in Callers : result[d] \in Rows => InFile(log', result[d])
    BY <1>3 DEF ReturnedRowIsInFile, InFile
  <2>2. InFile(log', row)
    BY <1>1, <1>2 DEF InFile
  <2>3. \A d \in Callers : result'[d] = row \/ result'[d] = result[d]
    BY DEF WriteRow, Return, TypeOK
  <2> QED
    BY <2>1, <2>2, <2>3 DEF ReturnedRowIsInFile, InFile
<1>7. RowsFormATree'
  <2>1. \/ row.seq = 1 /\ row.prev = Genesis
        \/ \E j \in 1..Len(log) : row.prev = HashOf(log[j]) /\ row.seq = log[j].seq + 1
    <3>1. tail[c] = Genesis \/ InFile(log, tail[c])
      BY DEF WriteRow, TailsInFile
    <3> QED
      BY <3>1, <1>2, NextRowIsARow DEF InFile, TypeOK
  <2>2. ASSUME NEW i \in DOMAIN log'
        PROVE  \/ log'[i].seq = 1 /\ log'[i].prev = Genesis
               \/ \E j \in 1..(i - 1) :
                    log'[i].prev = HashOf(log'[j]) /\ log'[i].seq = log'[j].seq + 1
    <3>1. CASE i = Len(log) + 1
      BY <3>1, <2>1, <1>1, <1>2
    <3>2. CASE i \in DOMAIN log
      <4>1. \A j \in 1..(i - 1) : log'[j] = log[j]
        BY <3>2, <1>1, <1>2
      <4> QED
        BY <3>2, <4>1, <1>1 DEF RowsFormATree
    <3> QED
      BY <3>1, <3>2, <1>2
  <2> QED
    BY <2>2 DEF RowsFormATree
<1> QED
  BY <1>1, <1>4, <1>5, <1>6, <1>7

(* The inductive invariant.                                                 *)
THEOREM Invariance == Spec => []IInv
<1>1. Init /\ TypeOK => IInv
  <2> SUFFICES ASSUME Init, TypeOK PROVE Unedited /\ RowsFormATree /\ ReturnedRowIsInFile
    BY DEF IInv
  <2>1. DOMAIN log = {} /\ VerifyOK(log)
    BY DEF Init, VerifyOK, Parses, Failures
  <2> QED
    BY <2>1, ErrorIsNoRow DEF Init, Unedited, Parses, Chain, TailsInFile, RowsFormATree,
                              ReturnedRowIsInFile
<1>2. IInv /\ TypeOK' /\ [Next]_vars => IInv'
  <2> SUFFICES ASSUME IInv, TypeOK', [Next]_vars, edits' = 0
               PROVE  Unedited' /\ RowsFormATree' /\ ReturnedRowIsInFile'
    BY DEF IInv
  <2>1. edits = 0
    BY NoEdit DEF IInv
  <2>2. CASE \E c \in Callers, what \in Whats : WriteRow(c, what)
    BY <2>1, <2>2, WritingStep
  <2>3. CASE ~\E c \in Callers, what \in Whats : WriteRow(c, what)
    <3>1. log' = log /\ overlap' = overlap
      BY <2>3, NoEdit DEF IInv
    <3> QED
      BY <2>1, <2>3, <3>1, QuietStep
  <2> QED
    BY <2>2, <2>3
<1> QED
  BY <1>1, <1>2, TypeCorrect, PTL DEF Spec

(* Only calls that overlapped, an edit or a write cut short break a chain.  *)
THEOREM ChainIsWhole == Spec => []OnlyOverlapBreaks
<1>1. IInv => OnlyOverlapBreaks
  BY DEF IInv, Unedited, Chain, OnlyOverlapBreaks
<1> QED
  BY <1>1, Invariance, PTL

(* Calls that overlap fork the chain; they never leave a row that follows   *)
(* nothing.                                                                 *)
THEOREM RowsAreATree == Spec => []RowsFormATree
<1>1. IInv => RowsFormATree
  BY DEF IInv, RowsFormATree
<1> QED
  BY <1>1, Invariance, PTL

(* No other caller of any Logger drops or overwrites a row Append returned. *)
THEOREM ReturnedRowsStay == Spec => []ReturnedRowIsInFile
<1>1. IInv => ReturnedRowIsInFile
  BY DEF IInv, ReturnedRowIsInFile
<1> QED
  BY <1>1, Invariance, PTL
-----------------------------------------------------------------------------
(* The first edit of a file breaks the link behind the edited line, and     *)
(* rows that are appended later leave the break where it is.                *)
Broken(f, i) == i \in DOMAIN f /\ Parses(f) /\ i + 1 \in Failures(f)

EditInv ==
  /\ edits = 0 => edited = {}
  /\ edits = 1 /\ ~overlap => \A i \in edited : Broken(log, i)

LEMMA EditBreaks ==
  ASSUME IInv, EditInv, edits = 0, ~overlap, NEW k \in 1..MaxRows, NEW what \in Whats, Edit(k, what),
         NEW i \in edited'
  PROVE  Broken(log', i)
<1>1. i = k /\ k < Len(log) /\ k \in DOMAIN log
  BY DEF Edit, EditInv
<1>2. log \in Seq(Rows \cup {Torn}) /\ Len(log) \in Nat /\ DOMAIN log = 1..Len(log)
  BY DEF IInv, TypeOK
<1>3. Parses(log) /\ Failures(log) = {}
  BY DEF IInv, Unedited, Chain, VerifyOK
<1>4. \A j \in DOMAIN log : log[j] \in Rows
  BY <1>2, <1>3 DEF Parses
<1>5. log' = [log EXCEPT ![k] = [log[k] EXCEPT !.what = what]] /\ log[k].what # what
  BY DEF Edit
<1>6. k + 1 \in DOMAIN log /\ k + 1 # k /\ k + 1 # 1 /\ k + 1 - 1 = k
  BY <1>1, <1>2
<1>7. log[k + 1].prev = HashOf(log[k])
  BY <1>3, <1>6 DEF Failures, Linked
<1>8. /\ DOMAIN log' = DOMAIN log
      /\ \A j \in DOMAIN log : j # k => log'[j] = log[j]
      /\ log'[k].what = what
  <2>1. log[k] \in [seq : Nat \ {0}, what : Whats, prev : [seq : Nat \ {0}, what : Whats] \cup {Genesis}]
    BY <1>1, <1>4 DEF Rows, RowsOver
  <2> QED
    BY <2>1, <1>1, <1>2, <1>5
<1>9. HashOf(log'[k]) # HashOf(log[k])
  BY <1>5, <1>8 DEF HashOf
<1>10. k + 1 \in Failures(log')
  BY <1>6, <1>7, <1>8, <1>9 DEF Failures, Linked
<1>11. Parses(log')
  <2>1. log'[k] # Torn
    <3>1. log'[k] \in Rows
      BY <1>1, <1>2, <1>4, <1>5 DEF Rows, RowsOver
    <3> QED
      BY <3>1, RowIsARow
  <2> QED
    BY <2>1, <1>3, <1>8 DEF Parses
<1> QED
  BY <1>1, <1>8, <1>10, <1>11 DEF Broken

LEMMA BreaksStay ==
  ASSUME IInv, NEW c \in Callers, NEW what \in Whats, WriteRow(c, what),
         NEW i, Broken(log, i)
  PROVE  Broken(log', i)
<1>1. /\ Len(log') = Len(log) + 1 /\ Parses(log')
      /\ \A j \in DOMAIN log : log'[j] = log[j]
      /\ log' = Append(log, NextRow(tail[c], what))
  BY WriteAppends DEF IInv, Broken
<1>2. Len(log) \in Nat /\ DOMAIN log = 1..Len(log) /\ DOMAIN log' = 1..Len(log')
  BY <1>1 DEF IInv, TypeOK
<1>3. i \in DOMAIN log /\ i + 1 \in DOMAIN log /\ ~Linked(log, i + 1)
  BY DEF Broken, Failures
<1>4. i \in Nat /\ i + 1 - 1 = i /\ i + 1 # 1
  BY <1>2, <1>3
<1>5. ~Linked(log', i + 1)
  BY <1>1, <1>3, <1>4 DEF Linked
<1> QED
  BY <1>1, <1>2, <1>3, <1>5 DEF Broken, Failures

LEMMA EditInvKept ==
  ASSUME IInv, EditInv, [Next]_vars
  PROVE  EditInv'
<1>1. edits \in Nat
  BY AuditLogAssumption DEF IInv, TypeOK
<1>2. CASE UNCHANGED <<log, overlap, edited, edits>>
  BY <1>2 DEF EditInv, Broken, Failures, Parses, Linked
<1>3. ASSUME NEW c \in Callers, Lock(c) \/ ReadFails(c) \/ ReadTail(c) \/ WriteFails(c)
      PROVE  UNCHANGED <<log, overlap, edited, edits>>
  BY <1>3 DEF Lock, ReadFails, ReadTail, WriteFails
<1>4. ASSUME NEW c \in Callers, WriteTorn(c)
      PROVE  EditInv'
  <2>1. edits' = edits + 1 /\ edited' = edited
    BY <1>4 DEF WriteTorn
  <2> QED
    BY <1>1, <2>1 DEF EditInv
<1>5. ASSUME NEW c \in Callers, NEW what \in Whats, WriteRow(c, what)
      PROVE  EditInv'
  <2>1. edits' = edits /\ edited' = edited /\ (~overlap' => ~overlap)
    BY <1>5 DEF WriteRow
  <2>2. \A i : Broken(log, i) => Broken(log', i)
    BY <1>5, BreaksStay
  <2>3. \A i : Broken(log, i)' <=> Broken(log', i)
    BY DEF Broken, Failures, Parses, Linked
  <2> QED
    BY <2>1, <2>2, <2>3 DEF EditInv
<1>6. ASSUME NEW k \in 1..MaxRows, NEW what \in Whats, Edit(k, what)
      PROVE  EditInv'
  <2>1. edits' = edits + 1 /\ overlap' = overlap
    BY <1>6 DEF Edit
  <2>2. edits = 0 /\ ~overlap => \A i \in edited' : Broken(log', i)
    BY <1>6, EditBreaks
  <2> QED
    BY <1>1, <2>1, <2>2 DEF EditInv
<1>7. CASE Full \/ UNCHANGED vars
  BY <1>2, <1>7 DEF Full, vars
<1> QED
  BY <1>2, <1>3, <1>4, <1>5, <1>6, <1>7 DEF Next, Call

(* An edited line with a line after it is reported for good.                *)
THEOREM EditsAreReported == Spec => []EditIsReported
<1>1. Init => EditInv
  BY DEF Init, EditInv
<1>2. IInv /\ EditInv /\ [Next]_vars => EditInv'
  BY EditInvKept
<1>3. EditInv => EditIsReported
  BY DEF EditInv, Broken, EditIsReported
<1> QED
  BY <1>1, <1>2, <1>3, Invariance, PTL DEF Spec
-----------------------------------------------------------------------------
(* What the mutex gives where it is shared: a caller inside Append holds    *)
(* its Logger, and when all callers share one Logger the tail in hand is    *)
(* the last row of the file.                                                *)
Held == \A c \in Callers : pc[c] # "idle" => holder[LoggerOf[c]] = c

Fresh == edits = 0 => ~overlap /\ \A c \in Callers : pc[c] = "read" => tail[c] = Tip(log)

OneLogger == \A c, d \in Callers : LoggerOf[c] = LoggerOf[d]

(* Whatever the Loggers, only the holder of a mutex is inside Append.       *)
LEMMA MutexHeld == Spec => []Held
<1>1. Init => Held
  BY DEF Init, Held
<1>2. TypeOK /\ Held /\ [Next]_vars => Held'
  <2> SUFFICES ASSUME TypeOK, Held, [Next]_vars PROVE Held'
    OBVIOUS
  <2> USE AuditLogAssumption DEF TypeOK, Held
  <2>1. ASSUME NEW c \in Callers, Lock(c) PROVE Held'
    BY <2>1 DEF Lock
  <2>2. ASSUME NEW c \in Callers, NEW r, pc[c] # "idle", Return(c, r) PROVE Held'
    BY <2>2 DEF Return
  <2>3. ASSUME NEW c \in Callers, ReadTail(c) PROVE Held'
    BY <2>3 DEF ReadTail
  <2>4. ASSUME NEW c \in Callers,
               ReadFails(c) \/ WriteFails(c) \/ WriteTorn(c) \/ \E w \in Whats : WriteRow(c, w)
        PROVE  Held'
    BY <2>4, <2>2 DEF ReadFails, WriteFails, WriteTorn, WriteRow
  <2>5. ASSUME NEW i \in 1..MaxRows, NEW what \in Whats, Edit(i, what) PROVE Held'
    BY <2>5 DEF Edit
  <2>6. ASSUME Full \/ UNCHANGED vars PROVE Held'
    BY <2>6 DEF Full, vars
  <2> QED
    BY <2>1, <2>3, <2>4, <2>5, <2>6 DEF Next, Call
<1> QED
  BY <1>1, <1>2, TypeCorrect, PTL DEF Spec

(* No mutex is left behind: a Logger that is taken is in the hands of a     *)
(* call that has not returned.                                              *)
Owned ==
  \A l \in Loggers : holder[l] # NoCaller =>
    holder[l] \in Callers /\ LoggerOf[holder[l]] = l /\ pc[holder[l]] # "idle"

(* Whichever path a call returns by, it has let go of its Logger: with the  *)
(* scheduling that LoggerIsFreed assumes, this is why a caller that waits   *)
(* for one gets it, also behind calls that failed.                          *)
THEOREM NoMutexIsLeft == Spec => []Owned
<1>1. Init => Owned
  BY DEF Init, Owned
<1>2. TypeOK /\ Owned /\ [Next]_vars => Owned'
  <2> SUFFICES ASSUME TypeOK, Owned, [Next]_vars PROVE Owned'
    OBVIOUS
  <2> USE AuditLogAssumption DEF TypeOK, Owned
  <2>1. ASSUME NEW c \in Callers, Lock(c) PROVE Owned'
    BY <2>1 DEF Lock
  <2>2. ASSUME NEW c \in Callers, NEW r, Return(c, r) PROVE Owned'
    BY <2>2 DEF Return
  <2>3. ASSUME NEW c \in Callers, ReadTail(c) PROVE Owned'
    BY <2>3 DEF ReadTail
  <2>4. ASSUME NEW c \in Callers,
               ReadFails(c) \/ WriteFails(c) \/ WriteTorn(c) \/ \E w \in Whats : WriteRow(c, w)
        PROVE  Owned'
    BY <2>2, <2>4 DEF ReadFails, WriteFails, WriteTorn, WriteRow
  <2>5. ASSUME NEW i \in 1..MaxRows, NEW what \in Whats, Edit(i, what) PROVE Owned'
    BY <2>5 DEF Edit
  <2>6. ASSUME Full \/ UNCHANGED vars PROVE Owned'
    BY <2>6 DEF Full, vars
  <2> QED
    BY <2>1, <2>3, <2>4, <2>5, <2>6 DEF Next, Call
<1> QED
  BY <1>1, <1>2, TypeCorrect, PTL DEF Spec

(* Callers of one Logger never overlap.                                     *)
LEMMA OneLoggerIsFresh ==
  ASSUME OneLogger
  PROVE  Spec => []Fresh
<1>1. Init => Fresh
  BY DEF Init, Fresh
<1>2. TypeOK /\ TypeOK' /\ Held /\ Fresh /\ [Next]_vars => Fresh'
  <2> SUFFICES ASSUME TypeOK, TypeOK', Held, Fresh, [Next]_vars, edits' = 0
               PROVE  ~overlap' /\ \A c \in Callers : pc'[c] = "read" => tail'[c] = Tip(log')
    BY DEF Fresh, Tip
  <2>1. edits = 0 /\ ~overlap /\ \A c \in Callers : pc[c] = "read" => tail[c] = Tip(log)
    BY NoEdit DEF Fresh
  <2>2. CASE \E c \in Callers, what \in Whats : WriteRow(c, what)
    <3>1. PICK c \in Callers, what \in Whats : WriteRow(c, what)
      BY <2>2
    <3>2. ~overlap'
      BY <2>1, <3>1 DEF WriteRow
    <3>3. \A d \in Callers : d # c => pc[d] = "idle"
      BY <3>1, OneLogger DEF Held, WriteRow, OneLogger
    <3>4. \A d \in Callers : pc'[d] # "read"
      BY <3>1, <3>3 DEF WriteRow, Return, TypeOK
    <3> QED
      BY <3>2, <3>4
  <2>3. CASE ~\E c \in Callers, what \in Whats : WriteRow(c, what)
    <3>1. log' = log /\ overlap' = overlap
      BY <2>3, NoEdit
    <3>2. ASSUME NEW d \in Callers, pc'[d] = "read" PROVE tail'[d] = Tip(log)
      <4>1. ASSUME NEW c \in Callers,
                   Lock(c) \/ ReadFails(c) \/ WriteFails(c) \/ WriteTorn(c)
            PROVE  tail'[d] = Tip(log)
        BY <4>1, <3>2, <2>1 DEF Lock, ReadFails, WriteFails, WriteTorn, Return, TypeOK
      <4>2. ASSUME NEW c \in Callers, ReadTail(c) PROVE tail'[d] = Tip(log)
        BY <4>2, <3>2, <2>1 DEF ReadTail, TypeOK
      <4>3. ASSUME NEW i \in 1..MaxRows, NEW what \in Whats, Edit(i, what)
            PROVE  tail'[d] = Tip(log)
        BY <4>3, <3>2, <2>1 DEF Edit
      <4>4. ASSUME Full \/ UNCHANGED vars PROVE tail'[d] = Tip(log)
        BY <4>4, <3>2, <2>1 DEF Full, vars
      <4> QED
        BY <2>3, <4>1, <4>2, <4>3, <4>4 DEF Next, Call
    <3> QED
      BY <2>1, <3>1, <3>2
  <2> QED
    BY <2>2, <2>3
<1> QED
  BY <1>1, <1>2, TypeCorrect, MutexHeld, PTL DEF Spec

(* "Concurrent calls are safe but strictly serialized via mu" is true of    *)
(* callers of one Logger: their file verifies until somebody edits it or a  *)
(* write is cut short.                                                      *)
THEOREM OneLoggerVerifies ==
  ASSUME OneLogger
  PROVE  Spec => []UneditedFileVerifies
<1>1. IInv /\ Fresh => UneditedFileVerifies
  BY DEF IInv, Unedited, Chain, Fresh, UneditedFileVerifies
<1> QED
  BY <1>1, OneLoggerIsFresh, Invariance, PTL
-----------------------------------------------------------------------------
(* Append as one step: the same file and the same answers as a log whose    *)
(* calls take effect one after the other.                                   *)
Serial == INSTANCE SerialLog WITH Pending <- NoResult, Failed <- Error

(* A call in progress has not answered yet. *)
Waiting == \A c \in Callers : pc[c] # "idle" => result[c] = NoResult

LEMMA CallsWait == Spec => []Waiting
<1>1. Init => Waiting
  BY DEF Init, Waiting
<1>2. TypeOK /\ Waiting /\ [Next]_vars => Waiting'
  <2> SUFFICES ASSUME TypeOK, Waiting, [Next]_vars PROVE Waiting'
    OBVIOUS
  <2> USE DEF TypeOK, Waiting
  <2>1. ASSUME NEW c \in Callers, Lock(c) \/ ReadTail(c) PROVE Waiting'
    BY <2>1 DEF Lock, ReadTail
  <2>2. ASSUME NEW c \in Callers, NEW r, Return(c, r) PROVE Waiting'
    BY <2>2 DEF Return
  <2>3. ASSUME NEW c \in Callers,
               ReadFails(c) \/ WriteFails(c) \/ WriteTorn(c) \/ \E w \in Whats : WriteRow(c, w)
        PROVE  Waiting'
    BY <2>2, <2>3 DEF ReadFails, WriteFails, WriteTorn, WriteRow
  <2>4. ASSUME NEW i, NEW what, Edit(i, what) PROVE Waiting'
    BY <2>4 DEF Edit
  <2>5. ASSUME Full \/ UNCHANGED vars PROVE Waiting'
    BY <2>5 DEF Full, vars
  <2> QED
    BY <2>1, <2>3, <2>4, <2>5 DEF Next, Call
<1> QED
  BY <1>1, <1>2, TypeCorrect, PTL DEF Spec

(* Only the write can be seen from outside, and it adds the row that        *)
(* follows the file's last one unless another caller wrote in between.      *)
LEMMA StepIsSerial ==
  ASSUME IInv, Waiting, [Next]_vars, edits' = 0, ~overlap'
  PROVE  Serial!Next \/ UNCHANGED Serial!vars
<1> USE DEF Serial!vars
<1>0. TypeOK /\ edits = 0 /\ Parses(log)
  BY NoEdit DEF IInv, Unedited
<1>1. ASSUME NEW c \in Callers, Lock(c) PROVE Serial!Next
  BY <1>1 DEF Lock, Serial!Next, Serial!Call
<1>2. ASSUME NEW c \in Callers, ReadFails(c) \/ WriteFails(c) PROVE Serial!Next
  BY <1>2 DEF ReadFails, WriteFails, Return, Waiting, Serial!Next, Serial!Fail
<1>3. ASSUME NEW c \in Callers, ReadTail(c) PROVE UNCHANGED Serial!vars
  BY <1>3 DEF ReadTail
<1>4. ASSUME NEW c \in Callers, NEW what \in Whats, WriteRow(c, what) PROVE Serial!Next
  <2>1. tail[c] = Tip(log)
    BY <1>4 DEF WriteRow
  <2>2. /\ log' = Append(log, NextRow(Tip(log), what))
        /\ result' = [result EXCEPT ![c] = NextRow(Tip(log), what)]
    BY <1>0, <1>4, <2>1, WriteAppends DEF WriteRow, Return
  <2>3. NextRow(Tip(log), what) = Serial!NextRow(Serial!Tip(log), what)
    BY DEF NextRow, Tip, Row, HashOf, Genesis, Serial!NextRow, Serial!Tip, Serial!Row,
       Serial!HashOf, Serial!Genesis
  <2>4. result[c] = NoResult
    BY <1>4 DEF WriteRow, Waiting
  <2>5. Serial!Add(c, what)
    BY <2>2, <2>3, <2>4 DEF Serial!Add
  <2> QED
    BY <2>5 DEF Serial!Next
<1>5. ASSUME NEW c \in Callers, WriteTorn(c) PROVE FALSE
  BY <1>0, <1>5, AuditLogAssumption DEF WriteTorn
<1>6. ASSUME NEW i, NEW what, Edit(i, what) PROVE FALSE
  BY <1>0, <1>6 DEF Edit
<1>7. ASSUME Full \/ UNCHANGED vars PROVE UNCHANGED Serial!vars
  BY <1>7 DEF Full, vars
<1> QED
  BY <1>1, <1>2, <1>3, <1>4, <1>5, <1>6, <1>7 DEF Next, Call

(* Whatever the Loggers, and whichever calls failed: until a row is written *)
(* behind a tail that is no longer the last one, or the file is edited, the *)
(* file and every caller's answer are those of a log that adds one row per  *)
(* call.                                                                    *)
THEOREM SerialUntilOverlap ==
  Spec => /\ Serial!Init
          /\ [][edits' = 0 /\ ~overlap' => Serial!Next \/ UNCHANGED Serial!vars]_vars
<1>1. Init => Serial!Init
  BY DEF Init, Serial!Init
<1>2. IInv /\ Waiting /\ [Next]_vars
        => [edits' = 0 /\ ~overlap' => Serial!Next \/ UNCHANGED Serial!vars]_vars
  BY StepIsSerial
<1> QED
  BY <1>1, <1>2, Invariance, CallsWait, PTL DEF Spec

(* With one Logger that is all there is to see of a file that nobody edits  *)
(* (audit.go, "strictly serialized via mu"): Append implements SerialLog.   *)
THEOREM OneLoggerIsSerial ==
  ASSUME OneLogger, MaxEdits = 0
  PROVE  Spec => Serial!Spec
<1>1. Init => Serial!Init
  BY DEF Init, Serial!Init
<1>2. IInv /\ Waiting /\ TypeOK' /\ Fresh' /\ [Next]_vars => [Serial!Next]_(Serial!vars)
  <2> SUFFICES ASSUME IInv, Waiting, TypeOK', Fresh', [Next]_vars
               PROVE  Serial!Next \/ UNCHANGED Serial!vars
    OBVIOUS
  <2>1. edits' = 0
    BY DEF TypeOK
  <2>2. ~overlap'
    BY <2>1 DEF Fresh
  <2> QED
    BY <2>1, <2>2, StepIsSerial
<1> QED
  BY <1>1, <1>2, TypeCorrect, Invariance, CallsWait, OneLoggerIsFresh, PTL DEF Spec, Serial!Spec
=============================================================================
