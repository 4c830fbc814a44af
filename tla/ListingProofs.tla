---------------------------- MODULE ListingProofs ----------------------------
(***************************************************************************)
(* The walk for every search, page size, shape of answers and bound: what  *)
(* it shows once, what it shows at all, and where it stops.                *)
(***************************************************************************)
EXTENDS Listing, SequenceTheorems, TLAPS

(* How many items, in the order of the search, the walk has behind it.      *)
Behind == page * size + (IF pc # "ask" /\ envelope.exit = 0 THEN size ELSE 0)

(* What the last envelope says of the page just read.                       *)
ToldInv ==
  pc # "ask" /\ envelope.exit = 0 /\ Complete /\ "removed" \notin shifts =>
    IF HasMore THEN page * size + size < Len(items)
    ELSE Members(original) \subseteq Members(shown)

(* Additions push items behind others, removals pull them before others;    *)
(* neither does what the other does.                                        *)
OrderInv ==
  /\ Distinct(items)
  /\ "removed" \notin shifts =>
       /\ Members(original) \subseteq Members(items)
       /\ \A i \in 1..Len(items) :
            i <= Behind /\ items[i] \in Members(original) => items[i] \in Members(shown)
  /\ "added" \notin shifts =>
       /\ Distinct(shown)
       /\ \A i \in 1..Len(items) : i > Behind => items[i] \notin Members(shown)

IInv == TypeOK /\ NoPageTooMany /\ ToldInv /\ OrderInv
-----------------------------------------------------------------------------
LEMMA Offsets ==
  ASSUME NEW p \in Nat, NEW n \in Nat
  PROVE  p * n \in Nat /\ (p + 1) * n = p * n + n
  OBVIOUS

(* paginate returns the items from place p*n on, n of them or what is left. *)
LEMMA Paginated ==
  ASSUME NEW s \in Seq(Items), NEW p \in Nat, NEW n \in Nat
  PROVE  LET q == paginate(s, p, n)
         IN /\ q \in Seq(Items)
            /\ \A j \in 1..Len(q) : j <= n /\ p * n + j \in 1..Len(s) /\ q[j] = s[p * n + j]
            /\ \A i \in 1..Len(s) : p * n < i /\ i <= p * n + n =>
                 i - p * n \in 1..Len(q) /\ q[i - p * n] = s[i]
<1> DEFINE start == p * n
           end == IF start + n > Len(s) THEN Len(s) ELSE start + n
<1>1. start \in Nat
  BY Offsets
<1>2. Len(s) \in Nat /\ \A i \in 1..Len(s) : s[i] \in Items
  BY LenProperties
<1>3. paginate(s, p, n) = IF start >= Len(s) THEN <<>> ELSE SubSeq(s, start + 1, end)
  BY DEF paginate
<1> HIDE DEF start
<1>4. CASE start >= Len(s)
  <2>1. paginate(s, p, n) = <<>>
    BY <1>3, <1>4
  <2>2. <<>> \in Seq(Items) /\ Len(<<>>) = 0
    OBVIOUS
  <2> QED
    BY <2>1, <2>2, <1>1, <1>2, <1>4 DEF start
<1>5. CASE ~(start >= Len(s))
  <2> DEFINE q == SubSeq(s, start + 1, end)
  <2>1. end \in Nat /\ end <= Len(s) /\ start < end + 1 /\ end <= start + n
    BY <1>1, <1>2, <1>5
  <2>2. \A i \in (start + 1)..end : s[i] \in Items
    BY <1>1, <1>2, <2>1
  <2>3. start + 1 \in Int /\ end \in Int
    BY <1>1, <2>1
  <2> HIDE DEF end
  <2>4. /\ q \in Seq(Items)
        /\ Len(q) = IF start + 1 <= end THEN end - (start + 1) + 1 ELSE 0
        /\ \A i \in 1..(end - (start + 1) + 1) : q[i] = s[start + 1 + i - 1]
    BY <2>2, <2>3, SubSeqProperties
  <2> HIDE DEF q
  <2>5. Len(q) = end - start
    BY <2>1, <2>4, <1>1
  <2>6. \A j \in 1..Len(q) : q[j] = s[start + j]
    BY <2>1, <2>4, <2>5, <1>1
  <2>7. \A j \in 1..Len(q) : j <= n /\ start + j \in 1..Len(s)
    BY <2>1, <2>5, <1>1, <1>2
  <2>8. ASSUME NEW i \in 1..Len(s), start < i, i <= start + n
        PROVE  i - start \in 1..Len(q) /\ q[i - start] = s[i]
    <3>1. i <= end
      BY <2>8, <1>1, <1>2 DEF end
    <3>2. i - start \in 1..Len(q) /\ start + (i - start) = i
      BY <3>1, <2>8, <2>1, <2>5, <1>1, <1>2
    <3> QED
      BY <3>2, <2>6
  <2>9. paginate(s, p, n) = q
    BY <1>3, <1>5 DEF q, end
  <2> QED
    BY <2>4, <2>6, <2>7, <2>8, <2>9 DEF start
<1> QED
  BY <1>4, <1>5

LEMMA JoinedMembers ==
  ASSUME NEW s \in Seq(Items), NEW q \in Seq(Items)
  PROVE  Members(s \o q) = Members(s) \cup Members(q)
<1>1. Len(s) \in Nat /\ Len(q) \in Nat
  BY LenProperties
<1>2. /\ Len(s \o q) = Len(s) + Len(q)
      /\ \A i \in 1..(Len(s) + Len(q)) : (s \o q)[i] = IF i <= Len(s) THEN s[i] ELSE q[i - Len(s)]
  BY ConcatProperties
<1>3. ASSUME NEW x \in Members(s \o q) PROVE x \in Members(s) \cup Members(q)
  <2>1. PICK i \in 1..(Len(s) + Len(q)) : x = (s \o q)[i]
    BY <1>2, <1>3 DEF Members
  <2>2. CASE i <= Len(s)
    BY <2>1, <2>2, <1>1, <1>2 DEF Members
  <2>3. CASE ~(i <= Len(s))
    <3>1. i - Len(s) \in 1..Len(q) /\ x = q[i - Len(s)]
      BY <2>1, <2>3, <1>1, <1>2
    <3> QED
      BY <3>1 DEF Members
  <2> QED
    BY <2>2, <2>3
<1>4. ASSUME NEW x \in Members(s) PROVE x \in Members(s \o q)
  <2>1. PICK i \in 1..Len(s) : x = s[i]
    BY <1>4 DEF Members
  <2>2. i \in 1..(Len(s) + Len(q)) /\ x = (s \o q)[i]
    BY <2>1, <1>1, <1>2
  <2> QED
    BY <2>2, <1>2 DEF Members
<1>5. ASSUME NEW x \in Members(q) PROVE x \in Members(s \o q)
  <2>1. PICK i \in 1..Len(q) : x = q[i]
    BY <1>5 DEF Members
  <2>2. i + Len(s) \in 1..(Len(s) + Len(q)) /\ ~(i + Len(s) <= Len(s)) /\ i + Len(s) - Len(s) = i
    BY <1>1
  <2>3. x = (s \o q)[i + Len(s)]
    BY <2>1, <2>2, <1>2
  <2> QED
    BY <2>2, <2>3, <1>2 DEF Members
<1> QED
  BY <1>3, <1>4, <1>5

LEMMA JoinedDistinct ==
  ASSUME NEW s \in Seq(Items), NEW q \in Seq(Items), Distinct(s), Distinct(q),
         \A x \in Members(q) : x \notin Members(s)
  PROVE  Distinct(s \o q)
<1>1. Len(s) \in Nat /\ Len(q) \in Nat
  BY LenProperties
<1>2. /\ Len(s \o q) = Len(s) + Len(q)
      /\ \A i \in 1..(Len(s) + Len(q)) : (s \o q)[i] = IF i <= Len(s) THEN s[i] ELSE q[i - Len(s)]
  BY ConcatProperties
<1>3. SUFFICES ASSUME NEW i \in 1..(Len(s) + Len(q)), NEW j \in 1..(Len(s) + Len(q)),
                      (s \o q)[i] = (s \o q)[j]
               PROVE  i = j
  BY <1>2 DEF Distinct
<1> DEFINE Low(k) == k <= Len(s)
<1>4. ASSUME NEW k \in 1..(Len(s) + Len(q)), ~Low(k)
      PROVE  k - Len(s) \in 1..Len(q) /\ (s \o q)[k] = q[k - Len(s)]
  BY <1>1, <1>2, <1>4
<1>5. ASSUME NEW k \in 1..(Len(s) + Len(q)), Low(k)
      PROVE  k \in 1..Len(s) /\ (s \o q)[k] = s[k]
  BY <1>1, <1>2, <1>5
<1>6. CASE Low(i) /\ Low(j)
  BY <1>3, <1>5, <1>6 DEF Distinct
<1>7. CASE ~Low(i) /\ ~Low(j)
  <2>1. i - Len(s) = j - Len(s)
    BY <1>3, <1>4, <1>7 DEF Distinct
  <2> QED
    BY <2>1, <1>1
<1>8. CASE Low(i) /\ ~Low(j)
  <2>1. (s \o q)[i] \in Members(s) /\ (s \o q)[j] \in Members(q)
    BY <1>4, <1>5, <1>8 DEF Members
  <2> QED
    BY <2>1, <1>3
<1>9. CASE ~Low(i) /\ Low(j)
  <2>1. (s \o q)[j] \in Members(s) /\ (s \o q)[i] \in Members(q)
    BY <1>4, <1>5, <1>9 DEF Members
  <2> QED
    BY <2>1, <1>3
<1> QED
  BY <1>6, <1>7, <1>8, <1>9

LEMMA Typing ==
  ASSUME TypeOK
  PROVE  /\ size \in Nat /\ size # 0 /\ shape \subseteq Keys
         /\ page \in Nat /\ MaxPage \in Nat
         /\ Len(items) \in Nat /\ items \in [1..Len(items) -> Items]
         /\ MaxChanges \in Nat /\ changes \in Nat /\ MaxFaults \in Nat /\ faults \in Nat
<1>1. size \in Nat /\ size # 0
  BY ListingAssumption DEF TypeOK
<1>2. shape \subseteq Keys
  <2>1. shape \in Shapes /\ Shapes \subseteq SUBSET Keys
    BY ListingAssumption DEF TypeOK
  <2> QED
    BY <2>1
<1>3. MaxPage \in Nat /\ MaxChanges \in Nat /\ MaxFaults \in Nat
  BY ListingAssumption
<1>4. page \in Nat /\ changes \in Nat /\ faults \in Nat
  <2>1. page \in 0..MaxPage /\ changes \in 0..MaxChanges /\ faults \in 0..MaxFaults
    BY DEF TypeOK
  <2> QED
    BY <2>1, <1>3
<1>5. items \in Seq(Items)
  BY DEF TypeOK
<1> QED
  BY <1>1, <1>2, <1>3, <1>4, <1>5, LenProperties

(* The fields of an answer, and has_more of one that lacks nothing.         *)
LEMMA MetaOfAnswer ==
  ASSUME TypeOK
  PROVE  /\ extractPaginationMeta(Answer) \in Meta \cup {NoMeta}
         /\ Complete => /\ extractPaginationMeta(Answer) # NoMeta
                        /\ extractPaginationMeta(Answer).has_more <=> page * size + size < Len(items)
<1>1. size \in Nat \ {0} /\ page \in Nat /\ Len(items) \in Nat /\ shape \subseteq Keys
  BY Typing
<1>2. page * size \in Nat /\ (page + 1) * size = page * size + size
  BY <1>1, Offsets
<1>3. /\ DOMAIN Answer = shape
      /\ "Total" \in shape => Answer["Total"] = Len(items)
      /\ "Page" \in shape => Answer["Page"] = page
      /\ "PageSize" \in shape => Answer["PageSize"] = size
  BY DEF Answer
<1>4. /\ numField(Answer, "Page") \in Nat
      /\ numField(Answer, "PageSize") \in Nat
      /\ Complete => numField(Answer, "Page") = page /\ numField(Answer, "PageSize") = size
  BY <1>1, <1>3 DEF numField, Complete, Keys
<1> DEFINE more == /\ numField(Answer, "PageSize") > 0
                   /\ (numField(Answer, "Page") + 1) * numField(Answer, "PageSize") < Answer["Total"]
<1>5. extractPaginationMeta(Answer) =
        IF "Total" \notin shape THEN NoMeta
        ELSE [count |-> Len(items), page |-> numField(Answer, "Page"),
              page_size |-> numField(Answer, "PageSize"), has_more |-> more]
  BY <1>3 DEF extractPaginationMeta, WithPagination
<1>6. more \in BOOLEAN
  OBVIOUS
<1>7. Complete => (more <=> page * size + size < Len(items))
  BY <1>1, <1>2, <1>3, <1>4 DEF Complete, Keys
<1> HIDE DEF more
<1>8. extractPaginationMeta(Answer) \in Meta \cup {NoMeta}
  BY <1>1, <1>4, <1>5, <1>6 DEF Meta
<1>9. ASSUME Complete
      PROVE  /\ extractPaginationMeta(Answer) # NoMeta
             /\ extractPaginationMeta(Answer).has_more <=> page * size + size < Len(items)
  <2>1. "Total" \in shape
    BY <1>9 DEF Complete, Keys
  <2>2. extractPaginationMeta(Answer) \in Meta /\ extractPaginationMeta(Answer).has_more = more
    BY <2>1, <1>1, <1>4, <1>5, <1>6 DEF Meta
  <2> QED
    BY <2>2, <1>7, <1>9, ListingAssumption
<1> QED
  BY <1>8, <1>9

LEMMA ExitCodes ==
  ASSUME NEW code
  PROVE  ExitCode(code) \in {0, 2, 3, 4, 5} /\ (code = "OK" => ExitCode(code) = 0)
  BY DEF ExitCode, Recoverable, ConfigAuth, Validation

LEMMA ReadErrorsFail ==
  ASSUME NEW code \in ReadErrors
  PROVE  ExitCode(code) # 0
<1>1. code # "OK"
  BY DEF ReadErrors, httpError
<1> QED
  BY <1>1 DEF ExitCode, Recoverable, ConfigAuth, Validation

(* The types, and the sequence of items stays one of distinct items.        *)
LEMMA Typed ==
  ASSUME IInv, [Next]_vars
  PROVE  TypeOK' /\ Distinct(items)'
<1> USE DEF IInv, OrderInv
<1>1. /\ Len(items) \in Nat /\ items \in [1..Len(items) -> Items]
      /\ size \in Nat \ {0} /\ page \in Nat
  BY Typing
<1>2. CASE ExecuteRead
  <2>1. shown' \in Seq(Items)
    BY <1>1, <1>2, Paginated, ConcatProperties DEF ExecuteRead, TypeOK
  <2>2. envelope'.exit = 0 /\ envelope'.meta \in Meta \cup {NoMeta}
    BY <1>2, MetaOfAnswer, ExitCodes DEF ExecuteRead
  <2> QED
    BY <1>2, <2>1, <2>2 DEF ExecuteRead, TypeOK, tenant, Distinct
<1>3. CASE ReadFails
  <2>1. faults' \in 0..MaxFaults
    BY <1>3, Typing DEF ReadFails, TypeOK
  <2>2. envelope'.exit \in {0, 2, 3, 4, 5} /\ envelope'.meta \in Meta \cup {NoMeta}
    BY <1>3, ExitCodes DEF ReadFails
  <2> QED
    BY <1>3, <2>1, <2>2 DEF ReadFails, TypeOK, tenant, Distinct
<1>4. CASE NextPage
  <2>1. page' \in 0..MaxPage
    BY <1>4, Typing DEF NextPage, TypeOK
  <2> QED
    BY <1>4, <2>1 DEF NextPage, TypeOK, tenant, Distinct
<1>5. CASE AskAgain
  BY <1>5 DEF AskAgain, TypeOK, tenant, Distinct
<1>6. CASE Finish
  BY <1>6 DEF Finish, TypeOK, tenant, Distinct
<1>7. ASSUME NEW x \in Items, NEW k \in 1..Len(items) + 1, Add(x, k)
      PROVE  TypeOK' /\ Distinct(items)'
  <2>1. items' = [i \in 1..Len(items) + 1 |->
                    IF i < k THEN items[i] ELSE IF i = k THEN x ELSE items[i - 1]]
    BY <1>7 DEF Add, Change
  <2>2. \A i \in 1..Len(items) + 1 : items'[i] \in Items
    BY <1>1, <2>1
  <2>3. items' \in Seq(Items) /\ Len(items') = Len(items) + 1
    BY <1>1, <2>1, <2>2
  <2>4. \A i \in 1..Len(items) : items[i] # x
    BY <1>7 DEF Add, Members
  <2>5. Distinct(items')
    <3>1. SUFFICES ASSUME NEW i \in 1..Len(items) + 1, NEW j \in 1..Len(items) + 1,
                          items'[i] = items'[j]
                   PROVE  i = j
      BY <2>3 DEF Distinct
    <3> QED
      BY <3>1, <2>1, <2>4, <1>1 DEF Distinct
  <2>6. changes' \in 0..MaxChanges /\ shifts' \subseteq {"added", "removed"}
    <3>1. changes \in Nat /\ changes < MaxChanges /\ changes' = changes + 1 /\ MaxChanges \in Nat
      BY <1>7, Typing DEF Add, Change
    <3>2. shifts \subseteq {"added", "removed"} /\ shifts' \subseteq shifts \cup {"added", "removed"}
      BY <1>7 DEF Add, Change, TypeOK
    <3> QED
      BY <3>1, <3>2
  <2> QED
    BY <1>7, <2>3, <2>5, <2>6 DEF Add, Change, TypeOK
<1>8. ASSUME NEW k \in 1..Len(items), Remove(k)
      PROVE  TypeOK' /\ Distinct(items)'
  <2>1. items' = [i \in 1..Len(items) - 1 |-> IF i < k THEN items[i] ELSE items[i + 1]]
    BY <1>8 DEF Remove, Change
  <2>2. \A i \in 1..Len(items) - 1 : items'[i] \in Items
    BY <1>1, <2>1
  <2>3. items' \in Seq(Items) /\ Len(items') = Len(items) - 1
    BY <1>1, <2>1, <2>2
  <2>4. Distinct(items')
    <3>1. SUFFICES ASSUME NEW i \in 1..Len(items) - 1, NEW j \in 1..Len(items) - 1,
                          items'[i] = items'[j]
                   PROVE  i = j
      BY <2>3 DEF Distinct
    <3> QED
      BY <3>1, <2>1, <1>1 DEF Distinct
  <2>5. changes' \in 0..MaxChanges /\ shifts' \subseteq {"added", "removed"}
    <3>1. changes \in Nat /\ changes < MaxChanges /\ changes' = changes + 1 /\ MaxChanges \in Nat
      BY <1>8, Typing DEF Remove, Change
    <3>2. shifts \subseteq {"added", "removed"} /\ shifts' \subseteq shifts \cup {"added", "removed"}
      BY <1>8 DEF Remove, Change, TypeOK
    <3> QED
      BY <3>1, <3>2
  <2> QED
    BY <1>8, <2>3, <2>4, <2>5 DEF Remove, Change, TypeOK
<1>9. CASE UNCHANGED vars
  BY <1>9 DEF vars, tenant, TypeOK, Distinct
<1> QED
  BY <1>2, <1>3, <1>4, <1>5, <1>6, <1>7, <1>8, <1>9 DEF Next, Walk

(* A page that is read moves the walk on by one page; nothing else does.    *)
LEMMA BehindMoves ==
  ASSUME TypeOK
  PROVE  /\ Behind \in Nat
         /\ ExecuteRead => Behind = page * size /\ Behind' = page * size + size
         /\ ReadFails \/ NextPage \/ AskAgain \/ Finish => Behind' = Behind
         /\ \A s, what : Change(s, what) => Behind' = Behind
<1>1. size \in Nat /\ page \in Nat /\ page * size \in Nat /\ (page + 1) * size = page * size + size
  BY Typing, Offsets
<1>2. Behind \in Nat
  BY <1>1 DEF Behind
<1>3. ASSUME ExecuteRead PROVE Behind = page * size /\ Behind' = page * size + size
  <2>1. pc = "ask" /\ pc' = "told" /\ page' = page /\ size' = size /\ envelope'.exit = 0
    BY <1>3, ExitCodes DEF ExecuteRead, tenant
  <2> QED
    BY <2>1, <1>1 DEF Behind
<1>4. ASSUME ReadFails PROVE Behind' = Behind
  <2>1. pc = "ask" /\ page' = page /\ size' = size /\ envelope'.exit # 0
    BY <1>4, ReadErrorsFail DEF ReadFails, tenant
  <2> QED
    BY <2>1, <1>1 DEF Behind
<1>5. ASSUME NextPage PROVE Behind' = Behind
  <2>1. pc = "told" /\ pc' = "ask" /\ page' = page + 1 /\ size' = size /\ envelope.exit = 0
    BY <1>5 DEF NextPage, tenant
  <2> QED
    BY <2>1, <1>1 DEF Behind
<1>6. ASSUME AskAgain PROVE Behind' = Behind
  <2>1. pc' = "ask" /\ page' = page /\ size' = size /\ envelope.exit # 0
    BY <1>6 DEF AskAgain, tenant
  <2> QED
    BY <2>1, <1>1 DEF Behind
<1>7. ASSUME Finish PROVE Behind' = Behind
  <2>1. pc = "told" /\ pc' # "ask" /\ page' = page /\ size' = size /\ envelope' = envelope
    BY <1>7 DEF Finish, tenant
  <2> QED
    BY <2>1 DEF Behind
<1>8. ASSUME NEW s, NEW what, Change(s, what) PROVE Behind' = Behind
  BY <1>8 DEF Change, Behind
<1> QED
  BY <1>2, <1>3, <1>4, <1>5, <1>6, <1>7, <1>8

(* Reading a page puts exactly the items at its places behind the walk.     *)
LEMMA PageShown ==
  ASSUME TypeOK, Distinct(items), ExecuteRead
  PROVE  LET q == paginate(items, page, size)
         IN /\ q \in Seq(Items) /\ shown' = shown \o q
            /\ Members(shown') = Members(shown) \cup Members(q)
            /\ \A j \in 1..Len(q) : Behind + j \in 1..Len(items) /\ Behind + j <= Behind'
                                    /\ q[j] = items[Behind + j]
            /\ \A i \in 1..Len(items) : Behind < i /\ i <= Behind' => items[i] \in Members(q)
<1> DEFINE q == paginate(items, page, size)
<1>1. /\ size \in Nat /\ page \in Nat /\ items \in Seq(Items) /\ shown \in Seq(Items)
      /\ Len(items) \in Nat /\ page * size \in Nat
  BY Typing, Offsets DEF TypeOK
<1>2. /\ q \in Seq(Items)
      /\ \A j \in 1..Len(q) : j <= size /\ page * size + j \in 1..Len(items) /\ q[j] = items[page * size + j]
      /\ \A i \in 1..Len(items) : page * size < i /\ i <= page * size + size =>
           i - page * size \in 1..Len(q) /\ q[i - page * size] = items[i]
  BY <1>1, Paginated
<1>3. Behind = page * size /\ Behind' = page * size + size
  BY BehindMoves
<1>4. shown' = shown \o q
  BY DEF ExecuteRead
<1> HIDE DEF q
<1>5. Members(shown') = Members(shown) \cup Members(q)
  BY <1>1, <1>2, <1>4, JoinedMembers
<1>6. \A j \in 1..Len(q) : Behind + j <= Behind'
  BY <1>1, <1>2, <1>3
<1>7. \A i \in 1..Len(items) : Behind < i /\ i <= Behind' => items[i] \in Members(q)
  BY <1>2, <1>3 DEF Members
<1> QED
  BY <1>2, <1>3, <1>4, <1>5, <1>6, <1>7 DEF q

(* What the envelope tells is so, and stays so while things are only added. *)
LEMMA Told ==
  ASSUME IInv, [Next]_vars
  PROVE  NoPageTooMany' /\ ToldInv'
<1> USE DEF IInv
<1>1. size \in Nat /\ page \in Nat /\ page * size \in Nat /\ Len(items) \in Nat
  BY Typing, Offsets
<1>2. CASE ExecuteRead
  <2> DEFINE q == paginate(items, page, size)
  <2>1. NoPageTooMany'
    BY <1>2 DEF ExecuteRead, NoPageTooMany, Complete, tenant
  <2>2. HasMore' /\ Complete => page * size + size < Len(items)
    BY <1>2, MetaOfAnswer DEF ExecuteRead, HasMore
  <2>3. ASSUME ~HasMore', Complete, "removed" \notin shifts, NEW x \in Members(original)
        PROVE  x \in Members(shown')
    <3>1. ~(page * size + size < Len(items))
      BY <1>2, <2>3, MetaOfAnswer DEF ExecuteRead, HasMore
    <3>2. PICK i \in 1..Len(items) : items[i] = x
      BY <2>3 DEF OrderInv, Members
    <3>3. Behind = page * size /\ Behind' = page * size + size
      BY <1>2, BehindMoves
    <3>4. CASE i <= Behind
      <4>1. x \in Members(shown)
        BY <2>3, <3>2, <3>4 DEF OrderInv
      <4> QED
        BY <4>1, <1>2, PageShown DEF OrderInv
    <3>5. CASE ~(i <= Behind)
      <4>1. Behind < i /\ i <= Behind'
        BY <1>1, <3>1, <3>3, <3>5
      <4> QED
        BY <4>1, <3>2, <1>2, PageShown DEF OrderInv
    <3> QED
      BY <3>4, <3>5
  <2>4. UNCHANGED <<items, shape, size, original, page, shifts>>
    BY <1>2 DEF ExecuteRead, tenant
  <2> QED
    BY <2>1, <2>2, <2>3, <2>4 DEF ToldInv, Complete
<1>3. CASE ReadFails
  <2>1. envelope'.exit # 0
    BY <1>3, ReadErrorsFail DEF ReadFails
  <2> QED
    BY <1>3, <2>1 DEF ReadFails, NoPageTooMany, ToldInv, Complete, tenant
<1>4. CASE NextPage
  <2>1. Complete /\ "removed" \notin shifts => (page + 1) * size < Len(items)
    BY <1>1, <1>4, Offsets DEF NextPage, ToldInv
  <2> QED
    BY <1>4, <2>1 DEF NextPage, NoPageTooMany, ToldInv, Complete, tenant
<1>5. CASE AskAgain
  BY <1>5 DEF AskAgain, NoPageTooMany, ToldInv, Complete, tenant
<1>6. CASE Finish
  BY <1>6 DEF Finish, NoPageTooMany, ToldInv, Complete, HasMore, tenant
<1>7. ASSUME NEW x \in Items, NEW k \in 1..Len(items) + 1, Add(x, k)
      PROVE  NoPageTooMany' /\ ToldInv'
  <2>1. Len(items') = Len(items) + 1
    BY <1>1, <1>7 DEF Add, Change
  <2>2. UNCHANGED <<shape, size, original, page, envelope, pc, shown>> /\ shifts \subseteq shifts'
    BY <1>7 DEF Add, Change
  <2>3. NoPageTooMany'
    BY <2>1, <2>2, <1>1 DEF NoPageTooMany, Complete
  <2>4. ToldInv'
    BY <2>1, <2>2, <1>1 DEF ToldInv, Complete, HasMore
  <2> QED
    BY <2>3, <2>4
<1>8. ASSUME NEW k \in 1..Len(items), Remove(k)
      PROVE  NoPageTooMany' /\ ToldInv'
  <2>1. "removed" \in shifts'
    BY <1>8 DEF Remove, Change
  <2> QED
    BY <2>1 DEF NoPageTooMany, ToldInv
<1>9. CASE UNCHANGED vars
  BY <1>9 DEF vars, tenant, NoPageTooMany, ToldInv, Complete, HasMore
<1> QED
  BY <1>2, <1>3, <1>4, <1>5, <1>6, <1>7, <1>8, <1>9 DEF Next, Walk

(* Order is kept by whatever leaves the items and the pages alone.          *)
LEMMA OrderStays ==
  ASSUME IInv, UNCHANGED <<items, original, shown, shifts>>, Behind' = Behind
  PROVE  OrderInv'
BY DEF IInv, OrderInv, Distinct, Members

LEMMA Ordered ==
  ASSUME IInv, [Next]_vars
  PROVE  OrderInv'
<1> USE DEF IInv
<1>1. /\ Len(items) \in Nat /\ items \in [1..Len(items) -> Items] /\ Behind \in Nat
      /\ shown \in Seq(Items)
  BY Typing, BehindMoves DEF TypeOK
<1>2. Distinct(items) /\ Distinct(items)'
  BY Typed DEF OrderInv
<1>3. CASE ExecuteRead
  <2> DEFINE q == paginate(items, page, size)
  <2>1. /\ q \in Seq(Items) /\ shown' = shown \o q
        /\ Members(shown') = Members(shown) \cup Members(q)
        /\ \A j \in 1..Len(q) : Behind + j \in 1..Len(items) /\ Behind + j <= Behind'
                                /\ q[j] = items[Behind + j]
        /\ \A i \in 1..Len(items) : Behind < i /\ i <= Behind' => items[i] \in Members(q)
    BY <1>2, <1>3, PageShown
  <2>2. UNCHANGED <<items, original, shifts>> /\ Behind' \in Nat /\ Behind <= Behind'
    <3>1. Behind' = page * size + size /\ Behind = page * size
      BY <1>3, BehindMoves
    <3>2. page * size \in Nat /\ size \in Nat
      BY Typing, Offsets
    <3> QED
      BY <3>1, <3>2, <1>3 DEF ExecuteRead, tenant
  <2> HIDE DEF q
  <2>3. Len(q) \in Nat
    BY <2>1, LenProperties
  <2>4. ASSUME "removed" \notin shifts, NEW i \in 1..Len(items), i <= Behind',
               items[i] \in Members(original)
        PROVE  items[i] \in Members(shown')
    <3>1. CASE i <= Behind
      BY <2>1, <2>4, <3>1 DEF OrderInv
    <3>2. CASE ~(i <= Behind)
      BY <2>1, <2>4, <3>2, <1>1
    <3> QED
      BY <3>1, <3>2
  <2>5. ASSUME "added" \notin shifts PROVE Distinct(shown')
    <3>1. Distinct(q)
      <4>1. SUFFICES ASSUME NEW i \in 1..Len(q), NEW j \in 1..Len(q), q[i] = q[j] PROVE i = j
        BY DEF Distinct
      <4>2. items[Behind + i] = items[Behind + j]
        BY <4>1, <2>1
      <4>3. Behind + i = Behind + j
        BY <4>2, <2>1, <1>2 DEF Distinct
      <4> QED
        BY <4>3, <1>1, <2>3
    <3>2. ASSUME NEW x \in Members(q) PROVE x \notin Members(shown)
      <4>1. PICK j \in 1..Len(q) : x = q[j]
        BY <3>2 DEF Members
      <4>2. Behind + j \in 1..Len(items) /\ Behind + j > Behind /\ x = items[Behind + j]
        BY <4>1, <2>1, <2>3, <1>1
      <4> QED
        BY <4>2, <2>5 DEF OrderInv
    <3>3. Distinct(shown)
      BY <2>5 DEF OrderInv
    <3> QED
      BY <3>1, <3>2, <3>3, <2>1, <1>1, JoinedDistinct
  <2>6. ASSUME "added" \notin shifts, NEW i \in 1..Len(items), i > Behind'
        PROVE  items[i] \notin Members(shown')
    <3>1. items[i] \notin Members(shown)
      <4>1. i > Behind
        BY <2>2, <2>6, <1>1
      <4> QED
        BY <4>1, <2>6 DEF OrderInv
    <3>2. ASSUME items[i] \in Members(q) PROVE FALSE
      <4>1. PICK j \in 1..Len(q) : items[i] = q[j]
        BY <3>2 DEF Members
      <4>2. i = Behind + j /\ Behind + j <= Behind'
        BY <4>1, <2>1, <1>2 DEF Distinct
      <4> QED
        BY <4>2, <2>2, <2>6, <2>3, <1>1
    <3> QED
      BY <3>1, <3>2, <2>1
  <2>7. "removed" \notin shifts => Members(original) \subseteq Members(items)
    BY DEF OrderInv
  <2>8. /\ Members(original)' = Members(original) /\ Members(items)' = Members(items)
        /\ Members(shown)' = Members(shown') /\ Distinct(shown)' = Distinct(shown')
    BY <2>2 DEF Members, Distinct
  <2>9. "removed" \notin shifts' =>
          /\ (Members(original) \subseteq Members(items))'
          /\ (\A i \in 1..Len(items) :
                i <= Behind /\ items[i] \in Members(original) => items[i] \in Members(shown))'
    BY <2>2, <2>4, <2>7, <2>8
  <2>10. "added" \notin shifts' =>
           /\ Distinct(shown)'
           /\ (\A i \in 1..Len(items) : i > Behind => items[i] \notin Members(shown))'
    BY <2>2, <2>5, <2>6, <2>8
  <2> QED
    BY <1>2, <2>9, <2>10 DEF OrderInv
<1>4. CASE ReadFails
  BY <1>4, OrderStays, BehindMoves DEF ReadFails, tenant
<1>5. CASE NextPage
  BY <1>5, OrderStays, BehindMoves DEF NextPage, tenant
<1>6. CASE AskAgain
  BY <1>6, OrderStays, BehindMoves DEF AskAgain, tenant
<1>7. CASE Finish
  BY <1>7, OrderStays, BehindMoves DEF Finish, tenant
<1>8. ASSUME NEW x \in Items, NEW k \in 1..Len(items) + 1, Add(x, k)
      PROVE  OrderInv'
  <2>1. /\ Len(items') = Len(items) + 1
        /\ \A i \in 1..Len(items) + 1 :
             items'[i] = IF i < k THEN items[i] ELSE IF i = k THEN x ELSE items[i - 1]
        /\ UNCHANGED <<original, shown>> /\ shifts' = shifts \cup {"added"}
        /\ Behind' = Behind
    <3>1. Behind' = Behind
      BY <1>8, BehindMoves DEF Add
    <3> QED
      BY <1>1, <1>8, <3>1 DEF Add, Change
  <2>2. ASSUME "removed" \notin shifts', NEW y \in Members(original)
        PROVE  y \in Members(items')
    <3>1. PICK i \in 1..Len(items) : y = items[i]
      BY <2>1, <2>2 DEF OrderInv, Members
    <3>2. CASE i < k
      <4>1. i \in 1..Len(items') /\ y = items'[i]
        BY <3>1, <3>2, <2>1, <1>1
      <4> QED
        BY <4>1 DEF Members
    <3>3. CASE ~(i < k)
      <4>1. i + 1 \in 1..Len(items') /\ ~(i + 1 < k) /\ i + 1 # k /\ i + 1 - 1 = i
        BY <3>3, <2>1, <1>1
      <4>2. y = items'[i + 1]
        BY <4>1, <3>1, <2>1
      <4> QED
        BY <4>1, <4>2 DEF Members
    <3> QED
      BY <3>2, <3>3
  <2>3. ASSUME "removed" \notin shifts', NEW i \in 1..Len(items'), i <= Behind',
               items'[i] \in Members(original)
        PROVE  items'[i] \in Members(shown')
    <3>1. "removed" \notin shifts
      BY <2>1, <2>3
    <3>2. CASE i < k
      <4>1. i \in 1..Len(items) /\ items'[i] = items[i]
        BY <3>2, <2>1, <1>1
      <4> QED
        BY <4>1, <3>1, <2>1, <2>3 DEF OrderInv
    <3>3. CASE i = k
      <4>1. x \notin Members(items) /\ Members(original) \subseteq Members(items)
        BY <1>8, <3>1 DEF Add, OrderInv
      <4>2. items'[i] = x
        BY <3>3, <2>1, <1>1
      <4> QED
        BY <4>1, <4>2, <2>3
    <3>4. CASE ~(i < k) /\ i # k
      <4>1. i - 1 \in 1..Len(items) /\ items'[i] = items[i - 1] /\ i - 1 <= Behind
        BY <3>4, <2>1, <2>3, <1>1
      <4> QED
        BY <4>1, <3>1, <2>1, <2>3 DEF OrderInv
    <3> QED
      BY <3>2, <3>3, <3>4
  <2>4. "added" \in shifts'
    BY <2>1
  <2>5. Members(original)' = Members(original) /\ Members(items)' = Members(items')
        /\ Members(shown)' = Members(shown')
    BY <2>1 DEF Members
  <2>6. "removed" \notin shifts' => (Members(original) \subseteq Members(items))'
    BY <2>2, <2>5
  <2>7. "removed" \notin shifts' =>
          (\A i \in 1..Len(items) :
             i <= Behind /\ items[i] \in Members(original) => items[i] \in Members(shown))'
    BY <2>3, <2>5
  <2> QED
    BY <1>2, <2>4, <2>6, <2>7 DEF OrderInv
<1>9. ASSUME NEW k \in 1..Len(items), Remove(k)
      PROVE  OrderInv'
  <2>1. /\ Len(items') = Len(items) - 1
        /\ \A i \in 1..Len(items) - 1 : items'[i] = IF i < k THEN items[i] ELSE items[i + 1]
        /\ UNCHANGED <<original, shown>> /\ shifts' = shifts \cup {"removed"}
        /\ Behind' = Behind
    <3>1. Behind' = Behind
      BY <1>9, BehindMoves DEF Remove
    <3> QED
      BY <1>1, <1>9, <3>1 DEF Remove, Change
  <2>2. ASSUME "added" \notin shifts', NEW i \in 1..Len(items'), i > Behind'
        PROVE  items'[i] \notin Members(shown')
    <3>1. "added" \notin shifts
      BY <2>1, <2>2
    <3>2. PICK j \in 1..Len(items) : items'[i] = items[j] /\ j >= i
      BY <2>1, <1>1
    <3>3. j > Behind
      BY <3>2, <2>1, <2>2, <1>1
    <3> QED
      BY <3>1, <3>2, <3>3, <2>1 DEF OrderInv
  <2>3. "added" \notin shifts' => Distinct(shown')
    BY <2>1 DEF OrderInv
  <2>4. "removed" \in shifts'
    BY <2>1
  <2> QED
    BY <1>2, <2>2, <2>3, <2>4 DEF OrderInv, Distinct
<1>10. CASE UNCHANGED vars
  <2>1. Behind' = Behind
    BY <1>10 DEF vars, tenant, Behind
  <2> QED
    BY <2>1, <1>10, OrderStays DEF vars, tenant
<1> QED
  BY <1>3, <1>4, <1>5, <1>6, <1>7, <1>8, <1>9, <1>10 DEF Next, Walk

LEMMA Starting == Init => IInv
<1> SUFFICES ASSUME Init PROVE IInv
  OBVIOUS
<1>1. items \in Seq(Items) /\ Distinct(items) /\ original = items
  BY ListingAssumption DEF Init
<1>2. Len(items) \in Nat /\ size \in Nat /\ MaxPage \in Nat /\ MaxChanges \in Nat /\ MaxFaults \in Nat
  BY <1>1, ListingAssumption, LenProperties DEF Init
<1>3. envelope.exit = 0 /\ envelope.meta = NoMeta /\ page = 0 /\ pc = "ask" /\ shown = <<>>
  BY DEF Init
<1>4. TypeOK
  BY <1>1, <1>2, <1>3 DEF Init, TypeOK
<1>5. NoPageTooMany /\ ToldInv
  BY <1>3 DEF NoPageTooMany, ToldInv
<1>6. Behind = 0
  BY <1>2, <1>3 DEF Behind
<1>7. Members(shown) = {} /\ Distinct(shown)
  BY <1>3 DEF Members, Distinct
<1>8. OrderInv
  BY <1>1, <1>2, <1>6, <1>7 DEF OrderInv
<1> QED
  BY <1>4, <1>5, <1>8 DEF IInv

(* The strengthening is inductive. *)
THEOREM Inductive == Spec => []IInv
<1>1. Init => IInv
  BY Starting
<1>2. IInv /\ [Next]_vars => IInv'
  BY Typed, Told, Ordered DEF IInv
<1> QED
  BY <1>1, <1>2, PTL DEF Spec

(* Type correctness. *)
THEOREM TypeCorrect == Spec => []TypeOK
<1>1. IInv => TypeOK
  BY DEF IInv
<1> QED
  BY <1>1, Inductive, PTL

(* However a search changes under the walk, no page behind the last is      *)
(* asked for unless something was removed.                                  *)
THEOREM NoWaste == Spec => []NoPageTooMany
<1>1. IInv => NoPageTooMany
  BY DEF IInv
<1> QED
  BY <1>1, Inductive, PTL

(* Only additions make a walk show an item twice. *)
THEOREM ShownOnce == Spec => []OnlyAdditionsRepeat
<1>1. IInv => OnlyAdditionsRepeat
  BY DEF IInv, OrderInv, OnlyAdditionsRepeat
<1> QED
  BY <1>1, Inductive, PTL

(* A walk that is done ended with the envelope of a read.                   *)
DoneWell == pc = "done" => envelope.exit = 0 /\ ~HasMore

LEMMA DoneIsWell == Spec => []DoneWell
<1>1. Init => DoneWell
  BY DEF Init, DoneWell
<1>2. DoneWell /\ [Next]_vars => DoneWell'
  <2> SUFFICES ASSUME DoneWell, [Next]_vars PROVE DoneWell'
    OBVIOUS
  <2>1. CASE Finish
    BY <2>1 DEF Finish, DoneWell, HasMore
  <2>2. CASE ExecuteRead \/ ReadFails \/ NextPage \/ AskAgain
    BY <2>2 DEF ExecuteRead, ReadFails, NextPage, AskAgain, DoneWell
  <2>3. CASE ~Walk
    BY <2>3 DEF Next, Add, Remove, Change, vars, tenant, DoneWell, HasMore
  <2> QED
    BY <2>1, <2>2, <2>3 DEF Walk
<1> QED
  BY <1>1, <1>2, PTL DEF Spec

(* Only removals make a walk that ended well miss what was there when it    *)
(* began.                                                                   *)
THEOREM ShownAtAll == Spec => []OnlyRemovalsHide
<1>1. IInv /\ DoneWell => OnlyRemovalsHide
  BY DEF IInv, ToldInv, DoneWell, OnlyRemovalsHide
<1> QED
  BY <1>1, Inductive, DoneIsWell, PTL
=============================================================================
