-------------------------- MODULE MessageStoreProofs --------------------------
(***************************************************************************)
(* Proofs about MessageStore for any number of messages and of losses, any *)
(* page size and any mix of HTTP and WebSocket senders.                    *)
(***************************************************************************)
EXTENDS MessageStore, SequenceTheorems, TLAPS

\* Appending to a sequence, or inserting into it, adds one element.
LEMMA AppendedSet ==
    ASSUME NEW S, NEW s \in Seq(S), NEW x \in S
    PROVE  ToSet(Append(s, x)) = ToSet(s) \cup {x}
<1>1. /\ Append(s, x) \in Seq(S)
      /\ Len(Append(s, x)) = Len(s) + 1
      /\ \A i \in 1..Len(s) : Append(s, x)[i] = s[i]
      /\ Append(s, x)[Len(s) + 1] = x
  OBVIOUS
<1>2. /\ DOMAIN Append(s, x) = 1..Len(s) + 1
      /\ DOMAIN s = 1..Len(s)
      /\ Len(s) \in Nat
  OBVIOUS
<1>3. 1..Len(s) + 1 = (1..Len(s)) \cup {Len(s) + 1}
  BY <1>2
<1> HIDE DEF ToSet
<1>4. \A y : y \in ToSet(Append(s, x)) <=> y \in ToSet(s) \cup {x}
  BY <1>1, <1>2, <1>3 DEF ToSet
<1> QED
  BY <1>4

\* t is s with x between its first k entries and the others.
IsInserted(t, s, k, x) ==
    /\ Len(t) = Len(s) + 1
    /\ \A i \in 1..k : t[i] = s[i]
    /\ t[k + 1] = x
    /\ \A i \in 1..Len(s) - k : t[k + 1 + i] = s[k + i]

LEMMA InsertedAt ==
    ASSUME NEW S, NEW s \in Seq(S), NEW x \in S, NEW k \in 0..Len(s)
    PROVE  /\ Inserted(s, k, x) \in Seq(S)
           /\ IsInserted(Inserted(s, k, x), s, k, x)
<1> DEFINE a == SubSeq(s, 1, k)
           b == SubSeq(s, k + 1, Len(s))
           t == Inserted(s, k, x)
<1>1. t = a \o <<x>> \o b
  BY DEF Inserted
<1>2. /\ a \in Seq(S) /\ Len(a) = k /\ \A i \in 1..k : a[i] = s[i]
      /\ b \in Seq(S) /\ Len(b) = Len(s) - k
      /\ \A i \in 1..Len(s) - k : b[i] = s[k + i]
      /\ Len(s) \in Nat /\ k \in Nat /\ k <= Len(s)
  OBVIOUS
<1> HIDE DEF a, b, t
<1>3. /\ t \in Seq(S) /\ Len(t) = Len(s) + 1
      /\ \A i \in 1..k : t[i] = a[i]
      /\ t[k + 1] = x
      /\ \A i \in 1..Len(s) - k : t[k + 1 + i] = b[i]
  <2> DEFINE c == a \o <<x>>
  <2>1. /\ c \in Seq(S) /\ Len(c) = k + 1 /\ c[k + 1] = x
        /\ \A i \in 1..k : c[i] = a[i]
    BY <1>2
  <2>2. t = c \o b
    BY <1>1
  <2> HIDE DEF c
  <2>3. /\ t \in Seq(S) /\ Len(t) = Len(c) + Len(b)
        /\ \A i \in 1..Len(c) : t[i] = c[i]
        /\ \A i \in 1..Len(b) : t[Len(c) + i] = b[i]
    <3>1. /\ t \in Seq(S) /\ Len(t) = Len(c) + Len(b)
          /\ \A i \in 1..Len(c) + Len(b) :
                t[i] = IF i <= Len(c) THEN c[i] ELSE b[i - Len(c)]
      <4>1. c \in Seq(S) /\ b \in Seq(S)
        BY <1>2, <2>1
      <4>2. /\ c \o b \in Seq(S) /\ Len(c \o b) = Len(c) + Len(b)
            /\ \A i \in 1..Len(c) + Len(b) :
                  (c \o b)[i] = IF i <= Len(c) THEN c[i] ELSE b[i - Len(c)]
        BY <4>1, ConcatProperties, Zenon
      <4> QED
        BY <2>2, <4>2, Zenon
    <3>2. ASSUME NEW i \in 1..Len(b) PROVE t[Len(c) + i] = b[i]
      <4>1. /\ Len(c) + i \in 1..Len(c) + Len(b)
            /\ ~(Len(c) + i <= Len(c)) /\ Len(c) + i - Len(c) = i
        BY <1>2, <2>1
      <4> QED
        BY <3>1, <4>1
    <3>3. \A i \in 1..Len(c) : t[i] = c[i]
      BY <1>2, <2>1, <3>1
    <3> QED
      BY <3>1, <3>2, <3>3
  <2>4. t \in Seq(S) /\ Len(t) = Len(s) + 1
    BY <1>2, <2>1, <2>3
  <2>5. \A i \in 1..k : t[i] = a[i]
    <3>1. \A i \in 1..k : i \in 1..Len(c)
      BY <1>2, <2>1
    <3> QED
      BY <2>1, <2>3, <3>1, Zenon
  <2>6. t[k + 1] = x
    <3>1. k + 1 \in 1..Len(c)
      BY <1>2, <2>1
    <3> QED
      BY <2>1, <2>3, <3>1, Zenon
  <2>7. \A i \in 1..Len(s) - k : t[k + 1 + i] = b[i]
    BY <1>2, <2>1, <2>3, Zenon
  <2> QED
    BY <2>4, <2>5, <2>6, <2>7
<1> QED
  BY <1>2, <1>3 DEF t, IsInserted

LEMMA InsertedSet ==
    ASSUME NEW S, NEW s \in Seq(S), NEW x \in S, NEW k \in 0..Len(s)
    PROVE  Inserted(s, k, x) \in Seq(S) /\ ToSet(Inserted(s, k, x)) = ToSet(s) \cup {x}
<1> DEFINE t == Inserted(s, k, x)
<1>2. Len(s) \in Nat /\ k \in Nat /\ k <= Len(s)
  OBVIOUS
<1>0. t \in Seq(S) /\ IsInserted(t, s, k, x)
  BY InsertedAt
<1> HIDE DEF t
<1>3. /\ t \in Seq(S) /\ Len(t) = Len(s) + 1
      /\ \A i \in 1..k : t[i] = s[i]
      /\ t[k + 1] = x
      /\ \A i \in 1..Len(s) - k : t[k + 1 + i] = s[k + i]
  BY <1>0 DEF IsInserted
<1>4. ASSUME NEW i \in 1..Len(s) + 1 PROVE t[i] \in ToSet(s) \cup {x}
  <2>1. CASE i <= k
    BY <1>2, <1>3, <2>1 DEF ToSet
  <2>2. CASE i = k + 1
    BY <1>3, <2>2
  <2>3. CASE i > k + 1
    <3>1. i - k - 1 \in 1..Len(s) - k /\ i = k + 1 + (i - k - 1)
      BY <1>2, <2>3
    <3>2. t[i] = s[k + (i - k - 1)]
      BY <1>2, <1>3, <3>1
    <3>3. k + (i - k - 1) \in 1..Len(s)
      BY <1>2, <3>1
    <3> QED
      BY <3>2, <3>3 DEF ToSet
  <2> QED
    BY <1>2, <2>1, <2>2, <2>3
<1>5. ASSUME NEW i \in 1..Len(s) PROVE s[i] \in ToSet(t)
  <2>1. CASE i <= k
    <3>1. i \in 1..k
      BY <1>2, <2>1
    <3>2. t[i] = s[i]
      BY <1>3, <3>1
    <3>3. i \in DOMAIN t
      BY <1>2, <1>3
    <3> QED
      BY <3>2, <3>3 DEF ToSet
  <2>2. CASE i > k
    <3>1. i - k \in 1..Len(s) - k /\ k + (i - k) = i
      BY <1>2, <2>2
    <3>2. t[k + 1 + (i - k)] = s[i]
      BY <1>2, <1>3, <3>1
    <3>3. k + 1 + (i - k) \in 1..Len(t)
      BY <1>2, <1>3, <3>1
    <3>4. k + 1 + (i - k) \in DOMAIN t
      BY <1>3, <3>3
    <3> QED
      BY <3>2, <3>4 DEF ToSet
  <2> QED
    BY <1>2, <2>1, <2>2
<1>6. x \in ToSet(t)
  <2>1. k + 1 \in DOMAIN t
    BY <1>2, <1>3
  <2> QED
    BY <1>3, <2>1 DEF ToSet
<1>7. ToSet(t) = {t[i] : i \in 1..Len(s) + 1} /\ ToSet(s) = {s[i] : i \in 1..Len(s)}
  BY <1>3 DEF ToSet
<1>8. ToSet(t) = ToSet(s) \cup {x}
  BY <1>4, <1>5, <1>6, <1>7
<1> QED
  BY <1>3, <1>8 DEF t

\* What a page holds, of a sequence that starts with the one it was cut from.
LEMMA PageHolds ==
    ASSUME NEW S, NEW s \in Seq(S), offset \in Nat, limit \in Nat
    PROVE  /\ PageOf(s) \in Seq(S)
           /\ offset >= Len(s) => PageOf(s) = <<>>
           /\ offset < Len(s) /\ limit # 0 => PageOf(s) # <<>>
           /\ Len(PageOf(s)) + offset <= Len(s) \/ Len(PageOf(s)) = 0
           /\ \A i \in 1..Len(PageOf(s)) : PageOf(s)[i] = s[offset + i]
<1> DEFINE n == IF offset + limit < Len(s) THEN offset + limit ELSE Len(s)
<1>1. /\ Len(s) \in Nat /\ n \in Nat
      /\ n <= Len(s) /\ PageOf(s) = SubSeq(s, offset + 1, n)
      /\ offset < Len(s) /\ limit # 0 => offset < n
  BY DEF PageOf
<1> HIDE DEF n
<1>2. \A i \in offset + 1..n : s[i] \in S
  BY <1>1
<1>3. /\ PageOf(s) \in Seq(S)
      /\ Len(PageOf(s)) = IF offset + 1 <= n THEN n - (offset + 1) + 1 ELSE 0
      /\ \A i \in 1..n - (offset + 1) + 1 :
            PageOf(s)[i] = s[(offset + 1) + i - 1]
  BY <1>1, <1>2, SubSeqProperties
<1>4. ASSUME NEW i \in 1..Len(PageOf(s)) PROVE PageOf(s)[i] = s[offset + i]
  <2>1. i \in 1..n - (offset + 1) + 1 /\ (offset + 1) + i - 1 = offset + i
    BY <1>1, <1>3
  <2>2. PageOf(s)[i] = s[(offset + 1) + i - 1]
    BY <1>3, <2>1
  <2> QED
    BY <2>1, <2>2
<1>5. offset >= Len(s) => Len(PageOf(s)) = 0
  BY <1>1, <1>3
<1>6. offset < Len(s) /\ limit # 0 => Len(PageOf(s)) > 0
  BY <1>1, <1>3
<1> QED
  BY <1>1, <1>3, <1>4, <1>5, <1>6

\* The same of a range, which is the whole of s for a limit of 0 at the start.
LEMMA RangeHolds ==
    ASSUME NEW S, NEW s \in Seq(S), offset \in Nat, limit \in Nat
    PROVE  /\ RangeOf(s) \in Seq(S)
           /\ offset < Len(s) /\ (limit # 0 \/ offset = 0) => RangeOf(s) # <<>>
           /\ \A i \in 1..Len(RangeOf(s)) : RangeOf(s)[i] = s[offset + i]
           /\ limit = 0 /\ offset = 0 => RangeOf(s) = s
<1>1. CASE limit = 0 /\ offset = 0
  BY <1>1 DEF RangeOf
<1>2. CASE ~(limit = 0 /\ offset = 0)
  BY <1>2, PageHolds DEF RangeOf
<1> QED
  BY <1>1, <1>2

LEMMA RowsHold ==
    ASSUME NEW S, NEW s \in Seq(S), offset \in Nat, limit \in Nat
    PROVE  RowsOf(s) \in Seq(S)
<1>1. CASE limit = 0
  <2>1. \A i \in offset + 1..Len(s) : s[i] \in S
    OBVIOUS
  <2>2. SubSeq(s, offset + 1, Len(s)) \in Seq(S)
    BY <2>1
  <2> QED
    BY <1>1, <2>2 DEF RowsOf
<1>2. CASE limit # 0
  BY <1>2, PageHolds DEF RowsOf
<1> QED
  BY <1>1, <1>2

--------------------------------------------------------------------------------
(* What each step does to the two stores.                                  *)

LEMMA CreateRowAdds ==
    ASSUME TypeOK, NEW m \in Messages, CreateRow(m)
    PROVE  table' \in Seq(Messages) /\ rows' = rows \cup {m}
<1>1. PICK k \in 0..Len(table) :
        table' = Inserted(table, k, m)
  BY DEF CreateRow, InsertRow
<1>2. table \in Seq(Messages)
  BY DEF TypeOK
<1>3. table' \in Seq(Messages) /\ ToSet(table') = ToSet(table) \cup {m}
  BY <1>1, <1>2, InsertedSet
<1>4. rows' = ToSet(table')
  BY DEF rows, ToSet
<1> QED
  BY <1>3, <1>4 DEF rows

LEMMA PushAdds ==
    ASSUME TypeOK, NEW m \in Messages, list' = Append(list, m)
    PROVE  list' \in Seq(Messages) /\ ToSet(list)' = ToSet(list) \cup {m}
<1>1. list \in Seq(Messages)
  BY DEF TypeOK
<1>2. ToSet(Append(list, m)) = ToSet(list) \cup {m}
  BY <1>1, AppendedSet
<1>3. ToSet(list)' = ToSet(Append(list, m))
  BY DEF ToSet
<1> QED
  BY <1>1, <1>2, <1>3

LEMMA Unchanged ==
    /\ UNCHANGED table => rows' = rows
    /\ UNCHANGED list => ToSet(list)' = ToSet(list)
  BY DEF rows, ToSet

LEMMA PageType ==
    ASSUME TypeOK
    PROVE  RangeOf(list) \in Seq(Messages) /\ RowsOf(NewestFirst) \in Seq(Messages)
<1>1. /\ table \in Seq(Messages) /\ list \in Seq(Messages)
      /\ offset \in Nat /\ limit \in Nat
  BY DEF TypeOK
<1>2. NewestFirst \in Seq(Messages)
  <2>1. \A i \in 1..Len(table) : Len(table) - i + 1 \in 1..Len(table)
    BY <1>1
  <2> QED
    BY <1>1, <2>1 DEF NewestFirst, Reverse
<1> QED
  BY <1>1, <1>2, RangeHolds, RowsHold

\* The sends that have a row, by their state.
HaveRow == {"linking", "loading", "pushing", "repushing", "sent"}

LEMMA TypeStep ==
    ASSUME TypeOK, [Next]_vars PROVE TypeOK'
<1> DEFINE RowsOK == {m \in Messages : pc[m] \in HaveRow} \subseteq rows
<1>0. RowsOK
  BY DEF TypeOK, HaveRow
<1>1. ASSUME NEW m \in Messages, CreateRow(m) PROVE TypeOK'
  <2>1. RowsOK'
    <3>1. rows' = rows \cup {m}
      BY <1>1, CreateRowAdds
    <3>2. \A n \in Messages \ {m} : pc'[n] = pc[n]
      BY <1>1 DEF CreateRow, Goto, TypeOK
    <3> QED
      BY <1>0, <3>1, <3>2
  <2> QED
    BY <1>1, <2>1, CreateRowAdds
       DEF CreateRow, Goto, TypeOK, Busy, readVars, HaveRow
<1>2. ASSUME NEW m \in Messages, Push(m) \/ PushAgain(m) PROVE TypeOK'
  <2>1. list' \in Seq(Messages)
    BY <1>2, PushAdds DEF Push, PushAgain, TypeOK
  <2>2. RowsOK'
    BY <1>0, <1>2, Unchanged DEF Push, PushAgain, Goto, TypeOK, HaveRow
  <2> QED
    BY <1>2, <2>1, <2>2
       DEF Push, PushAgain, Goto, TypeOK, Busy, readVars, HaveRow
<1>3. ASSUME NEW m \in Messages,
             Begin(m) \/ LinkLast(m) \/ LoadSender(m) \/ DatabaseFails(m)
      PROVE  TypeOK'
  <2>1. RowsOK'
    BY <1>0, <1>3, Unchanged
       DEF Begin, LinkLast, LoadSender, DatabaseFails, Goto, TypeOK, HaveRow
  <2>2. CASE Begin(m)
    BY <2>1, <2>2 DEF Begin, Goto, TypeOK, Busy, readVars, HaveRow
  <2>3. CASE LinkLast(m)
    BY <2>1, <2>3 DEF LinkLast, Goto, TypeOK, Busy, readVars, HaveRow
  <2>4. CASE LoadSender(m) \/ DatabaseFails(m)
    BY <2>1, <2>4 DEF LoadSender, DatabaseFails, Goto, TypeOK, Busy, readVars,
       HaveRow
  <2> QED
    BY <1>3, <2>2, <2>3, <2>4
<1>4. ASSUME NEW m \in Messages, PushFails(m) \/ Crash(m) PROVE TypeOK'
  <2>1. RowsOK'
    BY <1>0, <1>4, Unchanged DEF PushFails, Crash, Goto, TypeOK, HaveRow, Busy
  <2>2. losses' \in 0..MaxLosses
    BY <1>4, StoreConstants DEF PushFails, Crash, TypeOK
  <2> QED
    BY <1>4, <2>1, <2>2 DEF PushFails, Crash, Goto, TypeOK, Busy, readVars,
       HaveRow
<1>5. CASE KeyExpires
  <2>1. losses' \in 0..MaxLosses
    BY <1>5, StoreConstants DEF KeyExpires, TypeOK
  <2> QED
    BY <1>0, <1>5, <2>1, Unchanged
       DEF KeyExpires, TypeOK, readVars, sendVars, HaveRow
<1>6. CASE StartReading \/ FetchRange \/ FetchRows \/ ReadFails
  <2>0. RowsOK' /\ UNCHANGED <<sendVars, list, losses>>
    BY <1>0, <1>6, Unchanged
       DEF StartReading, FetchRange, FetchRows, ReadFails, sendVars, HaveRow
  <2>1. page' \in Seq(Messages)
    <3>1. page \in Seq(Messages) /\ <<>> \in Seq(Messages)
      BY DEF TypeOK
    <3>2. page' \in {page, <<>>, RangeOf(list), RowsOf(NewestFirst)}
      BY <1>6 DEF StartReading, FetchRange, FetchRows, ReadFails
    <3> QED
      BY <3>1, <3>2, PageType
  <2>2. /\ pager' \in {"asking", "falling", "counting", "failed"}
        /\ limit' \in Nat /\ offset' \in Nat /\ seen' = seen
        /\ due' \in SUBSET Messages
    <3>1. CASE StartReading
      BY <3>1, StoreConstants DEF StartReading, TypeOK
    <3>2. CASE FetchRange \/ FetchRows
      BY <3>2 DEF FetchRange, FetchRows, TypeOK
    <3>3. CASE ReadFails
      BY <3>3 DEF ReadFails, EndReading, TypeOK
    <3> QED
      BY <1>6, <3>1, <3>2, <3>3
  <2> QED
    BY <2>0, <2>1, <2>2 DEF TypeOK, sendVars, HaveRow
<1>7. CASE CountList \/ CountListFails \/ CountRows
  <2>1. /\ losses' \in 0..MaxLosses
        /\ pager' \in {"asking", "recounting", "done"}
        /\ UNCHANGED <<sendVars, list, due>> /\ limit' \in Nat
    BY <1>7, StoreConstants
       DEF CountList, CountListFails, CountRows, Answer, EndReading, TypeOK
  <2>2. /\ page' \in {page, <<>>}
        /\ offset' \in {offset, offset + Len(page), 0}
    BY <1>7 DEF CountList, CountListFails, CountRows, Answer, EndReading
  <2>3. page' \in Seq(Messages) /\ offset' \in Nat
    <3>1. page \in Seq(Messages) /\ offset \in Nat
      BY DEF TypeOK
    <3>2. <<>> \in Seq(Messages) /\ Len(page) \in Nat
      BY <3>1
    <3>3. offset' \in Nat
      BY <2>2, <3>1, <3>2
    <3>4. page' \in Seq(Messages)
      BY <2>2, <3>1, <3>2, Zenon
    <3> QED
      BY <3>3, <3>4
  <2>4. seen' \in SUBSET Messages
    BY <1>7 DEF CountList, CountListFails, CountRows, Answer, TypeOK, ToSet
  <2> QED
    BY <1>0, <2>1, <2>3, <2>4, Unchanged DEF TypeOK, sendVars, HaveRow
<1>8. CASE UNCHANGED vars
  BY <1>0, <1>8, Unchanged DEF vars, TypeOK, HaveRow
<1> QED
  BY <1>1, <1>2, <1>3, <1>4, <1>5, <1>6, <1>7, <1>8 DEF Next, Send, Read

--------------------------------------------------------------------------------
(* The list and the table.                                                 *)

\* While Redis loses nothing, a message is in the list from its first push on.
PushedIsListed ==
    losses = 0 => \A m \in Messages :
                    pc[m] \in {"repushing", "sent"} => m \in ToSet(list)

StoresOK == ListHoldsRows /\ PushedIsListed

LEMMA StoresStep ==
    ASSUME TypeOK, StoresOK, [Next]_vars PROVE StoresOK'
<1>t. /\ {m \in Messages : pc[m] \in HaveRow} \subseteq rows
      /\ pc \in [Messages -> {"new", "sent", "failed"} \cup Busy]
      /\ losses \in 0..MaxLosses /\ MaxLosses \in Nat
      /\ ToSet(list) \subseteq rows
  BY StoreConstants DEF TypeOK, HaveRow, StoresOK, ListHoldsRows
<1>1. ASSUME NEW m \in Messages, CreateRow(m) PROVE StoresOK'
  <2>1. rows' = rows \cup {m} /\ ToSet(list)' = ToSet(list)
    BY <1>1, CreateRowAdds, Unchanged DEF CreateRow
  <2>2. PushedIsListed'
    BY <1>1, <1>t, <2>1 DEF CreateRow, Goto, StoresOK, PushedIsListed
  <2> QED
    BY <1>t, <2>1, <2>2 DEF StoresOK, ListHoldsRows
<1>2. ASSUME NEW m \in Messages, Push(m) \/ PushAgain(m) PROVE StoresOK'
  <2>1. /\ rows' = rows /\ m \in rows
        /\ \/ ToSet(list)' = ToSet(list) \cup {m}
           \/ pc[m] = "repushing" /\ ToSet(list)' = ToSet(list)
    <3>1. m \in rows /\ UNCHANGED table
      BY <1>2, <1>t DEF Push, PushAgain, HaveRow
    <3>2. \/ list' = Append(list, m)
          \/ pc[m] = "repushing" /\ UNCHANGED list
      BY <1>2 DEF Push, PushAgain
    <3> QED
      BY <3>1, <3>2, PushAdds, Unchanged
  <2>2. /\ pc[m] \in {"pushing", "repushing"} /\ losses' = losses
        /\ \A n \in Messages \ {m} : pc'[n] = pc[n]
    BY <1>2, <1>t DEF Push, PushAgain, Goto
  <2>3. PushedIsListed'
    BY <2>1, <2>2 DEF StoresOK, PushedIsListed
  <2> QED
    BY <1>t, <2>1, <2>3 DEF StoresOK, ListHoldsRows
<1>3. ASSUME UNCHANGED <<table, list, losses>>,
             \A n \in Messages : pc'[n] \in {"repushing", "sent"} => pc'[n] = pc[n]
      PROVE  StoresOK'
  BY <1>3, <1>t, Unchanged DEF StoresOK, ListHoldsRows, PushedIsListed
<1>4. ASSUME UNCHANGED table, losses' > 0, ToSet(list)' \subseteq ToSet(list)
      PROVE  StoresOK'
  BY <1>4, <1>t, Unchanged DEF StoresOK, ListHoldsRows, PushedIsListed
<1>5. ASSUME NEW m \in Messages,
             Begin(m) \/ LinkLast(m) \/ LoadSender(m) \/ DatabaseFails(m)
             \/ Crash(m)
      PROVE  StoresOK'
  BY <1>3, <1>5, <1>t DEF Begin, LinkLast, LoadSender, DatabaseFails, Crash, Goto
<1>6. ASSUME NEW m \in Messages, PushFails(m) PROVE StoresOK'
  <2>1. UNCHANGED <<table, list>> /\ losses' > 0
    BY <1>6, <1>t DEF PushFails
  <2> QED
    BY <1>4, <2>1, Unchanged
<1>7. CASE KeyExpires
  <2>1. UNCHANGED table /\ losses' > 0 /\ list' = <<>>
    BY <1>7, <1>t DEF KeyExpires, sendVars
  <2>2. ToSet(list)' = {}
    BY <2>1 DEF ToSet
  <2> QED
    BY <1>4, <2>1, <2>2
<1>8. CASE StartReading \/ FetchRange \/ FetchRows \/ ReadFails \/ UNCHANGED vars
  BY <1>3, <1>8 DEF StartReading, FetchRange, FetchRows, ReadFails, vars, sendVars
<1>9. CASE CountList \/ CountListFails \/ CountRows
  <2>1. UNCHANGED <<pc, table, list>> /\ (losses' = losses \/ losses' > 0)
    BY <1>9, <1>t DEF CountList, CountListFails, CountRows, sendVars
  <2> QED
    BY <1>3, <1>4, <2>1, Unchanged
<1> QED
  BY <1>1, <1>2, <1>5, <1>6, <1>7, <1>8, <1>9 DEF Next, Send, Read

\* What last_message_id and the messages begun after it say of each other.
LinksOK ==
    /\ \A m \in Messages :
         /\ m \in rows => pc[m] \notin {"new", "creating"}
         /\ pc[m] \in {"loading", "pushing", "repushing", "sent"} =>
              last \in rows /\ last \notin before[m]
    /\ \A m, n \in Messages :
         n \in before[m] => n \in rows /\ pc[n] # "linking"

LEMMA LinksStep ==
    ASSUME TypeOK, LinksOK, [Next]_vars PROVE LinksOK'
<1>t. /\ {m \in Messages : pc[m] \in HaveRow} \subseteq rows
      /\ pc \in [Messages -> {"new", "sent", "failed"} \cup Busy]
      /\ before \in [Messages -> SUBSET Messages]
  BY DEF TypeOK, HaveRow
<1>1. ASSUME NEW m \in Messages, CreateRow(m) PROVE LinksOK'
  <2>1. /\ rows' = rows \cup {m} /\ UNCHANGED <<last, before>>
        /\ pc[m] = "creating" /\ pc'[m] = "linking"
        /\ \A n \in Messages \ {m} : pc'[n] = pc[n]
        /\ m \notin rows
    BY <1>1, <1>t, CreateRowAdds DEF CreateRow, Goto, LinksOK
  <2> QED
    BY <1>t, <2>1 DEF LinksOK
<1>2. ASSUME NEW m \in Messages, Begin(m) PROVE LinksOK'
  <2>1. /\ rows' = rows /\ UNCHANGED last
        /\ pc[m] = "new" /\ pc'[m] = "creating"
        /\ \A n \in Messages \ {m} : pc'[n] = pc[n] /\ before'[n] = before[n]
        /\ \A n \in before'[m] : n \in rows /\ pc[n] \notin {"creating", "linking"}
    BY <1>2, <1>t, Unchanged DEF Begin, Goto
  <2> QED
    BY <1>t, <2>1 DEF LinksOK
<1>3. ASSUME NEW m \in Messages, LinkLast(m) PROVE LinksOK'
  <2>1. /\ rows' = rows /\ last' = m /\ UNCHANGED before /\ m \in rows
        /\ pc[m] = "linking" /\ pc'[m] = "loading"
        /\ \A n \in Messages \ {m} : pc'[n] = pc[n]
    BY <1>3, <1>t, Unchanged DEF LinkLast, Goto, HaveRow
  <2> QED
    BY <1>t, <2>1 DEF LinksOK
<1>4. ASSUME rows' = rows, UNCHANGED <<last, before>>, NEW m \in Messages,
             \/ pc[m] = "loading" /\ pc'[m] = "pushing"
             \/ pc[m] = "pushing" /\ pc'[m] \in {"repushing", "sent"}
             \/ pc[m] = "repushing" /\ pc'[m] = "sent"
             \/ pc'[m] \in {"failed"},
             \A n \in Messages \ {m} : pc'[n] = pc[n]
      PROVE  LinksOK'
  BY <1>4 DEF LinksOK
<1>5. ASSUME NEW m \in Messages,
             LoadSender(m) \/ DatabaseFails(m) \/ Push(m) \/ PushFails(m)
             \/ PushAgain(m) \/ Crash(m)
      PROVE  LinksOK'
  <2>1. /\ rows' = rows /\ UNCHANGED <<last, before>>
        /\ \A n \in Messages \ {m} : pc'[n] = pc[n]
    BY <1>5, Unchanged DEF LoadSender, DatabaseFails, Push, PushFails, PushAgain,
       Crash, Goto, TypeOK
  <2>2. \/ pc[m] = "loading" /\ pc'[m] = "pushing"
        \/ pc[m] = "pushing" /\ pc'[m] \in {"repushing", "sent"}
        \/ pc[m] = "repushing" /\ pc'[m] = "sent"
        \/ pc'[m] \in {"failed"}
    BY <1>5, <1>t DEF LoadSender, DatabaseFails, Push, PushFails, PushAgain,
       Crash, Goto
  <2> QED
    BY <1>4, <2>1, <2>2
<1>6. CASE UNCHANGED sendVars
  BY <1>6, Unchanged DEF sendVars, LinksOK
<1> QED
  BY <1>1, <1>2, <1>3, <1>5, <1>6
     DEF Next, Send, Read, KeyExpires, StartReading, FetchRange, FetchRows,
         ReadFails, CountList, CountListFails, CountRows, vars, sendVars

--------------------------------------------------------------------------------
(* The order of the two stores.                                            *)

\* A send that was over when m's began is over for good, and is older than m.
OverOK ==
    \A m, n \in Messages :
        n \in over[m] => pc[n] = "sent" /\ n \in older[m]

LEMMA OverStep ==
    ASSUME TypeOK, OverOK, [Next]_vars PROVE OverOK'
<1>t. /\ pc \in [Messages -> {"new", "sent", "failed"} \cup Busy]
      /\ older \in [Messages -> SUBSET Messages]
      /\ over \in [Messages -> SUBSET Messages]
  BY DEF TypeOK
<1>1. ASSUME NEW m \in Messages, Begin(m) PROVE OverOK'
  <2>1. /\ older'[m] = {n \in Messages : pc[n] # "new"}
        /\ over'[m] = {n \in Messages : pc[n] = "sent"}
        /\ \A n \in Messages \ {m} :
              over'[n] = over[n] /\ older'[n] = older[n] /\ pc'[n] = pc[n]
        /\ pc[m] = "new"
    BY <1>1, <1>t DEF Begin, Goto
  <2> QED
    BY <2>1 DEF OverOK
<1>2. ASSUME NEW m \in Messages, Send(m) \/ Crash(m), ~Begin(m) PROVE OverOK'
  <2>1. /\ UNCHANGED <<older, over>> /\ pc[m] # "sent"
        /\ \A n \in Messages \ {m} : pc'[n] = pc[n]
    BY <1>2, <1>t DEF Send, CreateRow, LinkLast, LoadSender, DatabaseFails, Push,
       PushFails, PushAgain, Crash, Goto, Busy
  <2> QED
    BY <2>1 DEF OverOK
<1>3. CASE UNCHANGED sendVars
  BY <1>3 DEF sendVars, OverOK
<1> QED
  BY <1>1, <1>2, <1>3
     DEF Next, Read, KeyExpires, StartReading, FetchRange, FetchRows,
         ReadFails, CountList, CountListFails, CountRows, vars, sendVars

\* What is put into a store keeps its order, if it goes behind all it follows.
LEMMA FollowsInserted ==
    ASSUME OverOK, NEW m \in Messages, pc[m] # "sent",
           NEW s \in Seq(Messages), NEW k \in 0..Len(s), Follows(s),
           \A i \in k + 1..Len(s) : s[i] \notin over[m]
    PROVE  Follows(Inserted(s, k, m))
<1> DEFINE t == Inserted(s, k, m)
<1>1. Len(s) \in Nat /\ k \in Nat /\ k <= Len(s) /\ DOMAIN s = 1..Len(s)
      /\ \A i \in 1..Len(s) : s[i] \in Messages
  OBVIOUS
<1>0. t \in Seq(Messages) /\ IsInserted(t, s, k, m)
  BY InsertedAt
<1> HIDE DEF t
<1>2. /\ t \in Seq(Messages) /\ Len(t) = Len(s) + 1
      /\ \A i \in 1..k : t[i] = s[i]
      /\ t[k + 1] = m
      /\ \A i \in 1..Len(s) - k : t[k + 1 + i] = s[k + i]
  BY <1>0 DEF IsInserted
<1>3. DOMAIN t = 1..Len(s) + 1
  BY <1>1, <1>2
<1>4. \A i \in k + 2..Len(s) + 1 : t[i] = s[i - 1]
  <2>1. TAKE i \in k + 2..Len(s) + 1
  <2>2. i - k - 1 \in 1..Len(s) - k /\ k + 1 + (i - k - 1) = i
        /\ k + (i - k - 1) = i - 1
    BY <1>1, <2>1
  <2>3. t[k + 1 + (i - k - 1)] = s[k + (i - k - 1)]
    BY <1>2, <2>2
  <2> QED
    BY <2>2, <2>3
<1>5. \A n \in Messages : m \notin over[n]
  BY DEF OverOK
<1>6. ASSUME NEW i \in 1..Len(s) + 1, NEW j \in 1..Len(s) + 1, t[j] \in over[t[i]]
      PROVE  j < i
  <2>1. j # k + 1
    <3>1. t[i] \in Messages
      BY <1>1, <1>2
    <3> QED
      BY <1>2, <1>5, <1>6, <3>1
  <2>2. CASE i = k + 1
    <3>1. j > k + 1 => s[j - 1] = t[j] /\ j - 1 \in k + 1..Len(s)
      BY <1>1, <1>4
    <3> QED
      BY <1>1, <1>2, <1>6, <2>1, <2>2, <3>1
  <2>3. CASE i # k + 1
    <3> DEFINE u == IF i <= k THEN i ELSE i - 1
               v == IF j <= k THEN j ELSE j - 1
    <3>1. u \in 1..Len(s) /\ t[i] = s[u]
      BY <1>1, <1>2, <1>4, <2>3
    <3>2. v \in 1..Len(s) /\ t[j] = s[v]
      BY <1>1, <1>2, <1>4, <2>1
    <3>3. v < u
      BY <1>1, <1>6, <3>1, <3>2 DEF Follows
    <3> QED
      BY <1>1, <2>1, <2>3, <3>3
  <2> QED
    BY <2>2, <2>3
<1>7. Follows(t)
  BY <1>3, <1>6 DEF Follows
<1> QED
  BY <1>7 DEF t

\* A push goes behind everything.
LEMMA FollowsAppended ==
    ASSUME OverOK, NEW m \in Messages, pc[m] # "sent",
           NEW s \in Seq(Messages), Follows(s)
    PROVE  Follows(Append(s, m))
<1> DEFINE t == Append(s, m)
<1>1. /\ DOMAIN s = 1..Len(s) /\ Len(s) \in Nat
      /\ DOMAIN t = 1..Len(s) + 1
      /\ \A i \in 1..Len(s) : t[i] = s[i] /\ t[i] \in Messages
      /\ t[Len(s) + 1] = m
  OBVIOUS
<1> HIDE DEF t
<1>2. ASSUME NEW i \in DOMAIN t, NEW j \in DOMAIN t, t[j] \in over[t[i]]
      PROVE  j < i
  <2>1. j # Len(s) + 1
    <3>1. t[i] \in Messages
      BY <1>1
    <3> QED
      BY <1>1, <1>2, <3>1 DEF OverOK
  <2>2. CASE i = Len(s) + 1
    BY <1>1, <2>1, <2>2
  <2>3. CASE i # Len(s) + 1
    <3>1. i \in 1..Len(s) /\ j \in 1..Len(s)
      BY <1>1, <2>1, <2>3
    <3>2. s[j] \in over[s[i]]
      BY <1>1, <1>2, <3>1
    <3> QED
      BY <1>1, <3>1, <3>2 DEF Follows
  <2> QED
    BY <2>2, <2>3
<1>3. Follows(t)
  BY <1>2 DEF Follows
<1> QED
  BY <1>3 DEF t

\* The stores stay in order as long as their messages began before this step.
LEMMA OrderStep ==
    ASSUME TypeOK, StoresOK, LinksOK, OverOK, HistoryInOrder, [Next]_vars
    PROVE  HistoryInOrder'
<1>t. /\ pc \in [Messages -> {"new", "sent", "failed"} \cup Busy]
      /\ over \in [Messages -> SUBSET Messages]
      /\ table \in Seq(Messages) /\ list \in Seq(Messages)
  BY DEF TypeOK
<1>0. Follows(table) /\ Follows(list)
  BY DEF HistoryInOrder
<1>1. ASSUME NEW m \in Messages, Begin(m) PROVE HistoryInOrder'
  <2>1. /\ UNCHANGED <<table, list>> /\ m \notin rows
        /\ \A n \in Messages \ {m} : over'[n] = over[n]
    BY <1>1, <1>t DEF Begin, LinksOK
  <2>2. /\ \A i \in DOMAIN table : table[i] \in Messages /\ table[i] # m
        /\ \A i \in DOMAIN list : list[i] \in Messages /\ list[i] # m
    <3>1. /\ \A i \in DOMAIN table : table[i] \in Messages /\ table[i] \in rows
          /\ \A i \in DOMAIN list : list[i] \in Messages /\ list[i] \in ToSet(list)
      BY <1>t DEF rows, ToSet
    <3> QED
      BY <2>1, <3>1 DEF StoresOK, ListHoldsRows
  <2> QED
    BY <1>0, <2>1, <2>2 DEF HistoryInOrder, Follows
<1>2. ASSUME NEW m \in Messages, CreateRow(m) PROVE HistoryInOrder'
  <2>1. /\ pc[m] = "creating" /\ UNCHANGED <<over, list>>
        /\ InsertRow(m)
    BY <1>2 DEF CreateRow
  <2>2. PICK k \in 0..Len(table) :
          /\ \A i \in DOMAIN table : table[i] \in older[m] <=> i <= k
          /\ table' = Inserted(table, k, m)
    BY <2>1 DEF InsertRow
  <2>3. \A i \in k + 1..Len(table) : table[i] \notin over[m]
    <3>1. TAKE i \in k + 1..Len(table)
    <3>2. i \in DOMAIN table /\ table[i] \in Messages /\ ~(i <= k)
      BY <1>t, <3>1
    <3> QED
      BY <2>2, <3>2 DEF OverOK
  <2>4. Follows(table')
    BY <1>0, <1>t, <2>1, <2>2, <2>3, FollowsInserted
  <2> QED
    BY <1>0, <2>1, <2>4 DEF HistoryInOrder, Follows
<1>3. ASSUME NEW m \in Messages, Push(m) \/ PushAgain(m) PROVE HistoryInOrder'
  <2>1. /\ pc[m] # "sent" /\ UNCHANGED <<over, table>>
        /\ list' = Append(list, m) \/ UNCHANGED list
    BY <1>3 DEF Push, PushAgain
  <2>2. Follows(Append(list, m))
    BY <1>0, <1>t, <2>1, FollowsAppended
  <2>3. Follows(list')
    BY <1>0, <2>1, <2>2
  <2> QED
    BY <1>0, <2>1, <2>3 DEF HistoryInOrder, Follows
<1>4. CASE UNCHANGED <<over, table, list>>
  BY <1>0, <1>4 DEF HistoryInOrder, Follows
<1>5. ASSUME NEW m \in Messages,
             LinkLast(m) \/ LoadSender(m) \/ DatabaseFails(m) \/ PushFails(m)
             \/ Crash(m)
      PROVE  HistoryInOrder'
  BY <1>4, <1>5 DEF LinkLast, LoadSender, DatabaseFails, PushFails, Crash
<1>6. CASE KeyExpires
  <2>1. UNCHANGED <<over, table>> /\ list' = <<>>
    BY <1>6 DEF KeyExpires, sendVars
  <2>2. DOMAIN list' = {}
    BY <2>1
  <2> QED
    BY <1>0, <2>1, <2>2 DEF HistoryInOrder, Follows
<1>7. CASE Read \/ UNCHANGED vars
  BY <1>4, <1>7 DEF Read, StartReading, FetchRange, FetchRows, ReadFails,
     CountList, CountListFails, CountRows, vars, sendVars
<1> QED
  BY <1>1, <1>2, <1>3, <1>5, <1>6, <1>7 DEF Next, Send

--------------------------------------------------------------------------------
(* How often a message is listed.                                          *)

Once(s, m) == \A i, j \in DOMAIN s : s[i] = m /\ s[j] = m => i = j
Twice(s, m) == \A i, j, k \in DOMAIN s :
                 s[i] = m /\ s[j] = m /\ s[k] = m => i = j \/ j = k \/ i = k

\* Before its push a message is not listed, and before its second push once.
ListedOK ==
    \A m \in Messages :
        /\ pc[m] \in {"new", "creating", "linking", "loading", "pushing"} =>
             m \notin ToSet(list)
        /\ pc[m] # "sent" \/ m \notin OverWS => Once(list, m)
        /\ Twice(list, m)
        /\ pc[m] = "repushing" => m \in OverWS

\* What a push does to the number of entries of each message.
LEMMA AppendedCount ==
    ASSUME NEW s \in Seq(Messages), NEW m \in Messages
    PROVE  LET t == Append(s, m)
           IN  /\ m \notin ToSet(s) => Once(t, m)
               /\ Once(s, m) => Twice(t, m)
               /\ \A n \in Messages \ {m} : /\ Once(s, n) => Once(t, n)
                                            /\ Twice(s, n) => Twice(t, n)
<1> DEFINE t == Append(s, m)
<1>1. /\ DOMAIN s = 1..Len(s) /\ Len(s) \in Nat
      /\ DOMAIN t = 1..Len(s) + 1
      /\ \A i \in 1..Len(s) : t[i] = s[i]
      /\ t[Len(s) + 1] = m
  OBVIOUS
<1> HIDE DEF t
<1>2. /\ DOMAIN t = DOMAIN s \cup {Len(s) + 1}
      /\ Len(s) + 1 \notin DOMAIN s
      /\ \A i \in DOMAIN s : t[i] = s[i]
  BY <1>1
<1>3. ASSUME m \notin ToSet(s) PROVE Once(t, m)
  <2>1. \A i \in DOMAIN s : s[i] # m
    BY <1>3 DEF ToSet
  <2> QED
    BY <1>1, <1>2, <2>1 DEF Once
<1>4. ASSUME Once(s, m) PROVE Twice(t, m)
  <2>1. ASSUME NEW i \in DOMAIN t, NEW j \in DOMAIN t, NEW k \in DOMAIN t,
               t[i] = m, t[j] = m, t[k] = m, i # j, j # k, i # k
        PROVE  FALSE
    <3>1. \/ i \in DOMAIN s /\ j \in DOMAIN s
          \/ j \in DOMAIN s /\ k \in DOMAIN s
          \/ i \in DOMAIN s /\ k \in DOMAIN s
      BY <1>2, <2>1
    <3> QED
      BY <1>2, <1>4, <2>1, <3>1 DEF Once
  <2> QED
    BY <2>1 DEF Twice
<1>5. ASSUME NEW n \in Messages \ {m}
      PROVE  /\ Once(s, n) => Once(t, n)
             /\ Twice(s, n) => Twice(t, n)
  <2>1. \A i \in DOMAIN t : t[i] = n => i \in DOMAIN s /\ s[i] = n
    BY <1>1, <1>2
  <2> QED
    BY <2>1 DEF Once, Twice
<1> QED
  BY <1>3, <1>4, <1>5 DEF t

LEMMA ListedStep ==
    ASSUME TypeOK, ListedOK, [Next]_vars PROVE ListedOK'
<1>t. /\ pc \in [Messages -> {"new", "sent", "failed"} \cup Busy]
      /\ list \in Seq(Messages)
  BY DEF TypeOK
<1>1. ASSUME UNCHANGED list,
             \A n \in Messages :
               /\ pc'[n] \in {"new", "creating", "linking", "loading", "pushing"} =>
                    pc[n] \in {"new", "creating", "linking", "loading", "pushing"}
               /\ pc'[n] = "repushing" => n \in OverWS
               /\ pc'[n] # "sent" => pc[n] # "sent"
      PROVE  ListedOK'
  BY <1>1, Unchanged DEF ListedOK, Once, Twice
<1>2. ASSUME NEW m \in Messages, list' = Append(list, m),
             pc[m] \in {"pushing", "repushing"},
             pc[m] = "repushing" => pc'[m] = "sent",
             pc[m] = "pushing" =>
               pc'[m] = IF m \in OverWS THEN "repushing" ELSE "sent",
             \A n \in Messages \ {m} : pc'[n] = pc[n]
      PROVE  ListedOK'
  <2>1. /\ m \notin ToSet(list) => Once(list', m)
        /\ Once(list, m) => Twice(list', m)
        /\ \A n \in Messages \ {m} : /\ Once(list, n) => Once(list', n)
                                     /\ Twice(list, n) => Twice(list', n)
    BY <1>2, <1>t, AppendedCount
  <2>2. Once(list, m) /\ Twice(list', m)
    BY <1>2, <2>1 DEF ListedOK
  <2>3. ToSet(list)' = ToSet(list) \cup {m}
    BY <1>2, PushAdds
  <2>4. /\ m \in OverWS /\ pc[m] = "repushing" => pc'[m] = "sent"
        /\ pc[m] = "pushing" => Once(list', m)
        /\ pc[m] = "repushing" => m \in OverWS
    BY <1>2, <2>1 DEF ListedOK
  <2> DEFINE P(n) ==
               /\ pc'[n] \in {"new", "creating", "linking", "loading", "pushing"} =>
                    n \notin ToSet(list)'
               /\ pc'[n] # "sent" \/ n \notin OverWS => Once(list', n)
               /\ Twice(list', n)
               /\ pc'[n] = "repushing" => n \in OverWS
  <2>5. P(m)
    BY <1>2, <2>2, <2>4
  <2>6. ASSUME NEW n \in Messages \ {m} PROVE P(n)
    BY <1>2, <2>1, <2>3 DEF ListedOK
  <2>7. \A n \in Messages : P(n)
    BY <2>5, <2>6
  <2> QED
    BY <2>7 DEF ListedOK, Once, Twice
<1>3. ASSUME NEW m \in Messages, Push(m) PROVE ListedOK'
  BY <1>2, <1>3, <1>t DEF Push, Goto
<1>4. ASSUME NEW m \in Messages, PushAgain(m) PROVE ListedOK'
  <2>1. /\ pc[m] = "repushing" /\ pc'[m] = "sent"
        /\ \A n \in Messages \ {m} : pc'[n] = pc[n]
        /\ list' = Append(list, m) \/ UNCHANGED list
    BY <1>4, <1>t DEF PushAgain, Goto
  <2>2. CASE list' = Append(list, m)
    BY <1>2, <2>1, <2>2
  <2>3. CASE UNCHANGED list
    BY <1>1, <2>1, <2>3 DEF ListedOK
  <2> QED
    BY <2>1, <2>2, <2>3
<1>5. ASSUME NEW m \in Messages,
             Begin(m) \/ CreateRow(m) \/ LinkLast(m) \/ LoadSender(m)
             \/ DatabaseFails(m) \/ PushFails(m) \/ Crash(m)
      PROVE  ListedOK'
  <2>1. /\ UNCHANGED list
        /\ \A n \in Messages \ {m} : pc'[n] = pc[n]
        /\ pc[m] # "sent"
        /\ pc'[m] \in {"new", "creating", "linking", "loading", "pushing"} =>
             pc[m] \in {"new", "creating", "linking", "loading", "pushing"}
        /\ pc'[m] = "repushing" => m \in OverWS
    BY <1>5, <1>t DEF Begin, CreateRow, LinkLast, LoadSender, DatabaseFails,
       PushFails, Crash, Goto, Busy
  <2> QED
    BY <1>1, <2>1 DEF ListedOK
<1>6. CASE KeyExpires
  <2>1. UNCHANGED pc /\ list' = <<>>
    BY <1>6 DEF KeyExpires, sendVars
  <2>2. DOMAIN list' = {} /\ ToSet(list)' = {}
    BY <2>1 DEF ToSet
  <2> QED
    BY <2>1, <2>2 DEF ListedOK, Once, Twice
<1>7. CASE Read \/ UNCHANGED vars
  <2>1. UNCHANGED <<pc, list>>
    BY <1>7 DEF Read, StartReading, FetchRange, FetchRows, ReadFails,
       CountList, CountListFails, CountRows, vars, sendVars
  <2> QED
    BY <1>1, <2>1 DEF ListedOK
<1> QED
  BY <1>3, <1>4, <1>5, <1>6, <1>7 DEF Next, Send

--------------------------------------------------------------------------------
(* Paging.                                                                 *)

\* Where entry m is still to be read: in the list past the entries read so far,
\* and on the page in the reader's hands if the page reaches that far.
Ahead(m) == \E i \in 1..Len(list) : list[i] = m /\ i > offset
AheadOfPage(m) ==
    \E i \in 1..Len(list) :
        /\ list[i] = m /\ i > offset
        /\ i <= offset + Len(page) => m \in ToSet(page)

\* While Redis loses nothing, each due message is read or still to be read; so
\* a reader that is sent to the table has read them all.  One that asks for pages
\* of 0 gets them all in the first answer, and then nothing.
PagingOK ==
    /\ pager = "idle" => offset = 0
    /\ losses = 0 =>
         /\ pager = "asking" => \A m \in due : m \in seen \/ Ahead(m)
         /\ pager = "counting" => \A m \in due : m \in seen \/ AheadOfPage(m)
         /\ pager \in {"falling", "recounting", "done"} => due \subseteq seen
         /\ limit = 0 /\ offset # 0 => due \subseteq seen
         /\ limit = 0 /\ pager = "counting" => due \subseteq seen \cup ToSet(page)

\* Pushes leave the entries of the list where they are.
LEMMA PagingKept ==
    ASSUME TypeOK, PagingOK, UNCHANGED readVars,
           losses' = losses \/ losses' > 0,
           UNCHANGED list \/ losses' > 0
           \/ \E m \in Messages : list' = Append(list, m)
    PROVE  PagingOK'
<1>1. CASE losses' > 0
  BY <1>1 DEF PagingOK, readVars
<1>2. CASE UNCHANGED <<list, losses>>
  BY <1>2 DEF PagingOK, readVars, Ahead, AheadOfPage, ToSet
<1>3. ASSUME NEW m \in Messages, list' = Append(list, m), losses' = losses
      PROVE  PagingOK'
  <2>1. /\ \A i \in 1..Len(list) : i \in 1..Len(list') /\ list'[i] = list[i]
    BY <1>3 DEF TypeOK
  <2>2. UNCHANGED <<pager, limit, offset, page, seen, due>>
    BY DEF readVars
  <2>3. ToSet(page)' = ToSet(page)
    BY <2>2 DEF ToSet
  <2>4. \A n : /\ Ahead(n) => Ahead(n)'
               /\ AheadOfPage(n) => AheadOfPage(n)'
    BY <2>1, <2>2, <2>3 DEF Ahead, AheadOfPage
  <2> QED
    BY <1>3, <2>2, <2>4 DEF PagingOK
<1> QED
  BY <1>1, <1>2, <1>3

LEMMA PagingFetch ==
    ASSUME TypeOK, PagingOK, FetchRange \/ FetchRows PROVE PagingOK'
<1>1. CASE FetchRows
  BY <1>1 DEF FetchRows, PagingOK, AheadOfPage
<1>2. CASE FetchRange
  <2> USE <1>2
  <2>1. /\ list \in Seq(Messages) /\ offset \in Nat /\ Len(list) \in Nat
        /\ limit \in Nat
    BY DEF TypeOK
  <2>2. /\ pager = "asking" /\ page' = RangeOf(list)
        /\ pager' = IF RangeOf(list) = <<>> THEN "falling" ELSE "counting"
        /\ UNCHANGED <<list, limit, offset, seen, due, losses>>
    BY DEF FetchRange
  <2>3. /\ page' \in Seq(Messages)
        /\ offset < Len(list) /\ (limit # 0 \/ offset = 0) => page' # <<>>
        /\ \A j \in 1..Len(page') : page'[j] = list[offset + j]
        /\ limit = 0 /\ offset = 0 => page' = list
    BY <2>1, <2>2, RangeHolds
  <2>4. ASSUME losses = 0, NEW m \in due, m \notin seen
        PROVE  /\ page' # <<>> /\ AheadOfPage(m)'
               /\ limit = 0 => m \in ToSet(page')
    <3>1. PICK i \in 1..Len(list) : list[i] = m /\ i > offset
      BY <2>2, <2>4 DEF PagingOK, Ahead
    <3>2. limit = 0 => offset = 0
      BY <2>4 DEF PagingOK
    <3>3. page' # <<>>
      BY <2>1, <2>3, <3>1, <3>2
    <3>4. ASSUME i <= offset + Len(page') PROVE m \in ToSet(page')
      <4>1. i - offset \in 1..Len(page') /\ offset + (i - offset) = i
        BY <2>1, <2>3, <3>1, <3>4
      <4>2. page'[i - offset] = m
        BY <2>3, <3>1, <4>1
      <4>3. DOMAIN page' = 1..Len(page')
        BY <2>3
      <4> QED
        BY <4>1, <4>2, <4>3 DEF ToSet
    <3>5. AheadOfPage(m)'
      BY <2>2, <3>1, <3>4 DEF AheadOfPage, ToSet
    <3>6. limit = 0 => m \in ToSet(page')
      BY <2>1, <2>3, <3>1, <3>2, <3>4
    <3> QED
      BY <3>3, <3>5, <3>6
  <2>5. ToSet(page)' = ToSet(page')
    BY DEF ToSet
  <2>6. PagingOK => (losses = 0 /\ limit = 0 /\ offset # 0 => due \subseteq seen)
    BY DEF PagingOK
  <2> HIDE <1>2
  <2> QED
    BY <2>2, <2>4, <2>5, <2>6 DEF PagingOK
<1> QED
  BY <1>1, <1>2

LEMMA PagingCount ==
    ASSUME TypeOK, PagingOK, CountList \/ CountListFails \/ CountRows
    PROVE  PagingOK'
<1>1. /\ losses \in Nat /\ offset \in Nat /\ Len(page) \in Nat
      /\ Len(list) \in Nat /\ list \in Seq(Messages)
  BY DEF TypeOK
<1>2. CASE CountList
  <2>1. /\ pager = "counting" /\ seen' = seen \cup ToSet(page)
        /\ \/ /\ pager' = "asking" /\ offset' = offset + Len(page)
              /\ limit' = limit
           \/ pager' = "done" /\ offset' = 0
        /\ UNCHANGED <<list, due, losses>>
    BY <1>2 DEF CountList, Answer, EndReading
  <2>2. CASE losses # 0
    BY <2>1, <2>2 DEF PagingOK
  <2>3. CASE losses = 0
    <3>1. ASSUME NEW m \in due, m \notin seen'
          PROVE  \E i \in 1..Len(list) : list[i] = m /\ i > offset + Len(page)
      BY <1>1, <2>1, <2>3, <3>1 DEF PagingOK, AheadOfPage
    <3>0. limit = 0 => due \subseteq seen'
      BY <2>1, <2>3 DEF PagingOK
    <3>2. CASE pager' = "asking"
      BY <2>1, <3>0, <3>1, <3>2 DEF PagingOK, Ahead
    <3>3. CASE pager' = "done"
      <4>1. offset + Len(page) >= Len(list)
        BY <1>1, <1>2, <3>3 DEF CountList, Answer, EndReading
      <4>2. due \subseteq seen'
        BY <1>1, <3>1, <4>1
      <4> QED
        BY <2>1, <3>0, <3>3, <4>2 DEF PagingOK
    <3> QED
      BY <2>1, <3>2, <3>3
  <2> QED
    BY <2>2, <2>3
<1>3. CASE CountListFails
  <2>1. CASE list = <<>>
    BY <1>1, <1>3, <2>1 DEF CountListFails, PagingOK, AheadOfPage
  <2>2. CASE losses' = losses + 1
    BY <1>1, <1>3, <2>2 DEF CountListFails, PagingOK
  <2> QED
    BY <1>3, <2>1, <2>2 DEF CountListFails
<1>4. CASE CountRows
  BY <1>4 DEF CountRows, Answer, EndReading, PagingOK
<1> QED
  BY <1>2, <1>3, <1>4

LEMMA PagingStep ==
    ASSUME TypeOK, StoresOK, PagingOK, [Next]_vars PROVE PagingOK'
<1>t. losses \in Nat
  BY DEF TypeOK
<1>1. CASE StartReading
  <2>1. /\ \A m \in due' : pc[m] = "sent" /\ m \in Messages
        /\ offset' = 0 /\ UNCHANGED <<list, losses>> /\ pager' = "asking"
    BY <1>1 DEF StartReading, PagingOK
  <2>2. ASSUME losses = 0, NEW m \in due' PROVE Ahead(m)'
    <3>1. m \in ToSet(list) /\ DOMAIN list = 1..Len(list)
      BY <2>1, <2>2 DEF StoresOK, PushedIsListed, TypeOK
    <3> QED
      BY <2>1, <3>1 DEF Ahead, ToSet
  <2> QED
    BY <2>1, <2>2 DEF PagingOK
<1>2. CASE ReadFails
  BY <1>2 DEF ReadFails, EndReading, PagingOK
<1>3. ASSUME NEW m \in Messages, Send(m) \/ Crash(m) PROVE PagingOK'
  <2>1. /\ UNCHANGED readVars
        /\ losses' = losses \/ losses' > 0
        /\ UNCHANGED list \/ list' = Append(list, m)
    BY <1>3, <1>t DEF Send, Begin, CreateRow, LinkLast, LoadSender, DatabaseFails,
       Push, PushFails, PushAgain, Crash
  <2> QED
    BY <2>1, PagingKept
<1>4. CASE KeyExpires
  <2>1. UNCHANGED readVars /\ losses' > 0
    BY <1>4, <1>t DEF KeyExpires
  <2> QED
    BY <2>1, PagingKept
<1>5. CASE UNCHANGED vars
  BY <1>5, PagingKept DEF vars, readVars
<1> QED
  BY <1>1, <1>2, <1>3, <1>4, <1>5, PagingFetch, PagingCount DEF Next, Read

StoreInv ==
    /\ TypeOK /\ StoresOK /\ LinksOK
    /\ OverOK /\ HistoryInOrder /\ ListedOK /\ PagingOK

LEMMA StoreInvariant == Spec => []StoreInv
<1>1. Init => StoreInv
  <2> SUFFICES ASSUME Init PROVE StoreInv
    OBVIOUS
  <2>1. rows = {} /\ ToSet(list) = {}
    BY DEF Init, rows, ToSet
  <2>2. losses \in 0..MaxLosses
    BY StoreConstants DEF Init
  <2>3. TypeOK
    BY <2>1, <2>2 DEF Init, TypeOK
  <2>4. StoresOK
    BY <2>1 DEF Init, StoresOK, ListHoldsRows, PushedIsListed
  <2>5. LinksOK
    BY <2>1 DEF Init, LinksOK
  <2>6. PagingOK
    BY DEF Init, PagingOK
  <2>7. OverOK /\ HistoryInOrder
    BY DEF Init, OverOK, HistoryInOrder, Follows
  <2>8. ListedOK
    BY <2>1 DEF Init, ListedOK, Once, Twice
  <2> QED
    BY <2>3, <2>4, <2>5, <2>6, <2>7, <2>8 DEF StoreInv
<1>2. StoreInv /\ [Next]_vars => StoreInv'
  BY TypeStep, StoresStep, LinksStep, OverStep, OrderStep, ListedStep,
     PagingStep DEF StoreInv
<1> QED
  BY <1>1, <1>2, PTL DEF Spec

\* Every variable keeps its type, and a send past its insert has its row.
THEOREM StoreTypes == Spec => []TypeOK
  BY StoreInvariant, PTL DEF StoreInv

\* Redis never lists a message the database does not hold.
THEOREM ListIsFaithful == Spec => []ListHoldsRows
<1>1. StoreInv => ListHoldsRows
  BY DEF StoreInv, StoresOK
<1> QED
  BY <1>1, StoreInvariant, PTL

\* While Redis loses nothing, every message whose send is over is in its list.
THEOREM ListIsComplete == Spec => []SentIsListed
<1>1. StoreInv => SentIsListed
  BY DEF StoreInv, StoresOK, PushedIsListed, SentIsListed
<1> QED
  BY <1>1, StoreInvariant, PTL

\* However sends overlap, the conversation's last message is never one that was
\* already there when the send of some finished message was begun.
THEOREM LastIsRecent == Spec => []LastNotOvertaken
<1>1. StoreInv => LastNotOvertaken
  BY DEF StoreInv, LinksOK, LastNotOvertaken
<1> QED
  BY <1>1, StoreInvariant, PTL

\* Whatever fails, expires or overlaps, a message begun when another's send was
\* over stands behind it, in the table and in every copy of the two in the list.
THEOREM HistoryIsInOrder == Spec => []HistoryInOrder
<1>1. StoreInv => HistoryInOrder
  BY DEF StoreInv
<1> QED
  BY <1>1, StoreInvariant, PTL

\* No message is listed more than twice, and only those of a WebSocket are twice.
THEOREM AtMostTwiceListed == Spec => []ListedAtMostTwice
<1>1. StoreInv => ListedAtMostTwice
  <2> SUFFICES ASSUME ListedOK, list \in Seq(Messages),
                      NEW i \in DOMAIN list, NEW j \in DOMAIN list,
                      i < j, list[i] = list[j]
               PROVE  /\ list[i] \in OverWS
                      /\ \A k \in DOMAIN list : list[k] = list[i] => k \in {i, j}
    BY DEF StoreInv, TypeOK, ListedAtMostTwice
  <2>1. list[i] \in Messages /\ i # j
    OBVIOUS
  <2> QED
    BY <2>1 DEF ListedOK, Once, Twice
<1> QED
  BY <1>1, StoreInvariant, PTL

\* While Redis loses nothing, a reader that follows hasMore reads all that was
\* sent before it began: for any page size and any sends in between.
THEOREM PagingIsComplete == Spec => []PagingComplete
<1>1. StoreInv => PagingComplete
  BY DEF StoreInv, PagingOK, PagingComplete
<1> QED
  BY <1>1, StoreInvariant, PTL
================================================================================
