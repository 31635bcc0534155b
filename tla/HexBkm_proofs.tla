--------------------------- MODULE HexBkm_proofs ----------------------------
(***************************************************************************)
(* Theorems about the bookmark manager (HexBkm): identifiers stay distinct *)
(* unless a client overwrites one or they run out, the menu removes the    *)
(* selected bookmarks and no others while they are distinct, and the list  *)
(* follows the bookmarks, for data, spans and numbers of bookmarks of any  *)
(* size.                                                                   *)
(***************************************************************************)
EXTENDS HexBkm, HexArith

\* The spans of a bookmark, bookmarks, and sequences of them.
SpanLists == {spans \in Seq(Nat \X Nat) : spans # <<>>}
Bkm == [id : 0..MaxId, spans : SpanLists]
BkmList(bkms) == bkms \in Seq(Bkm)

\* The inductive invariant.  The lists' lengths bound the current index, which
\* Next and Previous take from them.
BkmInv ==
  /\ BkmList(own) /\ Len(own) <= MaxBkms
  /\ BkmList(handler) /\ Len(handler) <= MaxVirt
  /\ isVirtual \in BOOLEAN /\ dialog \in BOOLEAN
  /\ current \in 0..MaxBkms - 1
  /\ items \in Nat /\ selected \subseteq 0..items - 1
  /\ dataSize \in Nat
  /\ caretPos \in 0..dataSize - 1 \/ caretPos = 0

-----------------------------------------------------------------------------
(* Sequences of bookmarks                                                  *)

\* The first element that a test selects, if there is one.
LEMMA FirstWithId ==
  ASSUME NEW bkms, bkms \in Seq(Bkm), NEW id
  PROVE  LET at == SelectInSeq(bkms, LAMBDA b : b.id = id)
         IN  \/ at = 0 /\ \A i \in 1..Len(bkms) : bkms[i].id # id
             \/ at \in 1..Len(bkms) /\ bkms[at].id = id
<1> DEFINE I == {i \in 1..Len(bkms) : bkms[i].id = id}
<1>1. CASE I = {}
  BY <1>1 DEF SelectInSeq
<1>2. CASE I # {}
  <2>0. I \in SUBSET Nat
    OBVIOUS
  <2>1. PICK least \in I : \A i \in I : least <= i
    BY <1>2, <2>0, LeastOf
  <2>2. Min(I) \in I
    BY <2>1 DEF Min
  <2> QED BY <1>2, <2>2 DEF SelectInSeq
<1> QED BY <1>1, <1>2

\* What RemoveAt leaves.
LEMMA RemoveAtFacts ==
  ASSUME NEW S, NEW s \in Seq(S), NEW at \in 1..Len(s)
  PROVE  LET left == RemoveAt(s, at)
         IN  /\ left \in Seq(S) /\ Len(left) = Len(s) - 1
             /\ \A i \in 1..Len(s) - 1 : left[i] = IF i < at THEN s[i] ELSE s[i + 1]
<1> DEFINE low == SubSeq(s, 1, at - 1)
           high == SubSeq(s, at + 1, Len(s))
<1>1. RemoveAt(s, at) = low \o high
  BY DEF RemoveAt
<1>2. Len(s) \in Nat /\ at - 1 \in Nat /\ Len(s) - at \in Nat
  OBVIOUS
<1>3. low \in Seq(S) /\ Len(low) = at - 1 /\ \A i \in 1..at - 1 : low[i] = s[i]
  OBVIOUS
<1>4. /\ high \in Seq(S) /\ Len(high) = Len(s) - at
      /\ \A i \in 1..Len(s) - at : high[i] = s[i + at]
  OBVIOUS
<1> HIDE DEF low, high
<1>5. low \o high \in Seq(S) /\ Len(low \o high) = Len(low) + Len(high)
  BY <1>3, <1>4
<1>6. \A i \in 1..Len(low) + Len(high) :
        (low \o high)[i] = IF i <= Len(low) THEN low[i] ELSE high[i - Len(low)]
  BY <1>3, <1>4
<1>7. ASSUME NEW i \in 1..Len(s) - 1
      PROVE  (low \o high)[i] = IF i < at THEN s[i] ELSE s[i + 1]
  <2>1. i \in 1..Len(low) + Len(high)
    BY <1>2, <1>3, <1>4
  <2>2. CASE i < at
    BY <1>2, <1>3, <1>6, <2>1, <2>2
  <2>3. CASE i >= at
    <3>1. i - (at - 1) \in 1..Len(s) - at
      BY <2>3
    <3>2. i - (at - 1) + at = i + 1
      OBVIOUS
    <3>3. high[i - (at - 1)] = s[i + 1]
      BY <1>4, <3>1, <3>2
    <3>4. (low \o high)[i] = high[i - (at - 1)]
      BY <1>2, <1>3, <1>6, <2>1, <2>3
    <3> QED BY <1>2, <2>3, <3>3, <3>4
  <2>4. i < at \/ i >= at
    BY <1>2
  <2> QED BY <2>2, <2>3, <2>4
<1> QED BY <1>1, <1>2, <1>3, <1>4, <1>5, <1>7

\* Without some bookmark, or with all.
LEMMA WithoutFacts ==
  ASSUME NEW bkms, BkmList(bkms), NEW id
  PROVE  BkmList(Without(bkms, id)) /\ Len(Without(bkms, id)) <= Len(bkms)
<1> DEFINE first == SelectInSeq(bkms, LAMBDA b : b.id = id)
<1>1. \/ first = 0
      \/ first \in 1..Len(bkms) /\ bkms[first].id = id
  BY FirstWithId DEF BkmList
<1>2. Without(bkms, id) = IF first = 0 THEN bkms ELSE RemoveAt(bkms, first)
  BY DEF Without
<1> HIDE DEF first
<1>3. Len(bkms) \in Nat
  BY DEF BkmList
<1>4. CASE first = 0
  BY <1>2, <1>3, <1>4
<1>5. CASE first \in 1..Len(bkms)
  <2>1. RemoveAt(bkms, first) \in Seq(Bkm) /\ Len(RemoveAt(bkms, first)) = Len(bkms) - 1
    BY <1>5, RemoveAtFacts DEF BkmList
  <2> QED BY <1>2, <1>3, <1>5, <2>1 DEF BkmList
<1> QED BY <1>1, <1>4, <1>5

\* One place fewer leaves the identifiers distinct.
LEMMA RemoveAtDistinct ==
  ASSUME NEW bkms, BkmList(bkms), Distinct(bkms), NEW at \in 1..Len(bkms)
  PROVE  Distinct(RemoveAt(bkms, at))
<1> DEFINE left == RemoveAt(bkms, at)
<1>1. Len(bkms) \in Nat
  BY DEF BkmList
<1>2. /\ left \in Seq(Bkm) /\ Len(left) = Len(bkms) - 1
      /\ \A i \in 1..Len(bkms) - 1 : left[i] = IF i < at THEN bkms[i] ELSE bkms[i + 1]
  BY RemoveAtFacts DEF BkmList
<1> HIDE DEF left
<1>3. ASSUME NEW i \in 1..Len(left), NEW j \in 1..Len(left), left[i].id = left[j].id
      PROVE  i = j
  <2>1. i \in 1..Len(bkms) - 1 /\ j \in 1..Len(bkms) - 1
    BY <1>2
  <2>2. (IF i < at THEN i ELSE i + 1) = (IF j < at THEN j ELSE j + 1)
    BY <1>1, <1>2, <1>3, <2>1 DEF Distinct
  <2> QED BY <1>1, <2>1, <2>2
<1>4. Distinct(left)
  BY <1>3 DEF Distinct
<1> QED BY <1>4 DEF left

\* While they are distinct, an identifier removes the bookmark that has it.
LEMMA WithoutDistinct ==
  ASSUME NEW bkms, BkmList(bkms), Distinct(bkms), NEW id
  PROVE  /\ Distinct(Without(bkms, id))
         /\ \A at \in 1..Len(bkms) : bkms[at].id = id => Without(bkms, id) = RemoveAt(bkms, at)
<1> DEFINE first == SelectInSeq(bkms, LAMBDA b : b.id = id)
<1>1. \/ first = 0 /\ \A i \in 1..Len(bkms) : bkms[i].id # id
      \/ first \in 1..Len(bkms) /\ bkms[first].id = id
  BY FirstWithId DEF BkmList
<1>2. Without(bkms, id) = IF first = 0 THEN bkms ELSE RemoveAt(bkms, first)
  BY DEF Without
<1> HIDE DEF first
<1>3. CASE first = 0
  BY <1>1, <1>2, <1>3
<1>4. CASE first \in 1..Len(bkms) /\ bkms[first].id = id
  <2>1. \A at \in 1..Len(bkms) : bkms[at].id = id => at = first
    BY <1>4 DEF Distinct
  <2>2. Distinct(RemoveAt(bkms, first))
    BY <1>4, RemoveAtDistinct
  <2>3. Without(bkms, id) = RemoveAt(bkms, first)
    BY <1>2, <1>4
  <2> QED BY <2>1, <2>2, <2>3
<1> QED BY <1>1, <1>3, <1>4

\* What AddBkm gives is an identifier; before the last one it is above all others.
LEMMA NewIdFacts ==
  ASSUME NEW bkms, BkmList(bkms)
  PROVE  /\ NewId(bkms) \in 0..MaxId
         /\ MaxId \notin Ids(bkms) => \A i \in 1..Len(bkms) : bkms[i].id < NewId(bkms)
<1>1. CASE bkms = <<>>
  BY <1>1, BkmAssumption DEF NewId
<1>2. CASE bkms # <<>>
  <2>1. /\ Len(bkms) \in Nat \ {0} /\ \A i \in 1..Len(bkms) : bkms[i].id \in 0..MaxId
    <3>1. \A i \in 1..Len(bkms) : bkms[i] \in Bkm
      BY DEF BkmList
    <3>2. Len(bkms) \in Nat /\ Len(bkms) # 0
      BY <1>2 DEF BkmList
    <3> QED BY <3>1, <3>2 DEF Bkm
  <2> DEFINE Above == {n \in Nat : \A i \in 1..Len(bkms) : bkms[i].id <= n}
             top == Max(Ids(bkms))
  <2>2. MaxId \in Above
    BY <2>1, BkmAssumption
  <2>3. PICK n \in Above : \A m \in Above : n <= m
    BY <2>2, LeastOf
  <2>4. PICK i \in 1..Len(bkms) : bkms[i].id = n
    <3>1. CASE n = 0
      <4>1. bkms[1].id \in 0..MaxId /\ bkms[1].id <= n /\ 1 \in 1..Len(bkms)
        BY <2>1, <2>3
      <4>2. bkms[1].id = n
        BY <3>1, <4>1
      <4> QED BY <4>1, <4>2
    <3>2. CASE n # 0
      <4>1. n \in Nat /\ n - 1 \in Nat /\ n - 1 \notin Above
        BY <2>3, <3>2
      <4>2. PICK i \in 1..Len(bkms) : ~(bkms[i].id <= n - 1)
        BY <4>1
      <4>3. bkms[i].id \in 0..MaxId /\ bkms[i].id <= n
        BY <2>1, <2>3, <4>2
      <4>4. bkms[i].id = n
        BY <4>1, <4>2, <4>3
      <4> QED BY <4>4
    <3> QED BY <3>1, <3>2
  <2>5. Ids(bkms) = {bkms[k].id : k \in 1..Len(bkms)}
    BY DEF Ids, ToSet, BkmList
  <2>6. n \in Ids(bkms) /\ \A id \in Ids(bkms) : n >= id
    BY <2>1, <2>3, <2>4, <2>5
  <2>7. top \in Ids(bkms) /\ \A id \in Ids(bkms) : top >= id
    BY <2>6 DEF Max
  <2>8. NewId(bkms) = (top + 1) % (MaxId + 1)
    BY <1>2 DEF NewId
  <2> HIDE DEF top
  <2>9. top \in 0..MaxId
    BY <2>1, <2>5, <2>7
  <2>10. NewId(bkms) \in 0..MaxId
    BY <2>8, <2>9, BkmAssumption
  <2>11. ASSUME MaxId \notin Ids(bkms), NEW k \in 1..Len(bkms)
         PROVE  bkms[k].id < NewId(bkms)
    <3>1. top # MaxId
      BY <2>7, <2>11
    <3>2. top + 1 \in 0..MaxId
      BY <2>9, <3>1, BkmAssumption
    <3>3. NewId(bkms) = top + 1
      <4>1. \A m \in Nat : \A t \in 0..m : t % (m + 1) = t
        OBVIOUS
      <4> QED BY <2>8, <3>2, <4>1, BkmAssumption
    <3>4. bkms[k].id \in 0..MaxId /\ bkms[k].id <= top
      BY <2>1, <2>5, <2>7
    <3> QED BY <2>9, <3>3, <3>4, BkmAssumption
  <2> QED BY <2>10, <2>11
<1> QED BY <1>1, <1>2

\* A bookmark added.
LEMMA AppendFacts ==
  ASSUME NEW bkms, BkmList(bkms), NEW spans \in SpanLists
  PROVE  BkmList(Append(bkms, [id |-> NewId(bkms), spans |-> spans]))
<1> DEFINE b == [id |-> NewId(bkms), spans |-> spans]
<1>1. b \in Bkm
  BY NewIdFacts DEF Bkm
<1> HIDE DEF b
<1>2. Append(bkms, b) \in Seq(Bkm)
  BY <1>1 DEF BkmList
<1> QED BY <1>2 DEF BkmList, b

\* Before the last identifier, it has one of its own.
LEMMA AppendDistinct ==
  ASSUME NEW bkms, BkmList(bkms), Distinct(bkms), MaxId \notin Ids(bkms), NEW spans
  PROVE  Distinct(Append(bkms, [id |-> NewId(bkms), spans |-> spans]))
<1> DEFINE b == [id |-> NewId(bkms), spans |-> spans]
           more == Append(bkms, b)
<1>1. b.id = NewId(bkms)
  OBVIOUS
<1> HIDE DEF b
<1>2. /\ Len(more) = Len(bkms) + 1 /\ Len(bkms) \in Nat
      /\ more[Len(bkms) + 1] = b /\ \A i \in 1..Len(bkms) : more[i] = bkms[i]
  BY DEF BkmList
<1>3. \A i \in 1..Len(bkms) : bkms[i].id < NewId(bkms) /\ bkms[i].id \in Int
  <2>1. \A i \in 1..Len(bkms) : bkms[i] \in Bkm
    BY DEF BkmList
  <2> QED BY <2>1, NewIdFacts DEF Bkm
<1>4. NewId(bkms) \in Int
  BY NewIdFacts
<1> HIDE DEF more
<1>5. ASSUME NEW i \in 1..Len(more), NEW j \in 1..Len(more), more[i].id = more[j].id
      PROVE  i = j
  <2>1. i \in 1..Len(bkms) \/ i = Len(bkms) + 1
    BY <1>2
  <2>2. j \in 1..Len(bkms) \/ j = Len(bkms) + 1
    BY <1>2
  <2> QED BY <1>1, <1>2, <1>3, <1>4, <1>5, <2>1, <2>2 DEF Distinct
<1>6. Distinct(more)
  BY <1>5 DEF Distinct
<1> QED BY <1>6 DEF more, b

-----------------------------------------------------------------------------
(* Removing the selected bookmarks                                         *)

\* The rounds of the loop, one for each of the list's items, from the last.
IsRounds(left, bkms, n) ==
  left = [k \in 0..n |-> IF k = 0 THEN bkms ELSE RemoveItem(left[k - 1], items - k)]

\* They can be taken one after the other.
LEMMA RoundsExist ==
  ASSUME NEW bkms
  PROVE  \A n \in Nat : \E left : IsRounds(left, bkms, n)
<1> DEFINE Bad == {n \in Nat : ~\E left : IsRounds(left, bkms, n)}
<1>1. SUFFICES ASSUME Bad # {} PROVE FALSE
  OBVIOUS
<1>2. PICK n \in Bad : \A m \in Bad : n <= m
  <2>1. Bad \in SUBSET Nat
    OBVIOUS
  <2> HIDE DEF Bad
  <2> QED BY <1>1, <2>1, LeastOf
<1>3. n # 0
  <2>1. IsRounds([k \in 0..0 |-> bkms], bkms, 0)
    BY DEF IsRounds
  <2> QED BY <1>2, <2>1
<1>4. n - 1 \in Nat /\ n - 1 \notin Bad
  BY <1>2, <1>3
<1>5. PICK left : IsRounds(left, bkms, n - 1)
  BY <1>4
<1> DEFINE more == [k \in 0..n |-> IF k = 0 THEN bkms ELSE RemoveItem(left[k - 1], items - k)]
<1>6. ASSUME NEW k \in 0..n, k # 0 PROVE more[k - 1] = left[k - 1]
  <2>1. k - 1 \in 0..n - 1 /\ k - 1 \in 0..n
    BY <1>6
  <2>2. left[k - 1] = IF k - 1 = 0 THEN bkms ELSE RemoveItem(left[(k - 1) - 1], items - (k - 1))
    BY <1>5, <2>1 DEF IsRounds
  <2> QED BY <2>1, <2>2
<1>7. IsRounds(more, bkms, n)
  <2> DEFINE again == [k \in 0..n |-> IF k = 0 THEN bkms ELSE RemoveItem(more[k - 1], items - k)]
  <2>1. ASSUME NEW k \in 0..n PROVE again[k] = more[k]
    <3>1. CASE k = 0
      BY <3>1
    <3>2. CASE k # 0
      <4>1. more[k - 1] = left[k - 1]
        BY <1>6, <3>2
      <4> HIDE DEF more
      <4>2. again[k] = RemoveItem(more[k - 1], items - k)
        BY <3>2
      <4> QED BY <3>2, <4>1, <4>2 DEF more
    <3> QED BY <3>1, <3>2
  <2>2. again = more
    BY <2>1
  <2> HIDE DEF more
  <2> QED BY <2>2 DEF IsRounds
<1> QED BY <1>2, <1>7

\* The bookmarks left are those of the last round.
LEMMA RoundsOfMenu ==
  ASSUME NEW bkms, items \in Nat
  PROVE  \E left :
           /\ WithoutSelected(bkms) = left[items]
           /\ left[0] = bkms
           /\ \A k \in 1..items : left[k] = RemoveItem(left[k - 1], items - k)
<1> DEFINE left == CHOOSE f : IsRounds(f, bkms, items)
<1>1. IsRounds(left, bkms, items)
  BY RoundsExist
<1>2. WithoutSelected(bkms) = left[items]
  BY DEF WithoutSelected, IsRounds
<1> HIDE DEF left
<1>3. left[0] = bkms
  BY <1>1 DEF IsRounds
<1>4. \A k \in 1..items : left[k] = RemoveItem(left[k - 1], items - k)
  BY <1>1 DEF IsRounds
<1> QED BY <1>2, <1>3, <1>4

\* A round leaves bookmarks, and no more of them.
LEMMA RemoveItemFacts ==
  ASSUME NEW bkms, BkmList(bkms), NEW item
  PROVE  BkmList(RemoveItem(bkms, item)) /\ Len(RemoveItem(bkms, item)) <= Len(bkms)
<1>1. Len(bkms) \in Nat
  BY DEF BkmList
<1> DEFINE id == Shown(bkms)[item + 1].id
<1>2. RemoveItem(bkms, item) = bkms \/ RemoveItem(bkms, item) = Without(bkms, id)
  BY DEF RemoveItem
<1> HIDE DEF id
<1> QED BY <1>1, <1>2, WithoutFacts

\* And so do all of them.
LEMMA WithoutSelectedFacts ==
  ASSUME NEW bkms, BkmList(bkms), items \in Nat
  PROVE  BkmList(WithoutSelected(bkms)) /\ Len(WithoutSelected(bkms)) <= Len(bkms)
<1>1. PICK left :
        /\ WithoutSelected(bkms) = left[items]
        /\ left[0] = bkms
        /\ \A k \in 1..items : left[k] = RemoveItem(left[k - 1], items - k)
  BY RoundsOfMenu
<1> DEFINE Good(s) == BkmList(s) /\ Len(s) <= Len(bkms)
           Bad == {k \in 0..items : ~Good(left[k])}
<1>2. Bad = {}
  <2>1. SUFFICES ASSUME Bad # {} PROVE FALSE
    OBVIOUS
  <2>2. Bad \in SUBSET Nat
    OBVIOUS
  <2>3. PICK k \in Bad : \A m \in Bad : k <= m
    <3> HIDE DEF Bad
    <3> QED BY <2>1, <2>2, LeastOf
  <2>4. Len(bkms) \in Nat
    BY DEF BkmList
  <2>5. k # 0
    BY <1>1, <2>3, <2>4
  <2>6. k - 1 \in 0..items /\ k \in 1..items
    BY <2>3, <2>5
  <2>7. Good(left[k - 1])
    BY <2>3, <2>6
  <2>8. left[k] = RemoveItem(left[k - 1], items - k)
    BY <1>1, <2>6
  <2>9. BkmList(left[k]) /\ Len(left[k]) <= Len(left[k - 1])
    BY <2>7, <2>8, RemoveItemFacts
  <2>10. Len(left[k]) \in Nat /\ Len(left[k - 1]) \in Nat
    BY <2>7, <2>9 DEF BkmList
  <2>11. Good(left[k])
    BY <2>4, <2>7, <2>9, <2>10
  <2> QED BY <2>3, <2>11
<1>3. items \in 0..items
  OBVIOUS
<1> QED BY <1>1, <1>2, <1>3

\* Distinct identifiers stay so.
LEMMA WithoutSelectedDistinct ==
  ASSUME NEW bkms, BkmList(bkms), Distinct(bkms), items \in Nat
  PROVE  Distinct(WithoutSelected(bkms))
<1>1. PICK left :
        /\ WithoutSelected(bkms) = left[items]
        /\ left[0] = bkms
        /\ \A k \in 1..items : left[k] = RemoveItem(left[k - 1], items - k)
  BY RoundsOfMenu
<1> DEFINE Good(s) == BkmList(s) /\ Distinct(s)
           Bad == {k \in 0..items : ~Good(left[k])}
<1>2. ASSUME NEW s, NEW item, Good(s) PROVE Good(RemoveItem(s, item))
  <2> DEFINE id == Shown(s)[item + 1].id
  <2>1. RemoveItem(s, item) = s \/ RemoveItem(s, item) = Without(s, id)
    BY DEF RemoveItem
  <2> HIDE DEF id
  <2> QED BY <1>2, <2>1, WithoutFacts, WithoutDistinct
<1>3. Bad = {}
  <2>1. SUFFICES ASSUME Bad # {} PROVE FALSE
    OBVIOUS
  <2>2. Bad \in SUBSET Nat
    OBVIOUS
  <2>3. PICK k \in Bad : \A m \in Bad : k <= m
    <3> HIDE DEF Bad
    <3> QED BY <2>1, <2>2, LeastOf
  <2>4. k # 0
    BY <1>1, <2>3
  <2>5. k - 1 \in 0..items /\ k \in 1..items
    BY <2>3, <2>4
  <2>6. Good(left[k - 1])
    BY <2>3, <2>5
  <2>7. left[k] = RemoveItem(left[k - 1], items - k)
    BY <1>1, <2>5
  <2>8. Good(left[k])
    <3> HIDE DEF Good
    <3> QED BY <1>2, <2>6, <2>7
  <2> QED BY <2>3, <2>8
<1>4. items \in 0..items
  OBVIOUS
<1> QED BY <1>1, <1>3, <1>4

\* After some rounds: the bookmarks left are those not selected and those of the
\* first p, which no round has looked at yet and which stand where they stood.
KeptFrom(left, p, from) ==
  /\ from \in [1..Len(left) -> 1..Len(own)]
  /\ \A j, k \in 1..Len(left) : j < k => from[j] < from[k]
  /\ {from[k] : k \in 1..Len(left)} = {i \in 1..Len(own) : i - 1 \notin selected \/ i - 1 < p}
  /\ \A k \in 1..Len(left) : left[k] = own[from[k]]
  /\ \A j \in 1..Len(own) : j <= p => j \in 1..Len(left) /\ from[j] = j

Kept(left, p) ==
  /\ BkmList(left) /\ Distinct(left) /\ Len(left) <= Len(own)
  /\ \E from : KeptFrom(left, p, from)

\* A round that removes nothing.
LEMMA KeptAsIs ==
  ASSUME BkmInv, NEW left, NEW item \in Nat, Kept(left, item + 1),
         item \notin selected \/ ~(item < Len(left))
  PROVE  Kept(left, item)
<1>1. Len(own) \in Nat /\ Len(left) \in Nat
  BY DEF BkmInv, BkmList, Kept
<1>2. PICK from : KeptFrom(left, item + 1, from)
  BY DEF Kept
<1>3. ASSUME NEW i \in 1..Len(own), i - 1 < item + 1
      PROVE  i - 1 \notin selected \/ i - 1 < item
  <2>1. CASE i - 1 = item
    <3>1. i \in 1..Len(left)
      BY <1>1, <1>2, <1>3 DEF KeptFrom
    <3> QED BY <1>1, <2>1, <3>1
  <2> QED BY <1>1, <1>3, <2>1
<1>4. {i \in 1..Len(own) : i - 1 \notin selected \/ i - 1 < item + 1}
        = {i \in 1..Len(own) : i - 1 \notin selected \/ i - 1 < item}
  BY <1>1, <1>3
<1>5. \A j \in 1..Len(own) : j <= item => j <= item + 1
  BY <1>1
<1>6. KeptFrom(left, item, from)
  BY <1>2, <1>4, <1>5 DEF KeptFrom
<1> QED BY <1>6 DEF Kept

\* A round that removes a bookmark.
LEMMA KeptWithout ==
  ASSUME BkmInv, NEW left, NEW item \in Nat, Kept(left, item + 1),
         item \in selected, item < Len(left)
  PROVE  Kept(RemoveAt(left, item + 1), item)
<1> DEFINE at == item + 1
           rest == RemoveAt(left, at)
<1>1. /\ Len(own) \in Nat /\ Len(left) \in Nat /\ Len(left) <= Len(own) /\ BkmList(left)
      /\ Distinct(left)
  BY DEF BkmInv, BkmList, Kept
<1>2. at \in 1..Len(left) /\ at \in 1..Len(own)
  BY <1>1
<1>3. /\ rest \in Seq(Bkm) /\ Len(rest) = Len(left) - 1
      /\ \A i \in 1..Len(left) - 1 : rest[i] = IF i < at THEN left[i] ELSE left[i + 1]
  BY <1>1, <1>2, RemoveAtFacts DEF BkmList
<1>4. BkmList(rest) /\ Distinct(rest) /\ Len(rest) <= Len(own)
  <2>1. Distinct(rest)
    BY <1>1, <1>2, RemoveAtDistinct
  <2> QED BY <1>1, <1>3, <2>1 DEF BkmList
<1>5. PICK from : KeptFrom(left, at, from)
  BY DEF Kept
<1> HIDE DEF rest
<1>6. from[at] = at
  BY <1>1, <1>2, <1>5 DEF KeptFrom
<1> DEFINE to == [j \in 1..Len(rest) |-> IF j < at THEN from[j] ELSE from[j + 1]]
           skip(j) == IF j < at THEN j ELSE j + 1
<1>7. \A j \in 1..Len(rest) : skip(j) \in 1..Len(left) /\ skip(j) # at
  BY <1>1, <1>2, <1>3
<1>8. \A j \in 1..Len(rest) : to[j] = from[skip(j)] /\ rest[j] = left[skip(j)]
  BY <1>1, <1>2, <1>3
<1>9. \A j, k \in 1..Len(rest) : j < k => skip(j) < skip(k)
  BY <1>1, <1>2, <1>3
<1>10. \A k \in 1..Len(left) : k # at => \E j \in 1..Len(rest) : skip(j) = k
  <2>1. ASSUME NEW k \in 1..Len(left), k # at PROVE \E j \in 1..Len(rest) : skip(j) = k
    <3>1. CASE k < at
      <4>1. k \in 1..Len(rest) /\ skip(k) = k
        BY <1>1, <1>2, <1>3, <3>1
      <4> QED BY <4>1
    <3>2. CASE k > at
      <4>1. k - 1 \in 1..Len(rest) /\ skip(k - 1) = k
        BY <1>1, <1>2, <1>3, <3>2
      <4> QED BY <4>1
    <3> QED BY <1>1, <1>2, <2>1, <3>1, <3>2
  <2> QED BY <2>1
<1>11. \A j \in 1..Len(rest) : j < at => skip(j) = j
  OBVIOUS
<1>12. to \in [1..Len(rest) -> 1..Len(own)]
  <2>1. \A j \in 1..Len(rest) : to[j] \in 1..Len(own)
    <3> HIDE DEF to, skip
    <3> QED BY <1>5, <1>7, <1>8 DEF KeptFrom
  <2> QED BY <2>1
<1> HIDE DEF to, skip
<1>13. \A j, k \in 1..Len(rest) : j < k => to[j] < to[k]
  BY <1>5, <1>7, <1>8, <1>9 DEF KeptFrom
<1>14. \A k \in 1..Len(left) : k # at => from[k] # at
  <2>1. ASSUME NEW k \in 1..Len(left), k # at PROVE from[k] # at
    <3>1. from[k] \in Int /\ from[at] \in Int
      BY <1>1, <1>2, <1>5, <2>1 DEF KeptFrom
    <3>2. CASE k < at
      BY <1>1, <1>2, <1>5, <1>6, <2>1, <3>1, <3>2 DEF KeptFrom
    <3>3. CASE at < k
      BY <1>1, <1>2, <1>5, <1>6, <2>1, <3>1, <3>3 DEF KeptFrom
    <3> QED BY <1>1, <1>2, <2>1, <3>2, <3>3
  <2> QED BY <2>1
<1>15. {to[j] : j \in 1..Len(rest)} = {from[k] : k \in 1..Len(left)} \ {at}
  <2>1. ASSUME NEW j \in 1..Len(rest)
        PROVE  to[j] \in {from[k] : k \in 1..Len(left)} \ {at}
    BY <1>7, <1>8, <1>14
  <2>2. ASSUME NEW k \in 1..Len(left), from[k] # at
        PROVE  from[k] \in {to[j] : j \in 1..Len(rest)}
    <3>1. k # at
      BY <1>6, <2>2
    <3>2. PICK j \in 1..Len(rest) : skip(j) = k
      BY <1>10, <2>2, <3>1
    <3> QED BY <1>8, <3>2
  <2> QED BY <2>1, <2>2
<1>16. {i \in 1..Len(own) : i - 1 \notin selected \/ i - 1 < at} \ {at}
         = {i \in 1..Len(own) : i - 1 \notin selected \/ i - 1 < item}
  <2>1. \A i \in 1..Len(own) : (i - 1 < at /\ i # at) <=> i - 1 < item
    BY <1>1
  <2>2. \A i \in 1..Len(own) : i = at <=> i - 1 = item
    BY <1>1
  <2> HIDE DEF at
  <2> QED BY <2>1, <2>2
<1>17. {to[j] : j \in 1..Len(rest)}
         = {i \in 1..Len(own) : i - 1 \notin selected \/ i - 1 < item}
  BY <1>5, <1>15, <1>16 DEF KeptFrom
<1>18. \A j \in 1..Len(rest) : rest[j] = own[to[j]]
  <2>1. \A k \in 1..Len(left) : left[k] = own[from[k]]
    BY <1>5 DEF KeptFrom
  <2>2. ASSUME NEW j \in 1..Len(rest) PROVE rest[j] = own[to[j]]
    <3>1. skip(j) \in 1..Len(left)
      BY <1>7
    <3>2. left[skip(j)] = own[from[skip(j)]]
      BY <2>1, <3>1
    <3> QED BY <1>8, <3>2
  <2> QED BY <2>2
<1>19. \A j \in 1..Len(own) : j <= item => j \in 1..Len(rest) /\ to[j] = j
  <2>1. ASSUME NEW j \in 1..Len(own), j <= item PROVE j \in 1..Len(rest) /\ to[j] = j
    <3>1. j < at /\ j <= at /\ j \in 1..Len(rest)
      BY <1>1, <1>2, <1>3, <2>1
    <3>2. from[j] = j
      BY <1>5, <3>1 DEF KeptFrom
    <3> QED BY <1>8, <1>11, <3>1, <3>2
  <2> QED BY <2>1
<1>20. KeptFrom(rest, item, to)
  BY <1>12, <1>13, <1>17, <1>18, <1>19 DEF KeptFrom
<1>21. Kept(rest, item)
  BY <1>4, <1>20 DEF Kept
<1> QED BY <1>21 DEF rest

\* The rounds remove the selected bookmarks, and no others.
LEMMA MenuKeeps ==
  ASSUME BkmInv, isVirtual = FALSE, Distinct(own)
  PROVE  Keeps(WithoutSelected(own), own, {i \in 1..Len(own) : i - 1 \notin selected})
<1>1. Len(own) \in Nat /\ items \in Nat /\ BkmList(own) /\ selected \subseteq 0..items - 1
  BY DEF BkmInv, BkmList
<1>2. PICK left :
        /\ WithoutSelected(own) = left[items]
        /\ left[0] = own
        /\ \A k \in 1..items : left[k] = RemoveItem(left[k - 1], items - k)
  BY <1>1, RoundsOfMenu
<1>3. Kept(left[0], items)
  <2> DEFINE same == [i \in 1..Len(own) |-> i]
  <2>1. \A i \in 1..Len(own) : i - 1 \notin selected \/ i - 1 < items
    BY <1>1
  <2>2. {same[i] : i \in 1..Len(own)}
          = {i \in 1..Len(own) : i - 1 \notin selected \/ i - 1 < items}
    BY <2>1
  <2>3. KeptFrom(own, items, same)
    BY <1>1, <2>2 DEF KeptFrom
  <2> HIDE DEF same
  <2> QED BY <1>1, <1>2, <2>3 DEF Kept
<1>4. ASSUME NEW k \in 1..items, Kept(left[k - 1], items - (k - 1))
      PROVE  Kept(left[k], items - k)
  <2> DEFINE item == items - k
             before == left[k - 1]
  <2>1. item \in Nat /\ items - (k - 1) = item + 1
    BY <1>1
  <2>2. left[k] = RemoveItem(before, item)
    BY <1>2
  <2>3. Kept(before, item + 1) /\ BkmList(before) /\ Distinct(before) /\ Len(before) \in Nat
    BY <1>4, <2>1 DEF Kept, BkmList
  <2>4. Shown(before) = before
    BY DEF Shown
  <2> HIDE DEF item, before
  <2>5. CASE item \in selected /\ item < Len(before)
    <3>1. item + 1 \in 1..Len(before)
      BY <2>1, <2>3, <2>5
    <3>2. left[k] = Without(before, before[item + 1].id)
      BY <2>2, <2>4, <2>5 DEF RemoveItem
    <3>3. left[k] = RemoveAt(before, item + 1)
      BY <2>3, <3>1, <3>2, WithoutDistinct
    <3>4. Kept(RemoveAt(before, item + 1), item)
      BY <2>1, <2>3, <2>5, KeptWithout
    <3> QED BY <3>3, <3>4 DEF item
  <2>6. CASE ~(item \in selected /\ item < Len(before))
    <3>1. left[k] = before
      BY <2>2, <2>4, <2>6 DEF RemoveItem
    <3>2. Kept(before, item)
      BY <2>1, <2>3, <2>6, KeptAsIs
    <3> QED BY <3>1, <3>2 DEF item
  <2> QED BY <2>5, <2>6
<1> DEFINE Bad == {k \in 0..items : ~Kept(left[k], items - k)}
<1>5. Bad = {}
  <2>1. SUFFICES ASSUME Bad # {} PROVE FALSE
    OBVIOUS
  <2>2. PICK k \in Bad : \A m \in Bad : k <= m
    <3>1. Bad \in SUBSET Nat
      OBVIOUS
    <3> HIDE DEF Bad
    <3> QED BY <2>1, <3>1, LeastOf
  <2>3. k # 0
    BY <1>1, <1>3, <2>2
  <2>4. k \in 1..items /\ k - 1 \in 0..items /\ k - 1 \notin Bad
    BY <1>1, <2>2, <2>3
  <2>5. Kept(left[k - 1], items - (k - 1))
    BY <2>4
  <2> QED BY <1>4, <2>2, <2>4, <2>5
<1>6. Kept(left[items], 0)
  <2>1. items \in 0..items /\ items - items = 0
    BY <1>1
  <2> QED BY <1>5, <2>1
<1> DEFINE rest == left[items]
<1>7. PICK from : KeptFrom(rest, 0, from)
  BY <1>6 DEF Kept
<1>8. {i \in 1..Len(own) : i - 1 \notin selected \/ i - 1 < 0}
        = {i \in 1..Len(own) : i - 1 \notin selected}
  BY <1>1
<1>9. Keeps(rest, own, {i \in 1..Len(own) : i - 1 \notin selected})
  BY <1>7, <1>8 DEF Keeps, KeptFrom
<1> QED BY <1>2, <1>9

-----------------------------------------------------------------------------
(* Type correctness                                                        *)

\* A bookmark's first offset is an offset.
LEMMA OffsetIsNat ==
  ASSUME NEW b \in Bkm
  PROVE  FirstOffset(b) \in Nat
<1>1. b.spans \in Seq(Nat \X Nat) /\ b.spans # <<>>
  BY DEF Bkm, SpanLists
<1>2. b.spans[1] \in Nat \X Nat
  BY <1>1
<1> QED BY <1>2 DEF FirstOffset

\* What the data of dataSize bytes, the list and the caret have to be.
CaretIn(caret, size) == caret \in 0..size - 1 \/ caret = 0
ListIn(count, sel) == count \in Nat /\ sel \subseteq 0..count - 1

\* The caret stays in the data, wherever a bookmark is.
LEMMA CaretStays ==
  ASSUME NEW bkms, BkmList(bkms), NEW index \in Int,
         dataSize \in Nat, CaretIn(caretPos, dataSize)
  PROVE  CaretIn(CaretTo(bkms, index), dataSize)
<1>1. CASE index \in 0..Len(bkms) - 1 /\ FirstOffset(bkms[index + 1]) < dataSize
  <2>1. Len(bkms) \in Nat
    BY DEF BkmList
  <2>2. index + 1 \in 1..Len(bkms)
    BY <1>1, <2>1
  <2>3. bkms[index + 1] \in Bkm
    BY <2>2 DEF BkmList
  <2>4. FirstOffset(bkms[index + 1]) \in Nat
    BY <2>3, OffsetIsNat
  <2>5. FirstOffset(bkms[index + 1]) \in 0..dataSize - 1
    BY <1>1, <2>4
  <2> QED BY <1>1, <2>5 DEF CaretTo, CaretIn
<1>2. CASE ~(index \in 0..Len(bkms) - 1 /\ FirstOffset(bkms[index + 1]) < dataSize)
  BY <1>2 DEF CaretTo, CaretIn
<1> QED BY <1>1, <1>2

\* The list has as many items as there are bookmarks to show.
LEMMA ListUpdates ==
  ASSUME BkmInv, NEW bkms, BkmList(bkms), NEW preserve \in BOOLEAN,
         UpdateListCount(bkms, preserve)
  PROVE  /\ ListIn(items', selected') /\ CaretIn(caretPos', dataSize)
         /\ dialog => items' = Len(bkms)
<1>1. Len(bkms) \in Nat /\ dataSize \in Nat /\ CaretIn(caretPos, dataSize)
  BY DEF BkmInv, BkmList, CaretIn
<1>2. current \in Nat
  BY BkmAssumption DEF BkmInv
<1>3. CaretIn(CaretTo(bkms, current), dataSize)
  BY <1>1, <1>2, CaretStays
<1>4. CASE dialog = FALSE
  BY <1>1, <1>4 DEF UpdateListCount, ListIn, BkmInv
<1>5. CASE dialog = TRUE
  <2>1. items' = Len(bkms)
    BY <1>5 DEF UpdateListCount
  <2>2. \/ selected' = {} /\ caretPos' = caretPos
        \/ selected' = {current} /\ current < Len(bkms) /\ caretPos' = CaretTo(bkms, current)
    BY <1>5 DEF UpdateListCount
  <2>3. selected' \subseteq 0..items' - 1
    BY <1>1, <1>2, <2>1, <2>2
  <2>4. CaretIn(caretPos', dataSize)
    BY <1>1, <1>3, <2>2
  <2> QED BY <1>1, <2>1, <2>3, <2>4 DEF ListIn
<1> QED BY <1>4, <1>5 DEF BkmInv

\* The bookmarks shown.
LEMMA ShownFacts ==
  ASSUME BkmInv
  PROVE  /\ BkmList(Shown(own)) /\ Len(Shown(own)) \in Nat
         /\ Len(Shown(own)) <= MaxBkms /\ (isVirtual => Len(Shown(own)) <= MaxVirt)
         /\ GetCount = Len(Shown(own))
<1>1. /\ Len(own) \in Nat /\ Len(handler) \in Nat /\ isVirtual \in BOOLEAN
      /\ MaxVirt \in Nat /\ MaxBkms \in Nat /\ MaxVirt <= MaxBkms
  BY BkmAssumption DEF BkmInv, BkmList
<1>2. CASE isVirtual = TRUE
  BY <1>1, <1>2 DEF Shown, GetCount, BkmInv
<1>3. CASE isVirtual = FALSE
  BY <1>1, <1>3 DEF Shown, GetCount, BkmInv
<1> QED BY <1>1, <1>2, <1>3

\* The two lists of bookmarks.
ListsIn(mine, theirs) ==
  /\ BkmList(mine) /\ Len(mine) <= MaxBkms
  /\ BkmList(theirs) /\ Len(theirs) <= MaxVirt

\* Showing others.
LEMMA SetShownFacts ==
  ASSUME BkmInv, NEW bkms, BkmList(bkms), SetShown(bkms),
         Len(bkms) <= IF isVirtual THEN MaxVirt ELSE MaxBkms
  PROVE  ListsIn(own', handler')
<1>1. isVirtual \in BOOLEAN
  BY DEF BkmInv
<1>2. CASE isVirtual = TRUE
  BY <1>2 DEF SetShown, ListsIn, BkmInv
<1>3. CASE isVirtual = FALSE
  BY <1>3 DEF SetShown, ListsIn, BkmInv
<1> QED BY <1>1, <1>2, <1>3

\* Fewer bookmarks to show.
LEMMA RemovedFacts ==
  ASSUME BkmInv, NEW bkms, BkmList(bkms), Len(bkms) <= Len(Shown(own)), Removed(bkms)
  PROVE  BkmInv'
<1>1. Len(bkms) \in Nat /\ Len(Shown(own)) \in Nat /\ MaxVirt \in Nat /\ MaxBkms \in Nat
  BY ShownFacts, BkmAssumption DEF BkmList
<1>2. Len(bkms) <= IF isVirtual THEN MaxVirt ELSE MaxBkms
  BY <1>1, ShownFacts
<1>3. SetShown(bkms) /\ UpdateListCount(bkms, FALSE)
  BY DEF Removed
<1>4. ListsIn(own', handler')
  BY <1>2, <1>3, SetShownFacts
<1>5. ListIn(items', selected') /\ CaretIn(caretPos', dataSize)
  BY <1>3, ListUpdates
<1>6. UNCHANGED <<current, isVirtual, dialog, dataSize>>
  BY DEF Removed
<1> QED BY <1>4, <1>5, <1>6 DEF BkmInv, ListsIn, ListIn, CaretIn

\* No bookmarks.
LEMMA NoBookmarks == BkmList(<<>>) /\ Len(<<>>) = 0
BY DEF BkmList

-----------------------------------------------------------------------------
(* One step of each action                                                 *)

\* A step after which the list has an item for each bookmark.
Follows ==
  dialog' /\ <<own, handler>>' # <<own, handler>> /\ Len(Shown(own)) # Len(Shown(own)')
    => items' = Len(Shown(own)') /\ selected' \subseteq 0..items' - 1

\* It is enough that the bookmarks shown become bkms and the list is told.
LEMMA ToldFollows ==
  ASSUME BkmInv, BkmInv', NEW bkms, BkmList(bkms), NEW preserve \in BOOLEAN,
         SetShown(bkms), UpdateListCount(bkms, preserve), isVirtual' = isVirtual,
         dialog' = dialog
  PROVE  Follows
<1>1. Shown(own)' = bkms
  <2>1. isVirtual \in BOOLEAN
    BY DEF BkmInv
  <2> QED BY <2>1 DEF SetShown, Shown
<1>2. dialog => items' = Len(bkms)
  BY ListUpdates
<1>3. selected' \subseteq 0..items' - 1
  BY DEF BkmInv
<1> QED BY <1>1, <1>2, <1>3 DEF Follows

\* A step that leaves the number of bookmarks as it is needs no more.
LEMMA SameNumberFollows ==
  ASSUME Len(Shown(own)') = Len(Shown(own))
  PROVE  Follows
BY DEF Follows

\* The list after a removal.
LEMMA RemovedStep ==
  ASSUME BkmInv, NEW bkms, BkmList(bkms), Len(bkms) <= Len(Shown(own)), Removed(bkms)
  PROVE  BkmInv' /\ Follows
<1>1. BkmInv'
  BY RemovedFacts
<1>2. /\ SetShown(bkms) /\ UpdateListCount(bkms, FALSE)
      /\ isVirtual' = isVirtual /\ dialog' = dialog
  BY DEF Removed
<1> QED BY <1>1, <1>2, ToldFollows

\* AddBkm.
LEMMA AddBkmStep ==
  ASSUME BkmInv, NEW spans \in Extents, AddBkm(spans)
  PROVE  BkmInv' /\ Follows
<1> DEFINE bkms == Append(Shown(own), [id |-> NewId(Shown(own)), spans |-> spans])
<1>1. /\ Len(bkms) <= (IF isVirtual THEN MaxVirt ELSE MaxBkms)
      /\ SetShown(bkms) /\ UpdateListCount(bkms, TRUE)
      /\ UNCHANGED <<current, isVirtual, dialog, dataSize>>
  BY DEF AddBkm
<1>2. spans \in SpanLists
  BY BkmAssumption DEF SpanLists
<1>3. BkmList(bkms)
  BY <1>1, <1>2, AppendFacts, ShownFacts
<1> HIDE DEF bkms
<1>4. ListsIn(own', handler')
  BY <1>1, <1>3, SetShownFacts
<1>5. ListIn(items', selected') /\ CaretIn(caretPos', dataSize)
  BY <1>1, <1>3, ListUpdates
<1>6. BkmInv'
  BY <1>1, <1>4, <1>5 DEF BkmInv, ListsIn, ListIn, CaretIn
<1> QED BY <1>1, <1>3, <1>6, ToldFollows

\* The three ways to remove bookmarks one by one or all together.
LEMMA RemoveSteps ==
  ASSUME BkmInv, RemoveByOffset \/ (\E id \in 0..MaxId : RemoveByID(id)) \/ RemoveAll
  PROVE  BkmInv' /\ Follows
<1>1. BkmList(Shown(own)) /\ Len(Shown(own)) \in Nat
  BY ShownFacts
<1>2. ASSUME NEW id, Removed(Without(Shown(own), id)) PROVE BkmInv' /\ Follows
  BY <1>1, <1>2, WithoutFacts, RemovedStep
<1>3. CASE RemoveByOffset
  BY <1>2, <1>3 DEF RemoveByOffset
<1>4. CASE \E id \in 0..MaxId : RemoveByID(id)
  BY <1>2, <1>4 DEF RemoveByID
<1>5. CASE RemoveAll
  <2>1. Len(<<>>) <= Len(Shown(own))
    BY <1>1, NoBookmarks
  <2> QED BY <1>5, <2>1, NoBookmarks, RemovedStep DEF RemoveAll
<1> QED BY <1>3, <1>4, <1>5

\* GoNext and GoPrev: the current index is one of the bookmarks shown, or 0.
LEMMA GoSteps ==
  ASSUME BkmInv, GoNext \/ GoPrev
  PROVE  BkmInv' /\ Follows
<1>1. /\ BkmList(Shown(own)) /\ GetCount = Len(Shown(own)) /\ GetCount \in Nat
      /\ GetCount <= MaxBkms /\ MaxBkms \in Nat \ {0} /\ current \in Nat
  BY ShownFacts, BkmAssumption DEF BkmInv
<1>2. ASSUME NEW index \in Int, Go(index), GetCount > 0 => index \in 0..GetCount - 1
      PROVE  BkmInv' /\ Follows
  <2>1. GetCount > 0
    BY <1>2 DEF Go, IsCmdAvail, HasBookmarks
  <2>2. index \in 0..MaxBkms - 1
    BY <1>1, <1>2, <2>1
  <2>3. CaretIn(CaretTo(Shown(own), index), dataSize)
    BY <1>1, CaretStays DEF BkmInv, CaretIn
  <2>4. /\ current' = index /\ caretPos' = CaretTo(Shown(own), index)
        /\ UNCHANGED <<own, handler, isVirtual, dialog, items, selected, dataSize>>
    BY <1>2 DEF Go
  <2>5. BkmInv'
    BY <2>2, <2>3, <2>4 DEF BkmInv, CaretIn
  <2> QED BY <2>4, <2>5 DEF Follows
<1>3. CASE GoNext
  <2>1. NextIndex(current) \in Int /\ (GetCount > 0 => NextIndex(current) \in 0..GetCount - 1)
    BY <1>1 DEF NextIndex
  <2> QED BY <1>2, <1>3, <2>1 DEF GoNext
<1>4. CASE GoPrev
  <2>1. PrevIndex(current) \in Int /\ (GetCount > 0 => PrevIndex(current) \in 0..GetCount - 1)
    BY <1>1 DEF PrevIndex
  <2> QED BY <1>2, <1>4, <2>1 DEF GoPrev
<1> QED BY <1>3, <1>4

\* The dialog's and the control's windows come and go.
LEMMA WindowSteps ==
  ASSUME BkmInv, CreateDlg \/ OnDestroy
  PROVE  BkmInv' /\ Follows
<1>1. GetCount \in Nat /\ MaxBkms \in Nat /\ MaxVirt \in Nat
  BY ShownFacts, BkmAssumption
<1>2. CASE CreateDlg
  <2>1. /\ dialog' = TRUE /\ items' = GetCount /\ selected' = {}
        /\ UNCHANGED <<own, handler, isVirtual, current, dataSize, caretPos>>
    BY <1>2 DEF CreateDlg
  <2>2. dialog' \in BOOLEAN
    BY <2>1
  <2>3. BkmInv'
    BY <1>1, <2>1, <2>2 DEF BkmInv
  <2> QED BY <2>1, <2>3 DEF Follows
<1>3. CASE OnDestroy
  <2>1. /\ SetShown(<<>>)
        /\ dialog' = FALSE /\ items' = 0 /\ selected' = {}
        /\ dataSize' = 0 /\ caretPos' = 0
        /\ UNCHANGED <<isVirtual, current>>
    BY <1>3 DEF OnDestroy
  <2>2. ListsIn(own', handler')
    BY <1>1, <2>1, NoBookmarks, SetShownFacts
  <2>3. dialog' \in BOOLEAN
    BY <2>1
  <2>4. BkmInv'
    BY <2>1, <2>2, <2>3 DEF BkmInv, ListsIn
  <2> QED BY <2>1, <2>4 DEF Follows
<1> QED BY <1>2, <1>3

\* SelectItem.
LEMMA SelectItemStep ==
  ASSUME BkmInv, NEW item \in 0..items - 1, NEW add \in BOOLEAN, SelectItem(item, add)
  PROVE  BkmInv' /\ Follows
<1>1. /\ BkmList(Shown(own)) /\ GetCount \in Nat /\ GetCount <= MaxBkms /\ MaxBkms \in Nat
      /\ items \in Nat
  BY ShownFacts, BkmAssumption DEF BkmInv
<1>2. UNCHANGED <<own, handler, isVirtual, dialog, items, dataSize>>
  BY DEF SelectItem
<1>3. selected' = selected \cup {item} \/ selected' = {item}
  BY DEF SelectItem
<1>4. selected' \subseteq 0..items - 1
  BY <1>3 DEF BkmInv
<1>5. CaretIn(CaretTo(Shown(own), item), dataSize)
  BY <1>1, CaretStays DEF BkmInv, CaretIn
<1>6. current' \in 0..MaxBkms - 1 /\ CaretIn(caretPos', dataSize)
  <2>1. CASE UNCHANGED <<current, caretPos>>
    BY <2>1 DEF BkmInv, CaretIn
  <2>2. CASE item < GetCount /\ current' = item /\ caretPos' = CaretTo(Shown(own), item)
    BY <1>1, <1>5, <2>2
  <2> QED BY <2>1, <2>2 DEF SelectItem, GoBookmark
<1>7. BkmInv'
  BY <1>2, <1>4, <1>6 DEF BkmInv, CaretIn
<1> QED BY <1>2, <1>7 DEF Follows

\* RemoveSelected: the loop removes from the bookmarks of the control, and the
\* list shows whichever are shown.
LEMMA RemoveSelectedStep ==
  ASSUME BkmInv, RemoveSelected
  PROVE  BkmInv' /\ Follows
<1> DEFINE left == WithoutSelected(own)
<1>1. /\ BkmList(own) /\ Len(own) \in Nat /\ Len(own) <= MaxBkms /\ items \in Nat
      /\ BkmList(handler) /\ MaxBkms \in Nat /\ isVirtual \in BOOLEAN
  BY BkmAssumption DEF BkmInv, BkmList
<1>2. BkmList(left) /\ Len(left) <= Len(own)
  BY <1>1, WithoutSelectedFacts
<1>3. Len(left) \in Nat
  BY <1>2 DEF BkmList
<1>4. own' = left /\ UNCHANGED <<handler, isVirtual, current, dialog, dataSize>>
  BY DEF RemoveSelected
<1>5. UpdateListCount(Shown(left), FALSE)
  BY <1>4 DEF RemoveSelected
<1> HIDE DEF left
<1>6. BkmList(Shown(left))
  BY <1>1, <1>2 DEF Shown
<1>7. ListIn(items', selected') /\ CaretIn(caretPos', dataSize)
  BY <1>5, <1>6, ListUpdates
<1>8. Len(left) <= MaxBkms
  BY <1>1, <1>2, <1>3
<1>9. BkmInv'
  BY <1>2, <1>4, <1>7, <1>8 DEF BkmInv, ListIn, CaretIn
<1>10. CASE isVirtual = FALSE
  <2>1. SetShown(left) /\ Shown(left) = left
    BY <1>4, <1>10 DEF SetShown, Shown
  <2> QED BY <1>2, <1>4, <1>5, <1>9, <2>1, ToldFollows
<1>11. CASE isVirtual = TRUE
  <2>1. Shown(own)' = Shown(own)
    BY <1>4, <1>11 DEF Shown
  <2> QED BY <1>9, <2>1, SameNumberFollows
<1> QED BY <1>1, <1>10, <1>11

\* SortBookmarks.
LEMMA SortStep ==
  ASSUME BkmInv, NEW column, NEW ascending, SortBookmarks(column, ascending)
  PROVE  BkmInv' /\ Follows
<1>1. BkmList(own) /\ Len(own) \in Nat
  BY DEF BkmInv, BkmList
<1>2. PICK order \in [1..Len(own) -> 1..Len(own)] :
        /\ \A i, j \in 1..Len(own) : order[i] = order[j] => i = j
        /\ own' = [i \in 1..Len(own) |-> own[order[i]]]
  BY DEF SortBookmarks
<1> DEFINE sorted == [i \in 1..Len(own) |-> own[order[i]]]
<1>3. sorted \in Seq(Bkm) /\ Len(sorted) = Len(own)
  <2>1. \A i \in 1..Len(own) : own[order[i]] \in Bkm
    BY <1>1, <1>2 DEF BkmList
  <2> QED BY <1>1, <2>1
<1>4. /\ own' = sorted
      /\ UNCHANGED <<handler, isVirtual, current, dialog, items, selected, dataSize, caretPos>>
  BY <1>2 DEF SortBookmarks
<1> HIDE DEF sorted
<1>5. BkmInv'
  BY <1>3, <1>4 DEF BkmInv, BkmList
<1>6. Len(Shown(own)') = Len(Shown(own))
  BY <1>3, <1>4 DEF Shown
<1> QED BY <1>5, <1>6, SameNumberFollows

\* Another record for one of the bookmarks.
LEMMA WriteFacts ==
  ASSUME NEW bkms, BkmList(bkms), NEW at \in 1..Len(bkms), NEW bkm \in Bkm
  PROVE  LET written == [bkms EXCEPT ![at] = bkm]
         IN  /\ BkmList(written) /\ Len(written) = Len(bkms)
             /\ \A i \in 1..Len(bkms) : written[i] = IF i = at THEN bkm ELSE bkms[i]
<1> DEFINE written == [bkms EXCEPT ![at] = bkm]
<1>1. /\ Len(bkms) \in Nat /\ DOMAIN bkms = 1..Len(bkms)
      /\ \A i \in 1..Len(bkms) : bkms[i] \in Bkm
  BY DEF BkmList
<1>2. \A i \in 1..Len(bkms) : written[i] = IF i = at THEN bkm ELSE bkms[i]
  BY <1>1
<1>3. written \in Seq(Bkm) /\ Len(written) = Len(bkms)
  <2>1. DOMAIN written = 1..Len(bkms) /\ written = [i \in 1..Len(bkms) |-> written[i]]
    BY <1>1
  <2> HIDE DEF written
  <2>2. \A i \in 1..Len(bkms) : written[i] \in Bkm
    BY <1>1, <1>2
  <2> QED BY <1>1, <2>1, <2>2
<1> QED BY <1>2, <1>3 DEF BkmList

\* New spans for one leave the identifiers.
LEMMA EditFacts ==
  ASSUME NEW bkms, BkmList(bkms), NEW at \in 1..Len(bkms), NEW spans \in SpanLists
  PROVE  LET edited == [bkms EXCEPT ![at].spans = spans]
         IN  /\ BkmList(edited) /\ Len(edited) = Len(bkms)
             /\ \A i \in 1..Len(bkms) : edited[i].id = bkms[i].id
<1> DEFINE bkm == [bkms[at] EXCEPT !.spans = spans]
           edited == [bkms EXCEPT ![at].spans = spans]
<1>1. bkms[at] \in Bkm
  BY DEF BkmList
<1>2. bkm \in Bkm /\ bkm.id = bkms[at].id
  BY <1>1 DEF Bkm
<1>3. edited = [bkms EXCEPT ![at] = bkm]
  OBVIOUS
<1> HIDE DEF bkm, edited
<1>4. /\ BkmList(edited) /\ Len(edited) = Len(bkms)
      /\ \A i \in 1..Len(bkms) : edited[i] = IF i = at THEN bkm ELSE bkms[i]
  <2>1. LET written == [bkms EXCEPT ![at] = bkm]
        IN  /\ BkmList(written) /\ Len(written) = Len(bkms)
            /\ \A i \in 1..Len(bkms) : written[i] = IF i = at THEN bkm ELSE bkms[i]
    BY <1>2, WriteFacts
  <2> QED BY <1>3, <2>1
<1>5. \A i \in 1..Len(bkms) : edited[i].id = bkms[i].id
  BY <1>2, <1>4
<1> QED BY <1>4, <1>5 DEF edited

\* Update.
LEMMA UpdateIsWrite ==
  ASSUME BkmInv, NEW id, NEW bkm \in [id : Written, spans : Extents], Update(id, bkm)
  PROVE  /\ bkm \in Bkm
         /\ \E at \in 1..Len(own) : own[at].id = id /\ own' = [own EXCEPT ![at] = bkm]
<1> DEFINE at == SelectInSeq(own, LAMBDA b : b.id = id)
<1>1. at # 0 /\ own' = [own EXCEPT ![at] = bkm]
  BY DEF Update
<1>2. \/ at = 0 /\ \A i \in 1..Len(own) : own[i].id # id
      \/ at \in 1..Len(own) /\ own[at].id = id
  BY FirstWithId DEF BkmInv, BkmList
<1> HIDE DEF at
<1>3. bkm \in Bkm
  BY BkmAssumption DEF Bkm, SpanLists
<1> QED BY <1>1, <1>2, <1>3

LEMMA UpdateStep ==
  ASSUME BkmInv, NEW id, NEW bkm \in [id : Written, spans : Extents], Update(id, bkm)
  PROVE  BkmInv' /\ Follows
<1>1. UNCHANGED <<handler, isVirtual, current, dialog, items, selected, dataSize, caretPos>>
  BY DEF Update
<1>2. PICK at \in 1..Len(own) : own' = [own EXCEPT ![at] = bkm]
  BY UpdateIsWrite
<1>3. BkmList(own) /\ bkm \in Bkm
  BY UpdateIsWrite DEF BkmInv
<1>4. BkmList(own') /\ Len(own') = Len(own)
  BY <1>2, <1>3, WriteFacts
<1>5. BkmInv'
  BY <1>1, <1>4 DEF BkmInv
<1>6. Len(Shown(own)') = Len(Shown(own))
  BY <1>1, <1>4 DEF Shown
<1> QED BY <1>5, <1>6, SameNumberFollows

\* OnNotifyListSetData.
LEMMA SetDataOfItemStep ==
  ASSUME BkmInv, NEW item \in 0..items - 1, NEW spans \in Extents,
         OnNotifyListSetData(item, spans[1])
  PROVE  BkmInv' /\ Follows
<1> DEFINE bkms == [Shown(own) EXCEPT ![item + 1].spans = <<spans[1]>>]
<1>1. BkmList(Shown(own)) /\ GetCount = Len(Shown(own)) /\ GetCount \in Nat /\ items \in Nat
  BY ShownFacts DEF BkmInv
<1>2. /\ item < GetCount /\ SetShown(bkms)
      /\ UNCHANGED <<isVirtual, current, dialog, items, selected, dataSize, caretPos>>
  BY DEF OnNotifyListSetData
<1>3. item + 1 \in 1..Len(Shown(own))
  BY <1>1, <1>2
<1>4. <<spans[1]>> \in SpanLists
  <2>1. spans \in Seq(Nat \X Nat) /\ spans # <<>>
    BY BkmAssumption
  <2>2. spans[1] \in Nat \X Nat
    BY <2>1
  <2> QED BY <2>2 DEF SpanLists
<1>5. BkmList(bkms) /\ Len(bkms) = Len(Shown(own))
  BY <1>1, <1>3, <1>4, EditFacts
<1> HIDE DEF bkms
<1>6. Len(bkms) <= IF isVirtual THEN MaxVirt ELSE MaxBkms
  BY <1>5, ShownFacts
<1>7. ListsIn(own', handler')
  BY <1>2, <1>5, <1>6, SetShownFacts
<1>8. BkmInv'
  BY <1>2, <1>7 DEF BkmInv, ListsIn
<1>9. Shown(own)' = bkms
  BY <1>2 DEF SetShown, Shown, BkmInv
<1> QED BY <1>5, <1>8, <1>9, SameNumberFollows

\* SetVirtual and SetCaretPos.
LEMMA OtherSteps ==
  ASSUME BkmInv,
         (\E virtual \in BOOLEAN : SetVirtual(virtual))
           \/ (\E offset \in 0..dataSize - 1 : SetCaretPos(offset))
  PROVE  BkmInv' /\ Follows
<1>1. own' = own /\ handler' = handler
  BY DEF SetVirtual, SetCaretPos
<1>2. CASE \E virtual \in BOOLEAN : SetVirtual(virtual)
  <2>1. /\ isVirtual' \in BOOLEAN
        /\ UNCHANGED <<own, handler, current, dialog, items, selected, dataSize, caretPos>>
    BY <1>2 DEF SetVirtual
  <2> QED BY <2>1 DEF BkmInv, Follows
<1>3. CASE \E offset \in 0..dataSize - 1 : SetCaretPos(offset)
  <2>1. /\ caretPos' \in 0..dataSize - 1
        /\ UNCHANGED <<own, handler, isVirtual, current, dialog, items, selected, dataSize>>
    BY <1>3 DEF SetCaretPos
  <2> QED BY <2>1 DEF BkmInv, Follows
<1> QED BY <1>2, <1>3

\* SetData.
LEMMA SetDataStep ==
  ASSUME BkmInv, NEW size \in Sizes, SetData(size)
  PROVE  BkmInv' /\ Follows
<1> DEFINE bkms == IF IsDataSet THEN <<>> ELSE Shown(own)
<1>1. /\ BkmList(Shown(own)) /\ Len(Shown(own)) \in Nat /\ Len(Shown(own)) <= MaxBkms
      /\ (isVirtual => Len(Shown(own)) <= MaxVirt)
      /\ MaxVirt \in Nat /\ MaxBkms \in Nat /\ size \in Nat /\ isVirtual \in BOOLEAN
  BY ShownFacts, BkmAssumption DEF BkmInv
<1>2. /\ SetShown(bkms)
      /\ IF dialog /\ IsDataSet THEN items' = 0 /\ selected' = {} ELSE UNCHANGED <<items, selected>>
      /\ dataSize' = size /\ caretPos' = 0
      /\ UNCHANGED <<isVirtual, current, dialog>>
  BY DEF SetData
<1>3. BkmList(bkms) /\ Len(bkms) <= IF isVirtual THEN MaxVirt ELSE MaxBkms
  BY <1>1, NoBookmarks
<1>4. Shown(own)' = bkms
  BY <1>1, <1>2 DEF SetShown, Shown
<1>5. IsDataSet => Len(bkms) = 0
  BY NoBookmarks
<1>6. ~IsDataSet => bkms = Shown(own)
  OBVIOUS
<1> HIDE DEF bkms
<1>7. ListsIn(own', handler')
  BY <1>2, <1>3, SetShownFacts
<1>8. ListIn(items', selected')
  <2>1. CASE dialog /\ IsDataSet
    BY <1>2, <2>1 DEF ListIn
  <2>2. CASE ~(dialog /\ IsDataSet)
    BY <1>2, <2>2 DEF BkmInv, ListIn
  <2> QED BY <2>1, <2>2
<1>9. BkmInv'
  BY <1>1, <1>2, <1>7, <1>8 DEF BkmInv, ListsIn, ListIn
<1>10. CASE IsDataSet
  BY <1>2, <1>4, <1>5, <1>10, <1>9 DEF Follows
<1>11. CASE ~IsDataSet
  BY <1>4, <1>6, <1>9, <1>11, SameNumberFollows
<1> QED BY <1>10, <1>11

-----------------------------------------------------------------------------
(* The theorems                                                            *)

\* The invariant holds at the start.
LEMMA BkmInit ==
  ASSUME Init
  PROVE  BkmInv
<1>1. isVirtual \in BOOLEAN /\ dialog \in BOOLEAN
  BY DEF Init
<1>2. MaxBkms \in Nat \ {0} /\ MaxVirt \in Nat
  BY BkmAssumption
<1> QED BY <1>1, <1>2, NoBookmarks DEF Init, BkmInv

\* Every step keeps it, and the list follows.
LEMMA BkmStep ==
  ASSUME BkmInv, Next
  PROVE  BkmInv' /\ Follows
<1>1. CASE \E spans \in Extents : AddBkm(spans)
  BY <1>1, AddBkmStep
<1>2. CASE RemoveByOffset \/ (\E id \in 0..MaxId : RemoveByID(id)) \/ RemoveAll
  BY <1>2, RemoveSteps
<1>3. CASE GoNext \/ GoPrev
  BY <1>3, GoSteps
<1>4. CASE CreateDlg \/ OnDestroy
  BY <1>4, WindowSteps
<1>5. CASE \E item \in 0..items - 1, add \in BOOLEAN : SelectItem(item, add)
  BY <1>5, SelectItemStep
<1>6. CASE RemoveSelected
  BY <1>6, RemoveSelectedStep
<1>7. CASE \E column \in {"Number", "Offset", "Size"}, ascending \in BOOLEAN :
             SortBookmarks(column, ascending)
  BY <1>7, SortStep
<1>8. CASE \E item \in 0..items - 1, spans \in Extents : OnNotifyListSetData(item, spans[1])
  BY <1>8, SetDataOfItemStep
<1>9. CASE \E id \in 0..MaxId, bkm \in [id : Written, spans : Extents] : Update(id, bkm)
  BY <1>9, UpdateStep
<1>10. CASE (\E virtual \in BOOLEAN : SetVirtual(virtual))
              \/ (\E offset \in 0..dataSize - 1 : SetCaretPos(offset))
  BY <1>10, OtherSteps
<1>11. CASE \E size \in Sizes : SetData(size)
  BY <1>11, SetDataStep
<1> QED
  BY <1>1, <1>2, <1>3, <1>4, <1>5, <1>6, <1>7, <1>8, <1>9, <1>10, <1>11 DEF Next

\* It is an invariant.
LEMMA BkmCorrect == Spec => []BkmInv
<1>1. ASSUME BkmInv, UNCHANGED bkmVars PROVE BkmInv'
  BY <1>1 DEF BkmInv, bkmVars
<1>2. BkmInv /\ [Next]_bkmVars => BkmInv'
  BY <1>1, BkmStep
<1>3. Init => BkmInv
  BY BkmInit
<1> QED BY <1>2, <1>3, PTL DEF Spec

\* The types follow.
LEMMA BkmTypes ==
  ASSUME BkmInv
  PROVE  TypeOK
<1>1. ASSUME NEW bkms, BkmList(bkms), NEW b \in ToSet(bkms)
      PROVE  b.id \in 0..MaxId /\ Len(b.spans) > 0
  <2>1. b \in Bkm
    BY <1>1 DEF ToSet, BkmList
  <2>2. b.spans \in Seq(Nat \X Nat) /\ b.spans # <<>>
    BY <2>1 DEF Bkm, SpanLists
  <2>3. Len(b.spans) > 0
    BY <2>2
  <2> QED BY <2>1, <2>3 DEF Bkm
<1> QED BY <1>1 DEF BkmInv, TypeOK

\* What the shown bookmarks become is what the control's become, or those stay.
LEMMA OwnShown ==
  ASSUME BkmInv, Distinct(own), NEW bkms, SetShown(bkms),
         isVirtual = FALSE => Distinct(bkms)
  PROVE  Distinct(own')
<1>1. isVirtual \in BOOLEAN
  BY DEF BkmInv
<1> QED BY <1>1 DEF SetShown

\* A step after which the identifiers are still distinct.
LEMMA DistinctStep ==
  ASSUME BkmInv, Next, Distinct(own), MaxId \notin Ids(own), ~GivesTakenId
  PROVE  Distinct(own')
<1>1. /\ BkmList(own) /\ Len(own) \in Nat /\ items \in Nat /\ isVirtual \in BOOLEAN
      /\ (isVirtual = FALSE => Shown(own) = own)
  BY DEF BkmInv, BkmList, Shown
<1>2. ASSUME NEW spans \in Extents, AddBkm(spans) PROVE Distinct(own')
  <2> DEFINE bkms == Append(Shown(own), [id |-> NewId(Shown(own)), spans |-> spans])
  <2>1. SetShown(bkms)
    BY <1>2 DEF AddBkm
  <2>2. isVirtual = FALSE => Distinct(bkms)
    BY <1>1, AppendDistinct
  <2> HIDE DEF bkms
  <2> QED BY <2>1, <2>2, OwnShown
<1>3. ASSUME NEW id, Removed(Without(Shown(own), id)) PROVE Distinct(own')
  <2>1. isVirtual = FALSE => Distinct(Without(Shown(own), id))
    BY <1>1, WithoutDistinct
  <2>2. SetShown(Without(Shown(own), id))
    BY <1>3 DEF Removed
  <2> QED BY <2>1, <2>2, OwnShown
<1>4. ASSUME SetShown(<<>>) PROVE Distinct(own')
  <2>1. Distinct(<<>>)
    BY DEF Distinct
  <2> QED BY <1>4, <2>1, OwnShown
<1>5. ASSUME RemoveSelected PROVE Distinct(own')
  BY <1>1, <1>5, WithoutSelectedDistinct DEF RemoveSelected
<1>6. ASSUME NEW column, NEW ascending, SortBookmarks(column, ascending) PROVE Distinct(own')
  <2>1. PICK order \in [1..Len(own) -> 1..Len(own)] :
          /\ \A i, j \in 1..Len(own) : order[i] = order[j] => i = j
          /\ own' = [i \in 1..Len(own) |-> own[order[i]]]
    BY <1>6 DEF SortBookmarks
  <2>2. Len(own') = Len(own) /\ \A i \in 1..Len(own) : own'[i] = own[order[i]]
    BY <1>1, <2>1
  <2>3. ASSUME NEW i \in 1..Len(own), NEW j \in 1..Len(own), own'[i].id = own'[j].id
        PROVE  i = j
    <3>1. order[i] \in 1..Len(own) /\ order[j] \in 1..Len(own)
      BY <2>1
    <3>2. own[order[i]].id = own[order[j]].id
      BY <2>2, <2>3
    <3>3. order[i] = order[j]
      BY <3>1, <3>2 DEF Distinct
    <3> QED BY <2>1, <3>3
  <2> QED BY <2>2, <2>3 DEF Distinct
<1>7. ASSUME NEW item \in 0..items - 1, NEW spans \in Extents, OnNotifyListSetData(item, spans[1])
      PROVE  Distinct(own')
  <2> DEFINE bkms == [Shown(own) EXCEPT ![item + 1].spans = <<spans[1]>>]
  <2>1. SetShown(bkms) /\ item < GetCount
    BY <1>7 DEF OnNotifyListSetData
  <2>2. ASSUME isVirtual = FALSE PROVE Distinct(bkms)
    <3>1. item + 1 \in 1..Len(own)
      BY <1>1, <2>1, <2>2 DEF GetCount
    <3>2. <<spans[1]>> \in SpanLists
      <4>1. spans \in Seq(Nat \X Nat) /\ spans # <<>>
        BY BkmAssumption
      <4>2. spans[1] \in Nat \X Nat
        BY <4>1
      <4> QED BY <4>2 DEF SpanLists
    <3>3. Len(bkms) = Len(own) /\ \A i \in 1..Len(own) : bkms[i].id = own[i].id
      BY <1>1, <2>2, <3>1, <3>2, EditFacts
    <3> HIDE DEF bkms
    <3> QED BY <3>3 DEF Distinct
  <2> HIDE DEF bkms
  <2> QED BY <2>1, <2>2, OwnShown
<1>8. ASSUME NEW id \in 0..MaxId, NEW bkm \in [id : Written, spans : Extents], Update(id, bkm)
      PROVE  Distinct(own')
  <2>1. bkm.id \notin Ids(own) \ {id}
    BY <1>8 DEF GivesTakenId
  <2>2. PICK at \in 1..Len(own) : own[at].id = id /\ own' = [own EXCEPT ![at] = bkm]
    BY <1>8, UpdateIsWrite
  <2>3. bkm \in Bkm
    BY <1>8, UpdateIsWrite
  <2>4. Len(own') = Len(own) /\ \A i \in 1..Len(own) : own'[i] = IF i = at THEN bkm ELSE own[i]
    BY <1>1, <2>2, <2>3, WriteFacts
  <2>5. \A i \in 1..Len(own) : i # at => own[i].id # bkm.id
    <3>1. \A i \in 1..Len(own) : own[i].id \in Ids(own)
      BY <1>1 DEF Ids, ToSet, BkmList
    <3>2. \A i \in 1..Len(own) : i # at => own[i].id # id
      BY <2>2 DEF Distinct
    <3> QED BY <2>1, <3>1, <3>2
  <2> QED BY <2>4, <2>5 DEF Distinct
<1>9. CASE RemoveByOffset \/ (\E id \in 0..MaxId : RemoveByID(id)) \/ RemoveAll
  <2>1. CASE RemoveByOffset
    BY <1>3, <2>1 DEF RemoveByOffset
  <2>2. CASE \E id \in 0..MaxId : RemoveByID(id)
    BY <1>3, <2>2 DEF RemoveByID
  <2>3. CASE RemoveAll
    BY <1>4, <2>3 DEF RemoveAll, Removed
  <2> QED BY <1>9, <2>1, <2>2, <2>3
<1>10. ASSUME NEW size \in Sizes, SetData(size) PROVE Distinct(own')
  <2>1. SetShown(IF IsDataSet THEN <<>> ELSE Shown(own))
    BY <1>10 DEF SetData
  <2>2. isVirtual = FALSE => Distinct(IF IsDataSet THEN <<>> ELSE Shown(own))
    BY <1>1 DEF Distinct
  <2> QED BY <2>1, <2>2, OwnShown
<1>11. ASSUME UNCHANGED own PROVE Distinct(own')
  BY <1>11
<1>12. CASE GoNext \/ GoPrev \/ CreateDlg \/ OnDestroy
  BY <1>4, <1>11, <1>12 DEF GoNext, GoPrev, Go, CreateDlg, OnDestroy
<1>13. CASE (\E item \in 0..items - 1, add \in BOOLEAN : SelectItem(item, add))
              \/ (\E virtual \in BOOLEAN : SetVirtual(virtual))
              \/ (\E offset \in 0..dataSize - 1 : SetCaretPos(offset))
  BY <1>11, <1>13 DEF SelectItem, SetVirtual, SetCaretPos
<1> QED
  BY <1>2, <1>5, <1>6, <1>7, <1>8, <1>9, <1>10, <1>12, <1>13 DEF Next

\* Unless a client writes an identifier that another bookmark has, or the largest
\* has been used, whatever was added, removed, edited and sorted leaves each
\* identifier to one bookmark: of the data and bookmarks of any size.
THEOREM BkmIdsStayDistinct == Spec => IdsStayDistinct
<1>1. ASSUME BkmInv, [Next]_bkmVars
      PROVE  [Distinct(own) /\ MaxId \notin Ids(own) /\ ~GivesTakenId => Distinct(own')]_bkmVars
  BY <1>1, DistinctStep
<1> QED BY <1>1, BkmCorrect, PTL DEF Spec, IdsStayDistinct

\* While identifiers are distinct, the list's menu removes the selected bookmarks
\* and no others, though each round of its loop moves those behind.
THEOREM BkmMenuRemovesSelected == Spec => []MenuRemovesSelected
<1>1. ASSUME BkmInv PROVE MenuRemovesSelected
  <2>1. isVirtual \in BOOLEAN
    BY <1>1 DEF BkmInv
  <2> QED BY <1>1, <2>1, BkmTypes, MenuKeeps DEF MenuRemovesSelected
<1> QED BY <1>1, BkmCorrect, PTL

\* However bookmarks come and go, the dialog's list has one item for each.
THEOREM BkmListFollows == Spec => ListFollows
<1>1. ASSUME BkmInv, [Next]_bkmVars PROVE [Follows]_bkmVars
  BY <1>1, BkmStep
<1>2. [Follows]_bkmVars =>
        [dialog' /\ <<own, handler>>' # <<own, handler>> /\ Len(Shown(own)) # Len(Shown(own)')
           => items' = Len(Shown(own)') /\ selected' \subseteq 0..items' - 1]_bkmVars
  BY DEF Follows
<1> QED BY <1>1, <1>2, BkmCorrect, PTL DEF Spec, ListFollows

=============================================================================
