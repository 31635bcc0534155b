---------------------------- MODULE HexUndo_proofs ----------------------------
(***************************************************************************)
(* Proofs about Undo and Redo, for every size of data, cache and history:  *)
(* the bound on the histories of HexUndo, what a snapshot restores, and    *)
(* that HexUndoHistory implements the line of versions of HexHistory.      *)
(***************************************************************************)
EXTENDS HexUndoHistory, SequenceTheorems, TLAPS

Span == [ullOffset : Nat, ullSize : Nat]

-----------------------------------------------------------------------------
(* Histories as stacks                                                     *)

\* The top of a stack, and what is below it.
LEMMA TopFront ==
  ASSUME NEW S, NEW s \in Seq(S), s # <<>>
  PROVE  /\ Len(s) \in Nat \ {0}
         /\ Top(s) \in S
         /\ Front(s) \in Seq(S)
         /\ Len(Front(s)) = Len(s) - 1
         /\ \A i \in 1..Len(Front(s)) : Front(s)[i] = s[i]
<1>1. Len(s) \in Nat \ {0}
  BY EmptySeq
<1>2. Top(s) \in S
  <2>1. Len(s) \in 1..Len(s)
    BY <1>1
  <2> QED BY <2>1, ElementOfSeq DEF Top
<1>3. \A i \in 1..Len(s) - 1 : s[i] \in S
  BY <1>1, ElementOfSeq
<1>4. /\ SubSeq(s, 1, Len(s) - 1) \in Seq(S)
      /\ Len(SubSeq(s, 1, Len(s) - 1)) = IF 1 <= Len(s) - 1 THEN Len(s) - 1 - 1 + 1 ELSE 0
      /\ \A i \in 1..Len(s) - 1 - 1 + 1 : SubSeq(s, 1, Len(s) - 1)[i] = s[1 + i - 1]
  <2>1. 1 \in Int /\ Len(s) - 1 \in Int
    BY <1>1
  <2> QED BY <1>3, <2>1, SubSeqProperties
<1>5. Front(s) = SubSeq(s, 1, Len(s) - 1)
  BY DEF Front
<1>6. Front(s) \in Seq(S) /\ Len(Front(s)) = Len(s) - 1
  <2>1. CASE Len(s) = 1
    <3>1. ~(1 <= Len(s) - 1) /\ Len(s) - 1 = 0
      BY <2>1
    <3> QED BY <1>4, <1>5, <3>1
  <2>2. CASE Len(s) > 1
    <3>1. 1 <= Len(s) - 1 /\ Len(s) - 1 - 1 + 1 = Len(s) - 1
      BY <1>1, <2>2
    <3> QED BY <1>4, <1>5, <3>1
  <2>3. \A n \in Nat \ {0} : n = 1 \/ n > 1
    OBVIOUS
  <2>4. Len(s) = 1 \/ Len(s) > 1
    BY <1>1, <2>3, Zenon
  <2> QED BY <2>1, <2>2, <2>4, Zenon
<1>7. ASSUME NEW i \in 1..Len(s) - 1 PROVE Front(s)[i] = s[i]
  <2>1. i \in 1..Len(s) - 1 - 1 + 1 /\ 1 + i - 1 = i
    BY <1>1
  <2> QED BY <1>4, <1>5, <2>1
<1> QED BY <1>1, <1>2, <1>6, <1>7

\* A push.
LEMMA Pushed ==
  ASSUME NEW S, NEW s \in Seq(S), NEW x \in S
  PROVE  /\ Append(s, x) \in Seq(S)
         /\ Append(s, x) # <<>>
         /\ Len(Append(s, x)) = Len(s) + 1
         /\ \A i \in 1..Len(s) : Append(s, x)[i] = s[i]
         /\ Append(s, x)[Len(s) + 1] = x
<1>1. /\ Append(s, x) \in Seq(S)
      /\ Len(Append(s, x)) = Len(s) + 1
      /\ \A i \in 1..Len(s) : Append(s, x)[i] = s[i]
      /\ Append(s, x)[Len(s) + 1] = x
  BY LenProperties
<1> QED BY <1>1, EmptySeq, LenProperties

\* Dropping the oldest snapshots makes room, and only when it must.
LEMMA KeptFacts ==
  ASSUME NEW S, NEW s \in Seq(S)
  PROVE  /\ Kept(s) \in Seq(S)
         /\ Len(Kept(s)) <= Len(s)
         /\ Len(s) <= UndoMax => Len(Kept(s)) < UndoMax
         /\ Len(s) < UndoMax => Kept(s) = s
         /\ \A i \in 1..Len(Kept(s)) :
              i + (Len(s) - Len(Kept(s))) \in 1..Len(s) /\ Kept(s)[i] = s[i + (Len(s) - Len(Kept(s)))]
<1>1. Len(s) \in Nat /\ UndoMax \in Nat /\ UndoDrop \in 1..UndoMax
  BY LenProperties, UndoAssumption
<1>2. CASE Len(s) >= UndoMax
  <2>1. Kept(s) = SubSeq(s, UndoDrop + 1, Len(s))
    BY <1>2 DEF Kept
  <2>2. UndoDrop + 1 \in Int /\ \A i \in UndoDrop + 1..Len(s) : s[i] \in S
    BY <1>1, ElementOfSeq
  <2>3. /\ SubSeq(s, UndoDrop + 1, Len(s)) \in Seq(S)
        /\ Len(SubSeq(s, UndoDrop + 1, Len(s))) =
             IF UndoDrop + 1 <= Len(s) THEN Len(s) - (UndoDrop + 1) + 1 ELSE 0
        /\ \A i \in 1..Len(s) - (UndoDrop + 1) + 1 :
             SubSeq(s, UndoDrop + 1, Len(s))[i] = s[UndoDrop + 1 + i - 1]
    BY <1>1, <2>2, SubSeqProperties
  <2>4. Len(Kept(s)) = Len(s) - UndoDrop
    BY <1>1, <1>2, <2>1, <2>3
  <2>5. \A i \in 1..Len(s) - UndoDrop : Kept(s)[i] = s[i + UndoDrop]
    <3> SUFFICES ASSUME NEW i \in 1..Len(s) - UndoDrop PROVE Kept(s)[i] = s[i + UndoDrop]
      OBVIOUS
    <3>1. i \in 1..Len(s) - (UndoDrop + 1) + 1 /\ UndoDrop + 1 + i - 1 = i + UndoDrop
      BY <1>1
    <3> QED BY <2>1, <2>3, <3>1
  <2>6. Kept(s) \in Seq(S)
    BY <2>1, <2>3
  <2>7. Len(s) - Len(Kept(s)) = UndoDrop
    BY <1>1, <2>4
  <2>8. ASSUME NEW i \in 1..Len(Kept(s))
        PROVE  i + UndoDrop \in 1..Len(s) /\ Kept(s)[i] = s[i + UndoDrop]
    BY <1>1, <2>4, <2>5
  <2>9. Len(Kept(s)) <= Len(s) /\ (Len(s) <= UndoMax => Len(Kept(s)) < UndoMax)
    BY <1>1, <2>4
  <2>10. \A i \in 1..Len(Kept(s)) :
           i + (Len(s) - Len(Kept(s))) \in 1..Len(s) /\ Kept(s)[i] = s[i + (Len(s) - Len(Kept(s)))]
    BY <2>7, <2>8, Zenon
  <2>11. ~(Len(s) < UndoMax)
    BY <1>1, <1>2
  <2> QED BY <2>6, <2>9, <2>10, <2>11, Zenon
<1>3. CASE Len(s) < UndoMax
  <2>1. Kept(s) = s
    BY <1>1, <1>3 DEF Kept
  <2>2. \A i \in 1..Len(s) : i + (Len(s) - Len(s)) = i
    BY <1>1
  <2> QED BY <1>1, <1>3, <2>1, <2>2
<1> QED BY <1>1, <1>2, <1>3

-----------------------------------------------------------------------------
(* Snapshots                                                               *)

\* What is read of a span is as long as the span.
LEMMA ReadType ==
  ASSUME NEW v, NEW d \in Data, NEW span \in Span
  PROVE  Read(v, d, span) \in Entry /\ SpanOf(Read(v, d, span)) = span
<1> DEFINE bytes == [i \in 1..span.ullSize |->
                       IF Readable(v, span) THEN d[Place(v, span) + i - 1] ELSE Zero]
<1>1. span.ullOffset \in Nat /\ span.ullSize \in Nat /\ Place(v, span) \in Nat
  BY DEF Span, Place
<1>2. \A i \in 1..span.ullSize : bytes[i] \in Byte
  <2> SUFFICES ASSUME NEW i \in 1..span.ullSize PROVE bytes[i] \in Byte
    OBVIOUS
  <2>1. CASE Readable(v, span)
    <3>1. Place(v, span) + i - 1 \in Offset
      BY <1>1, <2>1, UndoAssumption DEF Readable, Offset
    <3> QED BY <2>1, <3>1 DEF Data
  <2>2. CASE ~Readable(v, span)
    BY <2>2, UndoAssumption
  <2> QED BY <2>1, <2>2
<1>3. bytes \in Seq(Byte) /\ Len(bytes) = span.ullSize
  <2>1. bytes \in [1..span.ullSize -> Byte]
    BY <1>2
  <2> HIDE DEF bytes
  <2>2. bytes \in Seq(Byte)
    BY <1>1, <2>1, SeqDef
  <2>3. DOMAIN bytes = 1..span.ullSize /\ DOMAIN bytes = 1..Len(bytes) /\ Len(bytes) \in Nat
    BY <2>1, <2>2, LenProperties
  <2> QED BY <1>1, <2>2, <2>3
<1>4. Read(v, d, span) = [ullOffset |-> span.ullOffset, vecData |-> bytes]
  BY DEF Read
<1> HIDE DEF bytes
<1>5. Read(v, d, span) \in Entry
  BY <1>1, <1>3, <1>4 DEF Entry
<1>6. SpanOf(Read(v, d, span)) = [ullOffset |-> span.ullOffset, ullSize |-> span.ullSize]
  BY <1>3, <1>4 DEF SpanOf
<1> QED BY <1>5, <1>6 DEF Span

\* The span of an entry.
LEMMA SpanOfType ==
  ASSUME NEW e \in Entry
  PROVE  SpanOf(e) \in Span
<1>1. Len(e.vecData) \in Nat
  BY LenProperties DEF Entry
<1> QED BY <1>1 DEF SpanOf, Span, Entry

\* A sequence made of n entries whose spans are given is a snapshot of them.
LEMMA EntriesOf ==
  ASSUME NEW spans \in Seq(Span), spans # <<>>,
         NEW snap, snap \in [1..Len(spans) -> Entry],
         \A k \in 1..Len(spans) : SpanOf(snap[k]) = spans[k]
  PROVE  snap \in Snap /\ Len(snap) = Len(spans) /\ SpansOf(snap) = spans
<1>1. Len(spans) \in Nat \ {0}
  BY EmptySeq
<1>2. snap \in Seq(Entry)
  BY <1>1, SeqDef
<1>3. Len(snap) = Len(spans)
  <2>1. DOMAIN snap = 1..Len(spans) /\ DOMAIN snap = 1..Len(snap) /\ Len(snap) \in Nat
    BY <1>2, LenProperties
  <2> QED BY <1>1, <2>1
<1>4. snap # <<>>
  BY <1>1, <1>3, EmptySeq
<1>5. SpansOf(snap) = [k \in 1..Len(spans) |-> spans[k]]
  BY <1>3 DEF SpansOf
<1>6. spans = [k \in 1..Len(spans) |-> spans[k]]
  BY LenProperties
<1> QED BY <1>2, <1>3, <1>4, <1>5, <1>6 DEF Snap

\* The spans of a snapshot.
LEMMA SpansOfType ==
  ASSUME NEW snap \in Snap
  PROVE  /\ SpansOf(snap) \in Seq(Span)
         /\ SpansOf(snap) # <<>>
         /\ Len(snap) \in Nat \ {0}
         /\ Len(SpansOf(snap)) = Len(snap)
         /\ \A k \in 1..Len(snap) : snap[k] \in Entry /\ SpansOf(snap)[k] = SpanOf(snap[k])
<1>1. snap \in Seq(Entry) /\ Len(snap) \in Nat \ {0}
  BY EmptySeq DEF Snap
<1>2. \A k \in 1..Len(snap) : snap[k] \in Entry
  BY <1>1, ElementOfSeq
<1>3. SpansOf(snap) \in [1..Len(snap) -> Span]
  BY <1>2, SpanOfType DEF SpansOf
<1>4. SpansOf(snap) \in Seq(Span)
  BY <1>1, <1>3, SeqDef
<1>5. Len(SpansOf(snap)) = Len(snap)
  <2>1. /\ DOMAIN SpansOf(snap) = 1..Len(snap)
        /\ DOMAIN SpansOf(snap) = 1..Len(SpansOf(snap)) /\ Len(SpansOf(snap)) \in Nat
    BY <1>3, <1>4, LenProperties
  <2> QED BY <1>1, <2>1
<1>6. SpansOf(snap) # <<>>
  BY <1>1, <1>5, EmptySeq
<1>7. \A k \in 1..Len(snap) : SpansOf(snap)[k] = SpanOf(snap[k])
  BY DEF SpansOf
<1> QED BY <1>1, <1>2, <1>4, <1>5, <1>6, <1>7

\* A snapshot taken of spans has these spans.
LEMMA SnapshotType ==
  ASSUME NEW v, NEW d \in Data, NEW spans \in Seq(Span), spans # <<>>
  PROVE  /\ Snapshot(v, d, spans) \in Snap
         /\ Len(Snapshot(v, d, spans)) = Len(spans)
         /\ SpansOf(Snapshot(v, d, spans)) = spans
<1>1. \A k \in 1..Len(spans) :
        Read(v, d, spans[k]) \in Entry /\ SpanOf(Read(v, d, spans[k])) = spans[k]
  BY ReadType, ElementOfSeq
<1>2. /\ Snapshot(v, d, spans) \in [1..Len(spans) -> Entry]
      /\ \A k \in 1..Len(spans) : SpanOf(Snapshot(v, d, spans)[k]) = spans[k]
  BY <1>1 DEF Snapshot
<1> QED BY <1>2, EntriesOf

\* Restoring entries of a snapshot gives data.
LEMMA RestoredType ==
  ASSUME NEW v, NEW d \in Data, NEW snap \in Snap, NEW n \in 0..Len(snap)
  PROVE  Restored(v, d, snap, n) \in Data
<1> SUFFICES ASSUME NEW o \in Offset
             PROVE  (IF \E k \in 1..n : Decides(v, snap, n, k, o)
                     THEN Saved(v, snap[CHOOSE k \in 1..n : Decides(v, snap, n, k, o)], o)
                     ELSE d[o]) \in Byte
  BY DEF Restored, Data
<1>1. CASE \E k \in 1..n : Decides(v, snap, n, k, o)
  <2> DEFINE c == CHOOSE k \in 1..n : Decides(v, snap, n, k, o)
  <2>1. c \in 1..n /\ Decides(v, snap, n, c, o)
    BY <1>1
  <2> HIDE DEF c
  <2>2. Len(snap) \in Nat /\ n <= Len(snap) /\ c \in 1..Len(snap)
    BY <2>1, SpansOfType
  <2>3. snap[c] \in Entry
    BY <2>2, SpansOfType
  <2>4. SpanOf(snap[c]) \in Span /\ o \in Reach(v, SpanOf(snap[c]))
    BY <2>1, <2>3, SpanOfType DEF Decides
  <2>5. /\ SpanOf(snap[c]).ullSize = Len(snap[c].vecData)
        /\ Place(v, SpanOf(snap[c])) \in Nat
        /\ Len(snap[c].vecData) \in Nat
    BY <2>3, <2>4, LenProperties DEF SpanOf, Place, Span, Entry
  <2>6. o - Place(v, SpanOf(snap[c])) + 1 \in 1..Len(snap[c].vecData)
    BY <2>4, <2>5, UndoAssumption DEF Reach, Offset
  <2>7. Saved(v, snap[c], o) \in Byte
    BY <2>3, <2>6, ElementOfSeq DEF Saved, Entry
  <2> QED BY <1>1, <2>7 DEF c
<1>2. CASE ~\E k \in 1..n : Decides(v, snap, n, k, o)
  BY <1>2 DEF Data
<1> QED BY <1>1, <1>2

\* What Undo saves for Redo has the spans of what it restores.
LEMMA SwappedType ==
  ASSUME NEW v, NEW d \in Data, NEW snap \in Snap
  PROVE  /\ Swapped(v, d, snap) \in Snap
         /\ Len(Swapped(v, d, snap)) = Len(snap)
         /\ SpansOf(Swapped(v, d, snap)) = SpansOf(snap)
<1> DEFINE spans == SpansOf(snap)
<1>1. /\ spans \in Seq(Span) /\ spans # <<>> /\ Len(spans) = Len(snap)
      /\ Len(snap) \in Nat \ {0}
      /\ \A k \in 1..Len(snap) : spans[k] = SpanOf(snap[k]) /\ spans[k] \in Span
  BY SpansOfType, SpanOfType
<1> HIDE DEF spans
<1>2. \A k \in 1..Len(snap) : Restored(v, d, snap, k - 1) \in Data
  <2> SUFFICES ASSUME NEW k \in 1..Len(snap) PROVE Restored(v, d, snap, k - 1) \in Data
    OBVIOUS
  <2>1. k - 1 \in 0..Len(snap)
    BY <1>1
  <2> QED BY <2>1, RestoredType
<1>3. \A k \in 1..Len(snap) :
        /\ Read(v, Restored(v, d, snap, k - 1), spans[k]) \in Entry
        /\ SpanOf(Read(v, Restored(v, d, snap, k - 1), spans[k])) = spans[k]
  BY <1>1, <1>2, ReadType
<1>4. Swapped(v, d, snap) = [k \in 1..Len(spans) |-> Read(v, Restored(v, d, snap, k - 1), spans[k])]
  BY <1>1 DEF Swapped
<1>5. /\ Swapped(v, d, snap) \in [1..Len(spans) -> Entry]
      /\ \A k \in 1..Len(spans) : SpanOf(Swapped(v, d, snap)[k]) = spans[k]
  BY <1>1, <1>3, <1>4
<1>6. /\ Swapped(v, d, snap) \in Snap
      /\ Len(Swapped(v, d, snap)) = Len(spans)
      /\ SpansOf(Swapped(v, d, snap)) = spans
  BY <1>1, <1>5, EntriesOf
<1> QED BY <1>1, <1>6 DEF spans

-----------------------------------------------------------------------------
(* The invariant                                                           *)

\* Span vectors are sequences of spans.
LEMMA SpansType == \A spans \in Spans : spans \in Seq(Span)
<1> SUFFICES ASSUME NEW spans \in Spans PROVE spans \in Seq(Span)
  OBVIOUS
<1>1. spans \in Seq([ullOffset : Nat, ullSize : Nat \ {0}])
  BY UndoAssumption
<1>2. [ullOffset : Nat, ullSize : Nat \ {0}] \subseteq Span
  BY DEF Span
<1> QED BY <1>1, <1>2, SeqMonotonic

\* A stack of snapshots SnapshotUndo accepts.
Accepted(snaps) ==
  /\ snaps \in Seq(Snap)
  /\ \A i \in 1..Len(snaps) : Remembered(SpansOf(snaps[i]))

\* The inductive invariant.
UndoInv == TypeOK /\ HistoryBounded /\ HistoryOfData

\* SnapshotUndo: the history stays well formed and within its limit, and
\* below the limit it grows by one snapshot at most.
LEMMA SnapshotUndoFacts ==
  ASSUME NEW snaps, Accepted(snaps), Len(snaps) <= UndoMax, data \in Data,
         NEW spans \in Seq(Span), spans # <<>>
  PROVE  /\ Accepted(SnapshotUndo(snaps, spans))
         /\ Len(SnapshotUndo(snaps, spans)) <= UndoMax
         /\ Len(SnapshotUndo(snaps, spans)) <= Len(snaps) + 1
<1>0. Len(snaps) \in Nat /\ UndoMax \in Nat
  BY LenProperties, UndoAssumption DEF Accepted
<1>1. CASE Remembered(spans)
  <2> DEFINE snap == Snapshot(virtual, data, spans)
  <2>1. snap \in Snap /\ SpansOf(snap) = spans
    BY SnapshotType
  <2> HIDE DEF snap
  <2>2. /\ Kept(snaps) \in Seq(Snap)
        /\ Len(Kept(snaps)) <= Len(snaps) /\ Len(Kept(snaps)) < UndoMax
        /\ \A i \in 1..Len(Kept(snaps)) : Remembered(SpansOf(Kept(snaps)[i]))
    BY KeptFacts DEF Accepted
  <2>3. Len(Kept(snaps)) \in Nat
    BY <2>2, LenProperties
  <2> DEFINE result == Append(Kept(snaps), snap)
  <2>4. /\ result \in Seq(Snap)
        /\ Len(result) = Len(Kept(snaps)) + 1
        /\ \A i \in 1..Len(Kept(snaps)) : result[i] = Kept(snaps)[i]
        /\ result[Len(Kept(snaps)) + 1] = snap
    BY <2>1, <2>2, Pushed
  <2> HIDE DEF result
  <2>5. \A i \in 1..Len(result) : Remembered(SpansOf(result[i]))
    <3> SUFFICES ASSUME NEW i \in 1..Len(result) PROVE Remembered(SpansOf(result[i]))
      OBVIOUS
    <3>1. i \in 1..Len(Kept(snaps)) \/ i = Len(Kept(snaps)) + 1
      BY <2>3, <2>4
    <3> QED BY <1>1, <2>1, <2>2, <2>4, <3>1
  <2>6. SnapshotUndo(snaps, spans) = result
    BY <1>1 DEF SnapshotUndo, result, snap
  <2> QED BY <1>0, <2>2, <2>3, <2>4, <2>5, <2>6 DEF Accepted
<1>2. CASE ~Remembered(spans)
  BY <1>0, <1>2 DEF SnapshotUndo
<1> QED BY <1>1, <1>2

\* The bottom of an accepted stack, and what is on it.
LEMMA AcceptedStack ==
  ASSUME NEW snaps, Accepted(snaps), snaps # <<>>
  PROVE  /\ Accepted(Front(snaps)) /\ Len(Front(snaps)) = Len(snaps) - 1
         /\ Top(snaps) \in Snap /\ Remembered(SpansOf(Top(snaps)))
         /\ Len(snaps) \in Nat \ {0}
<1>1. /\ Len(snaps) \in Nat \ {0}
      /\ Top(snaps) \in Snap
      /\ Front(snaps) \in Seq(Snap)
      /\ Len(Front(snaps)) = Len(snaps) - 1
      /\ \A i \in 1..Len(Front(snaps)) : Front(snaps)[i] = snaps[i]
  BY TopFront DEF Accepted
<1>2. Len(snaps) \in 1..Len(snaps) /\ \A i \in 1..Len(snaps) - 1 : i \in 1..Len(snaps)
  BY <1>1
<1> QED BY <1>1, <1>2 DEF Accepted, Top

\* A push of an accepted snapshot.
LEMMA AcceptedPush ==
  ASSUME NEW snaps, Accepted(snaps), NEW snap \in Snap, Remembered(SpansOf(snap))
  PROVE  Accepted(Append(snaps, snap)) /\ Len(Append(snaps, snap)) = Len(snaps) + 1
<1>1. /\ Append(snaps, snap) \in Seq(Snap)
      /\ Len(Append(snaps, snap)) = Len(snaps) + 1
      /\ \A i \in 1..Len(snaps) : Append(snaps, snap)[i] = snaps[i]
      /\ Append(snaps, snap)[Len(snaps) + 1] = snap
      /\ Len(snaps) \in Nat
  BY Pushed, LenProperties DEF Accepted
<1>2. ASSUME NEW i \in 1..Len(Append(snaps, snap))
      PROVE  Remembered(SpansOf(Append(snaps, snap)[i]))
  <2>1. i \in 1..Len(snaps) \/ i = Len(snaps) + 1
    BY <1>1
  <2> QED BY <1>1, <2>1 DEF Accepted
<1> QED BY <1>1, <1>2 DEF Accepted

\* No history.
LEMMA AcceptedEmpty == Accepted(<<>>) /\ Len(<<>>) = 0 /\ <<>> \in Seq(Snap)
BY EmptySeq DEF Accepted

\* The invariant in terms of accepted histories.
LEMMA InvParts ==
  UndoInv <=> /\ dataSet \in BOOLEAN /\ data \in Data /\ virtual \in BOOLEAN
              /\ mutable \in BOOLEAN /\ crashed \in BOOLEAN
              /\ Accepted(undo) /\ Accepted(redo)
              /\ Len(undo) + Len(redo) <= UndoMax
              /\ HistoryOfData
BY DEF UndoInv, TypeOK, HistoryBounded, Accepted

\* The next state's invariant, from the same parts.
LEMMA InvPartsNext ==
  ASSUME dataSet' \in BOOLEAN, data' \in Data, virtual' \in BOOLEAN,
         mutable' \in BOOLEAN, crashed' \in BOOLEAN,
         Accepted(undo'), Accepted(redo'), Len(undo') + Len(redo') <= UndoMax,
         (undo' # <<>> \/ redo' # <<>>) => dataSet'
  PROVE  UndoInv'
<1>1. TypeOK'
  BY DEF TypeOK, Accepted, Data, Offset
<1>2. HistoryBounded'
  BY DEF HistoryBounded, Accepted, Remembered, Total, SpansOf, SpanOf
<1>3. HistoryOfData'
  BY DEF HistoryOfData
<1> QED BY <1>1, <1>2, <1>3 DEF UndoInv

\* The control starts without data and without history.
LEMMA UndoInit == Init => UndoInv
<1> SUFFICES ASSUME Init PROVE UndoInv
  OBVIOUS
<1>1. Blank \in Data
  BY UndoAssumption DEF Blank, Data
<1>2. /\ dataSet = FALSE /\ data = Blank /\ virtual = FALSE /\ mutable = FALSE
      /\ undo = <<>> /\ redo = <<>> /\ crashed = FALSE
  BY DEF Init
<1>3. Accepted(undo) /\ Accepted(redo) /\ Len(undo) + Len(redo) <= UndoMax
  BY <1>2, AcceptedEmpty, UndoAssumption
<1>4. HistoryOfData
  BY <1>2 DEF HistoryOfData
<1> QED BY <1>1, <1>2, <1>3, <1>4, InvParts

\* Calls that leave the histories alone or clear them.
LEMMA UndoClient == UndoInv /\ ClientNext => UndoInv'
<1> SUFFICES ASSUME UndoInv, ClientNext PROVE UndoInv'
  OBVIOUS
<1>1. /\ dataSet \in BOOLEAN /\ data \in Data /\ virtual \in BOOLEAN
      /\ mutable \in BOOLEAN /\ crashed \in BOOLEAN
      /\ Accepted(undo) /\ Accepted(redo)
      /\ Len(undo) + Len(redo) <= UndoMax
      /\ (undo # <<>> \/ redo # <<>>) => dataSet
  BY InvParts DEF HistoryOfData
<1>2. Blank \in Data
  BY UndoAssumption DEF Blank, Data
<1>3. Accepted(<<>>) /\ Len(<<>>) + Len(<<>>) <= UndoMax
  BY AcceptedEmpty, UndoAssumption
<1>4. CASE ClearData
  BY <1>1, <1>2, <1>3, <1>4, InvPartsNext DEF ClearData
<1>5. ASSUME NEW v \in BOOLEAN, NEW m \in BOOLEAN, SetData(Blank, v, m)
      PROVE  UndoInv'
  BY <1>1, <1>2, <1>3, <1>5, InvPartsNext DEF SetData
<1>6. ASSUME NEW v \in BOOLEAN, NEW m \in BOOLEAN, AdjustData(v, m)
      PROVE  UndoInv'
  BY <1>1, <1>6, InvPartsNext DEF AdjustData
<1>7. ASSUME NEW m \in BOOLEAN, SetMutable(m)
      PROVE  UndoInv'
  BY <1>1, <1>7, InvPartsNext DEF SetMutable
<1> QED BY <1>4, <1>5, <1>6, <1>7 DEF ClientNext

\* A modification: what SnapshotUndo leaves, and nothing to redo.
LEMMA UndoModify == UndoInv /\ ModifyNext => UndoInv'
<1> SUFFICES ASSUME UndoInv, ModifyNext PROVE UndoInv'
  OBVIOUS
<1>1. /\ dataSet \in BOOLEAN /\ data \in Data /\ virtual \in BOOLEAN
      /\ mutable \in BOOLEAN /\ crashed \in BOOLEAN
      /\ Accepted(undo) /\ Accepted(redo)
      /\ Len(undo) + Len(redo) <= UndoMax
      /\ Len(undo) \in Nat /\ Len(redo) \in Nat /\ UndoMax \in Nat
  BY InvParts, LenProperties, UndoAssumption DEF Accepted
<1>2. Len(undo) <= UndoMax
  BY <1>1
<1>3. ASSUME dataSet, UNCHANGED <<dataSet, virtual, mutable, crashed>>,
             data' \in Data, redo' = <<>>,
             Accepted(undo'), Len(undo') <= UndoMax
      PROVE  UndoInv'
  <2>1. Accepted(redo') /\ Len(redo') = 0
    BY <1>3, AcceptedEmpty
  <2>2. Len(undo') \in Nat
    BY <1>3, LenProperties DEF Accepted
  <2>3. Len(undo') + Len(redo') <= UndoMax
    BY <1>1, <1>3, <2>1, <2>2
  <2> QED BY <1>1, <1>3, <2>1, <2>3, InvPartsNext
<1>4. ASSUME NEW snaps, Accepted(snaps), Len(snaps) <= UndoMax,
             NEW spans \in Spans, spans # <<>>
      PROVE  Accepted(SnapshotUndo(snaps, spans)) /\ Len(SnapshotUndo(snaps, spans)) <= UndoMax
  BY <1>1, <1>4, SpansType, SnapshotUndoFacts
<1>5. Accepted(<<>>) /\ Len(<<>>) <= UndoMax
  BY <1>1, AcceptedEmpty
<1>6. ASSUME NEW spans \in Spans, NEW new \in Data, ModifyData(spans, new)
      PROVE  UndoInv'
  <2>1. /\ dataSet /\ spans # <<>> /\ data' = new /\ redo' = <<>>
        /\ undo' = SnapshotUndo(undo, spans) \/ undo' = <<>>
        /\ UNCHANGED <<dataSet, virtual, mutable, crashed>>
    BY <1>6 DEF ModifyData, Usable
  <2>2. Accepted(undo') /\ Len(undo') <= UndoMax
    BY <1>1, <1>2, <1>4, <1>5, <2>1
  <2> QED BY <1>3, <2>1, <2>2
<1>7. ASSUME NEW spans \in Spans, NEW new \in Data, AssignData(spans, new)
      PROVE  UndoInv'
  <2>1. /\ dataSet /\ spans # <<>> /\ data' = new /\ redo' = <<>>
        /\ \/ undo' = SnapshotUndo(SnapshotUndo(undo, spans), spans)
           \/ undo' = SnapshotUndo(<<>>, spans)
           \/ undo' = <<>>
        /\ UNCHANGED <<dataSet, virtual, mutable, crashed>>
    BY <1>7 DEF AssignData, Usable
  <2>2. Accepted(SnapshotUndo(undo, spans)) /\ Len(SnapshotUndo(undo, spans)) <= UndoMax
    BY <1>1, <1>2, <1>4, <2>1
  <2>3. Accepted(undo') /\ Len(undo') <= UndoMax
    BY <1>4, <1>5, <2>1, <2>2
  <2> QED BY <1>3, <2>1, <2>3
<1> QED BY <1>6, <1>7 DEF ModifyNext

\* Undo and Redo move one snapshot between the histories; memory shortages
\* only clear them.
LEMMA UndoHistory == UndoInv /\ HistoryNext => UndoInv'
<1> SUFFICES ASSUME UndoInv, HistoryNext PROVE UndoInv'
  OBVIOUS
<1>1. /\ dataSet \in BOOLEAN /\ data \in Data /\ virtual \in BOOLEAN
      /\ mutable \in BOOLEAN /\ crashed \in BOOLEAN
      /\ Accepted(undo) /\ Accepted(redo)
      /\ Len(undo) + Len(redo) <= UndoMax
      /\ Len(undo) \in Nat /\ Len(redo) \in Nat /\ UndoMax \in Nat
  BY InvParts, LenProperties, UndoAssumption DEF Accepted
<1>2. ASSUME NEW snap \in Snap, NEW n \in 0..Len(snap)
      PROVE  Restored(virtual, data, snap, n) \in Data
  BY <1>1, <1>2, RestoredType
<1>3. Accepted(<<>>) /\ Len(<<>>) = 0
  BY AcceptedEmpty
<1>4. CASE Undo
  <2>1. /\ dataSet /\ undo # <<>>
        /\ data' = Restored(virtual, data, Top(undo), Len(Top(undo)))
        /\ redo' = Append(redo, Swapped(virtual, data, Top(undo)))
        /\ undo' = Front(undo)
        /\ UNCHANGED <<dataSet, virtual, mutable, crashed>>
    BY <1>4 DEF Undo, Usable
  <2>2. /\ Accepted(undo') /\ Len(undo') = Len(undo) - 1
        /\ Top(undo) \in Snap /\ Remembered(SpansOf(Top(undo)))
    BY <1>1, <2>1, AcceptedStack
  <2>3. Swapped(virtual, data, Top(undo)) \in Snap /\ Remembered(SpansOf(Swapped(virtual, data, Top(undo))))
    BY <1>1, <2>2, SwappedType
  <2>4. Accepted(redo') /\ Len(redo') = Len(redo) + 1
    BY <1>1, <2>1, <2>3, AcceptedPush
  <2>5. data' \in Data
    <3>1. Len(Top(undo)) \in 0..Len(Top(undo))
      BY <2>2, SpansOfType
    <3> QED BY <1>2, <2>1, <2>2, <3>1
  <2>6. Len(undo') + Len(redo') <= UndoMax
    BY <1>1, <2>2, <2>4
  <2> QED BY <1>1, <2>1, <2>2, <2>4, <2>5, <2>6, InvPartsNext
<1>5. ASSUME undo # <<>>, NEW n \in 1..Len(Top(undo)), UndoOutOfMemory(n)
      PROVE  UndoInv'
  <2>1. /\ dataSet /\ redo' = <<>>
        /\ data' = Restored(virtual, data, Top(undo), n - 1)
        /\ UNCHANGED <<dataSet, virtual, mutable, undo, crashed>>
    BY <1>5 DEF UndoOutOfMemory, Usable
  <2>2. Top(undo) \in Snap
    BY <1>1, <1>5, AcceptedStack
  <2>3. n - 1 \in 0..Len(Top(undo))
    BY <2>2, SpansOfType
  <2>4. data' \in Data
    BY <1>2, <2>1, <2>2, <2>3
  <2>5. Accepted(redo') /\ Len(redo') = 0 /\ Accepted(undo') /\ Len(undo') = Len(undo)
    BY <1>1, <1>3, <2>1
  <2>6. Len(undo') + Len(redo') <= UndoMax
    BY <1>1, <2>5
  <2> QED BY <1>1, <2>1, <2>4, <2>5, <2>6, InvPartsNext
<1>6. CASE Redo
  <2>1. /\ dataSet /\ redo # <<>>
        /\ undo' = SnapshotUndo(undo, SpansOf(Top(redo)))
        /\ data' = Restored(virtual, data, Top(redo), Len(Top(redo)))
        /\ redo' = Front(redo)
        /\ UNCHANGED <<dataSet, virtual, mutable, crashed>>
    BY <1>6 DEF Redo, Usable
  <2>2. /\ Accepted(redo') /\ Len(redo') = Len(redo) - 1
        /\ Top(redo) \in Snap
    BY <1>1, <2>1, AcceptedStack
  <2>3. SpansOf(Top(redo)) \in Seq(Span) /\ SpansOf(Top(redo)) # <<>>
    BY <2>2, SpansOfType
  <2>4. Accepted(undo') /\ Len(undo') <= Len(undo) + 1
    <3>1. Len(undo) <= UndoMax
      BY <1>1
    <3> QED BY <1>1, <2>1, <2>3, <3>1, SnapshotUndoFacts
  <2>5. data' \in Data
    <3>1. Len(Top(redo)) \in 0..Len(Top(redo))
      BY <2>2, SpansOfType
    <3> QED BY <1>2, <2>1, <2>2, <3>1
  <2>6. Len(undo') + Len(redo') <= UndoMax
    <3>1. Len(undo') \in Nat
      BY <2>4, LenProperties DEF Accepted
    <3> QED BY <1>1, <2>2, <2>4, <3>1
  <2> QED BY <1>1, <2>1, <2>2, <2>4, <2>5, <2>6, InvPartsNext
<1>7. CASE RedoOutOfMemory
  <2>1. /\ dataSet /\ undo' = <<>> /\ redo' = <<>> /\ crashed' = TRUE
        /\ UNCHANGED <<dataSet, data, virtual, mutable>>
    BY <1>7 DEF RedoOutOfMemory, Usable
  <2>2. Accepted(undo') /\ Accepted(redo') /\ Len(undo') + Len(redo') <= UndoMax
    BY <1>1, <1>3, <2>1
  <2> QED BY <1>1, <2>1, <2>2, InvPartsNext
<1> QED BY <1>4, <1>5, <1>6, <1>7 DEF HistoryNext

\* The invariant is inductive.
LEMMA UndoStep == UndoInv /\ [Next]_undoVars => UndoInv'
<1> SUFFICES ASSUME UndoInv, [Next]_undoVars PROVE UndoInv'
  OBVIOUS
<1>1. CASE Next
  BY <1>1, UndoClient, UndoModify, UndoHistory DEF Next
<1>2. CASE UNCHANGED undoVars
  <2>1. UNCHANGED <<dataSet, data, virtual, mutable, undo, redo, crashed>>
    BY <1>2 DEF undoVars
  <2> QED BY <2>1, InvParts, InvPartsNext DEF HistoryOfData
<1> QED BY <1>1, <1>2

\* However modifications, Undo, Redo, memory shortages and changes of the data
\* follow each other, the two histories together stay within the limit of
\* SnapshotUndo, so does each snapshot in them, and without data there is
\* nothing to undo or redo; the data keeps its size, and no snapshot is empty.
THEOREM UndoHistoriesOK == Spec => []HistoriesOK
<1>1. UndoInv => HistoriesOK
  BY DEF UndoInv, HistoriesOK
<1> QED BY <1>1, UndoInit, UndoStep, PTL DEF Spec

-----------------------------------------------------------------------------
(* What a snapshot of disjoint spans restores                              *)

\* A byte belongs to one entry at most.
LEMMA OneEntry ==
  ASSUME NEW v, NEW snap \in Snap, Sound(v, SpansOf(snap)),
         NEW j \in 1..Len(snap), NEW k \in 1..Len(snap), NEW o \in Offset,
         o \in Reach(v, SpanOf(snap[j])), o \in Reach(v, SpanOf(snap[k]))
  PROVE  j = k
<1> DEFINE a == SpansOf(snap)[j]
           b == SpansOf(snap)[k]
<1>1. /\ a = SpanOf(snap[j]) /\ b = SpanOf(snap[k])
      /\ a \in Span /\ b \in Span
      /\ Len(SpansOf(snap)) = Len(snap)
  BY SpansOfType, SpanOfType
<1>2. /\ Place(v, a) = a.ullOffset /\ Place(v, b) = b.ullOffset
      /\ j # k => \/ a.ullOffset + a.ullSize <= b.ullOffset
                  \/ b.ullOffset + b.ullSize <= a.ullOffset
  BY <1>1 DEF Sound, InPlace, Disjoint
<1>3. o \in Reach(v, a) /\ o \in Reach(v, b)
  BY <1>1
<1> HIDE DEF a, b
<1>4. /\ a.ullOffset <= o /\ o < a.ullOffset + a.ullSize
      /\ b.ullOffset <= o /\ o < b.ullOffset + b.ullSize
  BY <1>2, <1>3 DEF Reach
<1>5. o \in Int
  BY DEF Offset
<1> QED BY <1>1, <1>2, <1>4, <1>5 DEF Span

\* The entry that reaches a byte decides it; a byte none reaches stays.
LEMMA RestoredAt ==
  ASSUME NEW v, NEW d \in Data, NEW snap \in Snap, Sound(v, SpansOf(snap)),
         NEW n \in 0..Len(snap), NEW o \in Offset
  PROVE  /\ \A k \in 1..n : o \in Reach(v, SpanOf(snap[k])) =>
                              Restored(v, d, snap, n)[o] = Saved(v, snap[k], o)
         /\ (\A k \in 1..n : o \notin Reach(v, SpanOf(snap[k]))) =>
                              Restored(v, d, snap, n)[o] = d[o]
<1>1. Len(snap) \in Nat /\ \A k \in 1..n : k \in 1..Len(snap)
  BY SpansOfType
<1>2. Restored(v, d, snap, n)[o] =
        IF \E k \in 1..n : Decides(v, snap, n, k, o)
        THEN Saved(v, snap[CHOOSE k \in 1..n : Decides(v, snap, n, k, o)], o)
        ELSE d[o]
  BY DEF Restored
<1>3. ASSUME NEW k \in 1..n, o \in Reach(v, SpanOf(snap[k]))
      PROVE  Restored(v, d, snap, n)[o] = Saved(v, snap[k], o)
  <2>1. ASSUME NEW j \in k + 1..n PROVE o \notin Reach(v, SpanOf(snap[j]))
    <3>1. j \in 1..n /\ j # k
      BY <1>1, <2>1
    <3> QED BY <1>1, <1>3, <3>1, OneEntry
  <2>2. Decides(v, snap, n, k, o)
    BY <1>3, <2>1 DEF Decides
  <2> DEFINE c == CHOOSE i \in 1..n : Decides(v, snap, n, i, o)
  <2>3. c \in 1..n /\ Decides(v, snap, n, c, o)
    BY <2>2
  <2>4. Restored(v, d, snap, n)[o] = Saved(v, snap[c], o)
    BY <1>2, <2>2
  <2> HIDE DEF c
  <2>5. c = k
    BY <1>1, <1>3, <2>3, OneEntry DEF Decides
  <2> QED BY <2>4, <2>5
<1>4. ASSUME \A k \in 1..n : o \notin Reach(v, SpanOf(snap[k]))
      PROVE  Restored(v, d, snap, n)[o] = d[o]
  BY <1>2, <1>4 DEF Decides
<1> QED BY <1>3, <1>4

\* What is read of a span is what the data holds there.
LEMMA SavedRead ==
  ASSUME NEW v, NEW d \in Data, NEW span \in Span, NEW o \in Reach(v, span)
  PROVE  Saved(v, Read(v, d, span), o) = d[o]
<1>1. SpanOf(Read(v, d, span)) = span
  BY ReadType
<1>2. /\ Place(v, span) \in Nat /\ o \in Nat /\ span.ullSize \in Nat
      /\ Readable(v, span)
      /\ Place(v, span) <= o /\ o < Place(v, span) + span.ullSize
  BY UndoAssumption DEF Reach, Place, Span, Offset
<1>3. o - Place(v, span) + 1 \in 1..span.ullSize
  BY <1>2
<1>4. Place(v, span) + (o - Place(v, span) + 1) - 1 = o
  BY <1>2
<1>5. Read(v, d, span).vecData[o - Place(v, span) + 1] = d[o]
  BY <1>2, <1>3, <1>4 DEF Read
<1> QED BY <1>1, <1>5 DEF Saved

\* Two data that agree on every byte.
LEMMA DataEqual ==
  ASSUME NEW d \in Data, NEW e \in Data, \A o \in Offset : d[o] = e[o]
  PROVE  d = e
BY DEF Data

\* A snapshot taken before a modification undoes it.
LEMMA ModifyUndone ==
  ASSUME NEW v, NEW d \in Data, NEW new \in Data,
         NEW spans \in Seq(Span), spans # <<>>, Sound(v, spans),
         \A o \in Offset : new[o] # d[o] =>
           \E k \in 1..Len(spans) :
             o \in spans[k].ullOffset..(spans[k].ullOffset + spans[k].ullSize - 1)
  PROVE  Restored(v, new, Snapshot(v, d, spans), Len(Snapshot(v, d, spans))) = d
<1> DEFINE snap == Snapshot(v, d, spans)
<1>1. snap \in Snap /\ Len(snap) = Len(spans) /\ SpansOf(snap) = spans
  BY SnapshotType
<1>2. \A k \in 1..Len(snap) : snap[k] = Read(v, d, spans[k]) /\ SpanOf(snap[k]) = spans[k]
  BY <1>1, SpansOfType DEF Snapshot
<1> HIDE DEF snap
<1>3. Len(snap) \in Nat /\ Len(snap) \in 0..Len(snap)
  BY <1>1, SpansOfType
<1>4. Restored(v, new, snap, Len(snap)) \in Data
  BY <1>1, <1>3, RestoredType
<1>5. Sound(v, SpansOf(snap))
  BY <1>1
<1>6. ASSUME NEW o \in Offset
      PROVE  Restored(v, new, snap, Len(snap))[o] = d[o]
  <2>0. /\ \A k \in 1..Len(snap) : o \in Reach(v, SpanOf(snap[k])) =>
             Restored(v, new, snap, Len(snap))[o] = Saved(v, snap[k], o)
        /\ (\A k \in 1..Len(snap) : o \notin Reach(v, SpanOf(snap[k]))) =>
             Restored(v, new, snap, Len(snap))[o] = new[o]
    BY <1>1, <1>3, <1>5, RestoredAt
  <2>1. ASSUME NEW k \in 1..Len(snap), o \in Reach(v, SpanOf(snap[k]))
        PROVE  Restored(v, new, snap, Len(snap))[o] = d[o]
    <3>1. Restored(v, new, snap, Len(snap))[o] = Saved(v, snap[k], o)
      BY <2>0, <2>1
    <3>2. spans[k] \in Span /\ o \in Reach(v, spans[k])
      BY <1>1, <1>2, <2>1, ElementOfSeq
    <3>3. Saved(v, Read(v, d, spans[k]), o) = d[o]
      BY <3>2, SavedRead
    <3> QED BY <1>2, <3>1, <3>3
  <2>2. ASSUME \A k \in 1..Len(snap) : o \notin Reach(v, SpanOf(snap[k]))
        PROVE  Restored(v, new, snap, Len(snap))[o] = d[o]
    <3>1. Restored(v, new, snap, Len(snap))[o] = new[o]
      BY <2>0, <2>2
    <3>2. ASSUME NEW k \in 1..Len(spans),
                 o \in spans[k].ullOffset..(spans[k].ullOffset + spans[k].ullSize - 1)
          PROVE  FALSE
      <4>1. spans[k] \in Span /\ InPlace(v, spans[k])
        BY ElementOfSeq DEF Sound
      <4>2. o \in Reach(v, spans[k])
        BY <3>2, <4>1 DEF InPlace, Reach, Span
      <4> QED BY <1>1, <1>2, <2>2, <4>2
    <3> QED BY <3>1, <3>2
  <2> QED BY <2>1, <2>2
<1> QED BY <1>4, <1>6, DataEqual DEF snap

\* What Undo saves on its way redoes what it undoes.
LEMMA UndoRedone ==
  ASSUME NEW v, NEW d \in Data, NEW snap \in Snap, Sound(v, SpansOf(snap))
  PROVE  Restored(v, Restored(v, d, snap, Len(snap)), Swapped(v, d, snap), Len(snap)) = d
<1> DEFINE swap == Swapped(v, d, snap)
           undone == Restored(v, d, snap, Len(snap))
<1>1. swap \in Snap /\ Len(swap) = Len(snap) /\ SpansOf(swap) = SpansOf(snap)
  BY SwappedType
<1>2. Len(snap) \in Nat /\ Len(snap) \in 0..Len(snap)
  BY SpansOfType
<1>3. \A k \in 1..Len(snap) :
        /\ swap[k] = Read(v, Restored(v, d, snap, k - 1), SpanOf(snap[k]))
        /\ SpanOf(swap[k]) = SpanOf(snap[k])
  BY <1>1, SpansOfType DEF Swapped
<1>4. undone \in Data
  BY <1>2, RestoredType
<1>5. \A o \in Offset :
        (\A k \in 1..Len(snap) : o \notin Reach(v, SpanOf(snap[k]))) => undone[o] = d[o]
  BY <1>2, RestoredAt
<1> HIDE DEF swap, undone
<1>6. Restored(v, undone, swap, Len(snap)) \in Data
  BY <1>1, <1>2, <1>4, RestoredType
<1>7. Sound(v, SpansOf(swap)) /\ Len(snap) \in 0..Len(swap)
  BY <1>1, <1>2
<1>8. ASSUME NEW o \in Offset
      PROVE  Restored(v, undone, swap, Len(snap))[o] = d[o]
  <2>0. /\ \A k \in 1..Len(snap) : o \in Reach(v, SpanOf(swap[k])) =>
             Restored(v, undone, swap, Len(snap))[o] = Saved(v, swap[k], o)
        /\ (\A k \in 1..Len(snap) : o \notin Reach(v, SpanOf(swap[k]))) =>
             Restored(v, undone, swap, Len(snap))[o] = undone[o]
    <3>1. /\ swap \in Snap /\ undone \in Data /\ Sound(v, SpansOf(swap))
          /\ Len(snap) \in 0..Len(swap)
      BY <1>1, <1>4, <1>7
    <3> QED BY <3>1, RestoredAt, ZenonT(40)
  <2>1. ASSUME NEW k \in 1..Len(snap), o \in Reach(v, SpanOf(snap[k]))
        PROVE  Restored(v, undone, swap, Len(snap))[o] = d[o]
    <3>1. Restored(v, undone, swap, Len(snap))[o] = Saved(v, swap[k], o)
      BY <1>3, <2>0, <2>1
    <3>2. snap[k] \in Entry /\ SpanOf(snap[k]) \in Span
      BY SpansOfType, SpanOfType
    <3>3. k - 1 \in 0..Len(snap) /\ Restored(v, d, snap, k - 1) \in Data
      <4>1. k - 1 \in 0..Len(snap)
        BY <1>2
      <4> QED BY <4>1, RestoredType
    <3>4. Saved(v, swap[k], o) = Restored(v, d, snap, k - 1)[o]
      BY <1>3, <2>1, <3>2, <3>3, SavedRead
    <3>5. \A j \in 1..k - 1 : o \notin Reach(v, SpanOf(snap[j]))
      <4> SUFFICES ASSUME NEW j \in 1..k - 1, o \in Reach(v, SpanOf(snap[j])) PROVE FALSE
        OBVIOUS
      <4>1. j \in 1..Len(snap) /\ j # k
        BY <1>2
      <4> QED BY <2>1, <4>1, OneEntry
    <3>6. Restored(v, d, snap, k - 1)[o] = d[o]
      BY <3>3, <3>5, RestoredAt
    <3> QED BY <3>1, <3>4, <3>6
  <2>2. ASSUME \A k \in 1..Len(snap) : o \notin Reach(v, SpanOf(snap[k]))
        PROVE  Restored(v, undone, swap, Len(snap))[o] = d[o]
    <3>1. Restored(v, undone, swap, Len(snap))[o] = undone[o]
      BY <1>3, <2>0, <2>2
    <3> QED BY <1>5, <2>2, <3>1
  <2> QED BY <2>1, <2>2
<1> QED BY <1>4, <1>6, <1>8, DataEqual DEF swap, undone

\* An Undo that stopped halfway leaves each byte as it was or as it should
\* become, and undoing again completes it.
LEMMA HalfwayCompleted ==
  ASSUME NEW v, NEW d \in Data, NEW snap \in Snap, Sound(v, SpansOf(snap)),
         NEW m \in 0..Len(snap)
  PROVE  /\ Restored(v, Restored(v, d, snap, m), snap, Len(snap))
              = Restored(v, d, snap, Len(snap))
         /\ \A o \in Offset : Restored(v, d, snap, m)[o]
                                \in {d[o], Restored(v, d, snap, Len(snap))[o]}
<1> DEFINE half == Restored(v, d, snap, m)
           full == Restored(v, d, snap, Len(snap))
<1>1. Len(snap) \in Nat /\ Len(snap) \in 0..Len(snap) /\ \A k \in 1..m : k \in 1..Len(snap)
  BY SpansOfType
<1>2. half \in Data /\ full \in Data
  BY <1>1, RestoredType
<1>3. ASSUME NEW o \in Offset
      PROVE  half[o] \in {d[o], full[o]} /\ Restored(v, half, snap, Len(snap))[o] = full[o]
  <2>1. /\ \A k \in 1..m : o \in Reach(v, SpanOf(snap[k])) => half[o] = Saved(v, snap[k], o)
        /\ (\A k \in 1..m : o \notin Reach(v, SpanOf(snap[k]))) => half[o] = d[o]
    BY RestoredAt
  <2>2. /\ \A k \in 1..Len(snap) : o \in Reach(v, SpanOf(snap[k])) => full[o] = Saved(v, snap[k], o)
        /\ (\A k \in 1..Len(snap) : o \notin Reach(v, SpanOf(snap[k]))) => full[o] = d[o]
    BY <1>1, RestoredAt
  <2> HIDE DEF half, full
  <2>3. /\ \A k \in 1..Len(snap) : o \in Reach(v, SpanOf(snap[k])) =>
             Restored(v, half, snap, Len(snap))[o] = Saved(v, snap[k], o)
        /\ (\A k \in 1..Len(snap) : o \notin Reach(v, SpanOf(snap[k]))) =>
             Restored(v, half, snap, Len(snap))[o] = half[o]
    BY <1>1, <1>2, RestoredAt
  <2> QED BY <1>1, <2>1, <2>2, <2>3
<1> HIDE DEF half, full
<1>4. Restored(v, half, snap, Len(snap)) \in Data
  BY <1>1, <1>2, RestoredType
<1>5. Restored(v, half, snap, Len(snap)) = full
  BY <1>2, <1>3, <1>4, DataEqual
<1> QED BY <1>3, <1>5 DEF half, full

\* A switch of access that keeps a snapshot in place keeps what it restores.
LEMMA SameRestored ==
  ASSUME NEW v, NEW w, NEW d \in Data, NEW snap \in Snap,
         Sound(v, SpansOf(snap)), Sound(w, SpansOf(snap))
  PROVE  Restored(v, d, snap, Len(snap)) = Restored(w, d, snap, Len(snap))
<1>1. Len(snap) \in Nat /\ Len(snap) \in 0..Len(snap)
  BY SpansOfType
<1>2. ASSUME NEW k \in 1..Len(snap)
      PROVE  /\ Place(v, SpanOf(snap[k])) = Place(w, SpanOf(snap[k]))
             /\ Readable(v, SpanOf(snap[k])) /\ Readable(w, SpanOf(snap[k]))
  BY SpansOfType DEF Sound, InPlace
<1>3. Restored(v, d, snap, Len(snap)) \in Data /\ Restored(w, d, snap, Len(snap)) \in Data
  BY <1>1, RestoredType
<1>4. ASSUME NEW o \in Offset
      PROVE  Restored(v, d, snap, Len(snap))[o] = Restored(w, d, snap, Len(snap))[o]
  <2>1. \A k \in 1..Len(snap) :
          /\ o \in Reach(v, SpanOf(snap[k])) <=> o \in Reach(w, SpanOf(snap[k]))
          /\ Saved(v, snap[k], o) = Saved(w, snap[k], o)
    BY <1>2 DEF Reach, Saved
  <2>2. /\ \A k \in 1..Len(snap) : o \in Reach(v, SpanOf(snap[k])) =>
             Restored(v, d, snap, Len(snap))[o] = Saved(v, snap[k], o)
        /\ (\A k \in 1..Len(snap) : o \notin Reach(v, SpanOf(snap[k]))) =>
             Restored(v, d, snap, Len(snap))[o] = d[o]
    BY <1>1, RestoredAt
  <2>3. /\ \A k \in 1..Len(snap) : o \in Reach(w, SpanOf(snap[k])) =>
             Restored(w, d, snap, Len(snap))[o] = Saved(w, snap[k], o)
        /\ (\A k \in 1..Len(snap) : o \notin Reach(w, SpanOf(snap[k]))) =>
             Restored(w, d, snap, Len(snap))[o] = d[o]
    BY <1>1, RestoredAt
  <2> QED BY <2>1, <2>2, <2>3
<1> QED BY <1>3, <1>4, DataEqual

\* What a snapshot restores is inside its spans.
LEMMA RestoredWithin ==
  ASSUME NEW v, NEW d \in Data, NEW snap \in Snap, Sound(v, SpansOf(snap)),
         NEW o \in Offset, Restored(v, d, snap, Len(snap))[o] # d[o]
  PROVE  \E k \in 1..Len(SpansOf(snap)) :
           o \in SpansOf(snap)[k].ullOffset
                   ..(SpansOf(snap)[k].ullOffset + SpansOf(snap)[k].ullSize - 1)
<1>1. Len(snap) \in 0..Len(snap) /\ Len(SpansOf(snap)) = Len(snap)
  BY SpansOfType
<1>2. PICK k \in 1..Len(snap) : o \in Reach(v, SpanOf(snap[k]))
  BY <1>1, RestoredAt
<1>3. /\ SpansOf(snap)[k] = SpanOf(snap[k]) /\ SpanOf(snap[k]) \in Span
      /\ InPlace(v, SpanOf(snap[k]))
  BY <1>1, SpansOfType, SpanOfType DEF Sound
<1> DEFINE span == SpanOf(snap[k])
<1>4. span.ullOffset <= o /\ o < span.ullOffset + span.ullSize
  BY <1>2, <1>3 DEF InPlace, Reach
<1>5. o \in span.ullOffset..(span.ullOffset + span.ullSize - 1)
  BY <1>3, <1>4 DEF Span, Offset
<1> QED BY <1>1, <1>3, <1>5

-----------------------------------------------------------------------------
(* Histories and the versions they stand for                               *)

\* A history of sound snapshots that leads from d along versions.
Line(v, d, snaps, versions) ==
  /\ snaps \in Seq(Snap)
  /\ versions \in Seq(Data)
  /\ AllSound(v, snaps)
  /\ LeadsTo(v, d, snaps, versions)

\* No history, no versions.
LEMMA LineEmpty == \A v, d : Line(v, d, <<>>, <<>>)
<1>1. <<>> \in Seq(Snap) /\ <<>> \in Seq(Data) /\ Len(<<>>) = 0 /\ 1..0 = {}
  BY EmptySeq
<1> QED BY <1>1 DEF Line, AllSound, LeadsTo

\* A snapshot that leads from the new data back to the old extends the line.
LEMMA LinePush ==
  ASSUME NEW v, NEW d \in Data, NEW snaps, NEW versions, Line(v, d, snaps, versions),
         NEW snap \in Snap, Sound(v, SpansOf(snap)),
         NEW new, Restored(v, new, snap, Len(snap)) = d
  PROVE  Line(v, new, Append(snaps, snap), Append(versions, d))
<1> DEFINE n == Len(snaps)
           ss == Append(snaps, snap)
           vs == Append(versions, d)
<1>1. /\ ss \in Seq(Snap) /\ Len(ss) = n + 1 /\ ss[n + 1] = snap
      /\ \A i \in 1..n : ss[i] = snaps[i]
      /\ n \in Nat
  BY Pushed, LenProperties DEF Line
<1>2. /\ vs \in Seq(Data) /\ Len(vs) = n + 1 /\ vs[n + 1] = d
      /\ \A i \in 1..n : vs[i] = versions[i]
  BY Pushed DEF Line, LeadsTo
<1>3. /\ \A i \in 1..n : Sound(v, SpansOf(snaps[i]))
      /\ \A i \in 1..n :
           Restored(v, IF i = n THEN d ELSE versions[i + 1], snaps[i], Len(snaps[i])) = versions[i]
  BY DEF Line, AllSound, LeadsTo
<1> HIDE DEF n, ss, vs
<1>4. \A i \in 1..n + 1 : i \in 1..n \/ i = n + 1
  BY <1>1
<1>5. AllSound(v, ss)
  BY <1>1, <1>3, <1>4 DEF AllSound
<1>6. ASSUME NEW i \in 1..n
      PROVE  Restored(v, vs[i + 1], ss[i], Len(ss[i])) = vs[i]
  <2>1. CASE i = n
    BY <1>1, <1>2, <1>3, <2>1
  <2>2. CASE i # n
    <3>1. i + 1 \in 1..n
      BY <1>1, <2>2
    <3> QED BY <1>1, <1>2, <1>3, <2>2, <3>1
  <2> QED BY <2>1, <2>2
<1>7. \A i \in 1..n : i # n + 1
  BY <1>1
<1>8. LeadsTo(v, new, ss, vs)
  BY <1>1, <1>2, <1>4, <1>6, <1>7 DEF LeadsTo
<1> QED BY <1>1, <1>2, <1>5, <1>8 DEF Line, ss, vs

\* The newest snapshot leads to the newest version, and the rest on from it.
LEMMA LinePop ==
  ASSUME NEW v, NEW d, NEW snaps, NEW versions, Line(v, d, snaps, versions), snaps # <<>>
  PROVE  /\ versions # <<>>
         /\ Top(versions) \in Data
         /\ Top(snaps) \in Snap /\ Sound(v, SpansOf(Top(snaps)))
         /\ Restored(v, d, Top(snaps), Len(Top(snaps))) = Top(versions)
         /\ Line(v, Top(versions), Front(snaps), Front(versions))
<1> DEFINE n == Len(snaps)
           ss == Front(snaps)
           vs == Front(versions)
<1>1. /\ n \in Nat \ {0} /\ Top(snaps) \in Snap
      /\ ss \in Seq(Snap) /\ Len(ss) = n - 1
      /\ \A i \in 1..Len(ss) : ss[i] = snaps[i]
  BY TopFront DEF Line
<1>2. Len(versions) = n /\ versions # <<>>
  <2>1. Len(versions) = n
    BY DEF Line, LeadsTo
  <2> QED BY <1>1, <2>1, EmptySeq
<1>3. /\ Top(versions) \in Data /\ Top(versions) = versions[n] /\ Top(snaps) = snaps[n]
      /\ vs \in Seq(Data) /\ Len(vs) = n - 1
      /\ \A i \in 1..Len(vs) : vs[i] = versions[i]
  <2>1. Top(versions) = versions[n] /\ Top(snaps) = snaps[n]
    BY <1>2 DEF Top
  <2> QED BY <1>2, <2>1, TopFront DEF Line
<1>4. /\ \A i \in 1..n : Sound(v, SpansOf(snaps[i]))
      /\ \A i \in 1..n :
           Restored(v, IF i = n THEN d ELSE versions[i + 1], snaps[i], Len(snaps[i])) = versions[i]
  BY DEF Line, AllSound, LeadsTo
<1> HIDE DEF n, ss, vs
<1>5. n \in 1..n /\ \A i \in 1..n - 1 : i \in 1..n /\ i # n
  BY <1>1
<1>6. AllSound(v, ss)
  BY <1>1, <1>4, <1>5 DEF AllSound
<1>7. ASSUME NEW i \in 1..n - 1
      PROVE  Restored(v, IF i = n - 1 THEN Top(versions) ELSE vs[i + 1], ss[i], Len(ss[i])) = vs[i]
  <2>1. Restored(v, versions[i + 1], ss[i], Len(ss[i])) = vs[i]
    BY <1>1, <1>3, <1>4, <1>5
  <2>2. CASE i = n - 1
    BY <1>1, <1>3, <2>1, <2>2
  <2>3. CASE i # n - 1
    <3>1. i + 1 \in 1..n - 1
      BY <1>1, <2>3
    <3> QED BY <1>3, <2>1, <2>3, <3>1
  <2> QED BY <2>2, <2>3
<1>8. LeadsTo(v, Top(versions), ss, vs)
  BY <1>1, <1>3, <1>7 DEF LeadsTo
<1>9. Line(v, Top(versions), ss, vs)
  BY <1>1, <1>3, <1>6, <1>8 DEF Line
<1>10. Restored(v, d, Top(snaps), Len(Top(snaps))) = Top(versions) /\ Sound(v, SpansOf(Top(snaps)))
  BY <1>3, <1>4, <1>5
<1> QED BY <1>1, <1>2, <1>3, <1>9, <1>10 DEF ss, vs

\* Forgetting the oldest snapshots forgets the oldest versions.
LEMMA LineKept ==
  ASSUME NEW v, NEW d, NEW snaps, NEW versions, Line(v, d, snaps, versions)
  PROVE  Line(v, d, Kept(snaps), Kept(versions))
<1> DEFINE n == Len(snaps)
           ss == Kept(snaps)
           vs == Kept(versions)
           m == n - Len(ss)
<1>1. /\ snaps \in Seq(Snap) /\ versions \in Seq(Data) /\ Len(versions) = n
      /\ \A i \in 1..n : Sound(v, SpansOf(snaps[i]))
      /\ \A i \in 1..n :
           Restored(v, IF i = n THEN d ELSE versions[i + 1], snaps[i], Len(snaps[i])) = versions[i]
  BY DEF Line, AllSound, LeadsTo
<1>2. /\ ss \in Seq(Snap) /\ vs \in Seq(Data)
      /\ Len(ss) <= n
      /\ \A i \in 1..Len(ss) : i + m \in 1..n /\ ss[i] = snaps[i + m]
      /\ \A i \in 1..Len(vs) : vs[i] = versions[i + (n - Len(vs))]
  BY <1>1, KeptFacts
<1>3. n \in Nat /\ Len(ss) \in Nat /\ UndoMax \in Nat /\ UndoDrop \in 1..UndoMax
  BY <1>1, <1>2, LenProperties, UndoAssumption
<1>4. Len(vs) = Len(ss)
  <2>1. CASE n >= UndoMax
    <3>1. ss = SubSeq(snaps, UndoDrop + 1, n) /\ vs = SubSeq(versions, UndoDrop + 1, n)
      BY <1>1, <2>1 DEF Kept
    <3>2. /\ UndoDrop + 1 \in Int
          /\ \A i \in UndoDrop + 1..n : snaps[i] \in Snap /\ versions[i] \in Data
      BY <1>1, <1>3, ElementOfSeq
    <3>3. Len(SubSeq(snaps, UndoDrop + 1, n)) =
            IF UndoDrop + 1 <= n THEN n - (UndoDrop + 1) + 1 ELSE 0
      BY <1>3, <3>2, SubSeqProperties
    <3>4. Len(SubSeq(versions, UndoDrop + 1, n)) =
            IF UndoDrop + 1 <= n THEN n - (UndoDrop + 1) + 1 ELSE 0
      BY <1>3, <3>2, SubSeqProperties
    <3> QED BY <3>1, <3>3, <3>4
  <2>2. CASE n < UndoMax
    BY <1>1, <1>3, <2>2, KeptFacts
  <2> QED BY <1>3, <2>1, <2>2
<1>5. m \in Nat /\ m + Len(ss) = n
  BY <1>2, <1>3
<1>6. \A i \in 1..Len(ss) : vs[i] = versions[i + m]
  BY <1>2, <1>4
<1> HIDE DEF n, ss, vs, m
<1>7. AllSound(v, ss)
  BY <1>1, <1>2 DEF AllSound
<1>8. ASSUME NEW i \in 1..Len(ss)
      PROVE  Restored(v, IF i = Len(ss) THEN d ELSE vs[i + 1], ss[i], Len(ss[i])) = vs[i]
  <2>1. /\ i + m \in 1..n /\ ss[i] = snaps[i + m] /\ vs[i] = versions[i + m]
        /\ i = Len(ss) <=> i + m = n
    BY <1>2, <1>3, <1>5, <1>6
  <2>2. Restored(v, IF i + m = n THEN d ELSE versions[i + m + 1], ss[i], Len(ss[i])) = vs[i]
    BY <1>1, <2>1
  <2>3. CASE i = Len(ss)
    BY <2>1, <2>2, <2>3
  <2>4. CASE i # Len(ss)
    <3>1. i + 1 \in 1..Len(ss) /\ i + 1 + m = i + m + 1
      BY <1>3, <1>5, <2>4
    <3>2. vs[i + 1] = versions[i + m + 1]
      BY <1>6, <3>1
    <3> QED BY <2>1, <2>2, <2>4, <3>2
  <2> QED BY <2>3, <2>4
<1>9. LeadsTo(v, d, ss, vs)
  BY <1>4, <1>8 DEF LeadsTo
<1> QED BY <1>2, <1>7, <1>9 DEF Line, ss, vs

\* Other data from which the newest snapshot leads to the same version.
LEMMA LineMoved ==
  ASSUME NEW v, NEW d, NEW e, NEW snaps, NEW versions, Line(v, d, snaps, versions),
         snaps # <<>> => Restored(v, e, Top(snaps), Len(Top(snaps)))
                           = Restored(v, d, Top(snaps), Len(Top(snaps)))
  PROVE  Line(v, e, snaps, versions)
<1>1. /\ Len(versions) = Len(snaps)
      /\ \A i \in 1..Len(snaps) :
           Restored(v, IF i = Len(snaps) THEN d ELSE versions[i + 1], snaps[i], Len(snaps[i]))
             = versions[i]
  BY DEF Line, LeadsTo
<1>2. ASSUME NEW i \in 1..Len(snaps)
      PROVE  Restored(v, IF i = Len(snaps) THEN e ELSE versions[i + 1], snaps[i], Len(snaps[i]))
               = versions[i]
  <2>1. snaps # <<>>
    BY EmptySeq
  <2>2. CASE i = Len(snaps)
    BY <1>1, <2>1, <2>2 DEF Top
  <2>3. CASE i # Len(snaps)
    BY <1>1, <2>3
  <2> QED BY <2>2, <2>3
<1>3. LeadsTo(v, e, snaps, versions)
  BY <1>1, <1>2 DEF LeadsTo
<1> QED BY <1>3 DEF Line

\* Another access that keeps every snapshot in place.
LEMMA LineAdjusted ==
  ASSUME NEW v, NEW w, NEW d \in Data, NEW snaps, NEW versions, Line(v, d, snaps, versions),
         AllSound(w, snaps)
  PROVE  Line(w, d, snaps, versions)
<1>1. /\ snaps \in Seq(Snap) /\ versions \in Seq(Data)
      /\ Len(versions) = Len(snaps) /\ Len(snaps) \in Nat
      /\ \A i \in 1..Len(snaps) : Sound(v, SpansOf(snaps[i])) /\ Sound(w, SpansOf(snaps[i]))
      /\ \A i \in 1..Len(snaps) :
           Restored(v, IF i = Len(snaps) THEN d ELSE versions[i + 1], snaps[i], Len(snaps[i]))
             = versions[i]
  BY LenProperties DEF Line, LeadsTo, AllSound
<1>2. ASSUME NEW i \in 1..Len(snaps)
      PROVE  Restored(w, IF i = Len(snaps) THEN d ELSE versions[i + 1], snaps[i], Len(snaps[i]))
               = versions[i]
  <2> DEFINE e == IF i = Len(snaps) THEN d ELSE versions[i + 1]
  <2>1. e \in Data
    <3>1. CASE i = Len(snaps)
      BY <3>1
    <3>2. CASE i # Len(snaps)
      <4>1. i + 1 \in 1..Len(versions)
        BY <1>1, <3>2
      <4> QED BY <1>1, <3>2, <4>1, ElementOfSeq
    <3> QED BY <3>1, <3>2
  <2>2. snaps[i] \in Snap
    BY <1>1, ElementOfSeq
  <2>3. Restored(v, e, snaps[i], Len(snaps[i])) = versions[i]
    BY <1>1
  <2> HIDE DEF e
  <2>4. Restored(w, e, snaps[i], Len(snaps[i])) = versions[i]
    BY <1>1, <2>1, <2>2, <2>3, SameRestored
  <2> QED BY <2>4 DEF e
<1>3. LeadsTo(w, d, snaps, versions)
  BY <1>1, <1>2 DEF LeadsTo
<1> QED BY <1>1, <1>3 DEF Line

\* What SnapshotUndo remembers of data that is then modified.
LEMMA LineRemember ==
  ASSUME NEW v, NEW d \in Data, NEW new \in Data, NEW snaps, NEW versions,
         Line(v, d, snaps, versions),
         NEW spans \in Seq(Span), spans # <<>>, Sound(v, spans),
         \A o \in Offset : new[o] # d[o] =>
           \E k \in 1..Len(spans) :
             o \in spans[k].ullOffset..(spans[k].ullOffset + spans[k].ullSize - 1)
  PROVE  Line(v, new, Append(Kept(snaps), Snapshot(v, d, spans)), Append(Kept(versions), d))
<1> DEFINE snap == Snapshot(v, d, spans)
<1>1. snap \in Snap /\ SpansOf(snap) = spans
  BY SnapshotType
<1>2. Restored(v, new, snap, Len(snap)) = d
  BY ModifyUndone
<1>3. Line(v, d, Kept(snaps), Kept(versions))
  BY LineKept
<1> HIDE DEF snap
<1>4. Sound(v, SpansOf(snap))
  BY <1>1
<1>5. Line(v, new, Append(Kept(snaps), snap), Append(Kept(versions), d))
  BY <1>1, <1>2, <1>3, <1>4, LinePush
<1> QED BY <1>5 DEF snap

-----------------------------------------------------------------------------
(* The refinement                                                          *)

Lines == Line(virtual, data, undo, past) /\ Line(virtual, data, redo, future)

HistoryInv == UndoInv /\ Lines

\* The lines of the next state, from their parts.
LEMMA LinesNext ==
  ASSUME Line(virtual', data', undo', past'), Line(virtual', data', redo', future')
  PROVE  Lines'
BY DEF Lines, Line, AllSound, LeadsTo, Sound, Disjoint, InPlace, Place, Readable,
       SpansOf, SpanOf, Snap, Entry, Restored, Decides, Saved, Reach, Data, Offset

\* Every step is a step of HexUndo.
LEMMA HistoryStepIsStep == HistoryStep => Next
<1>1. Replace => Next
  BY DEF Replace, Next, ClientNext
<1>2. Adjust => Next
  BY DEF Adjust, Next, ClientNext
<1>3. ASSUME NEW spans \in Spans, NEW new \in Data, Modify(spans, new) \/ Assign(spans, new)
      PROVE  Next
  BY <1>3 DEF Modify, Assign, Next, ModifyNext
<1>4. UndoVersion \/ RedoVersion => Next
  BY DEF UndoVersion, RedoVersion, Next, HistoryNext
<1>5. undo # <<>> /\ UndoHalfway => Next
  BY DEF UndoHalfway, Next, HistoryNext
<1> QED BY <1>1, <1>2, <1>3, <1>4, <1>5 DEF HistoryStep

\* What the invariant says of the current state.
LEMMA HistoryInvParts ==
  HistoryInv => /\ data \in Data
                /\ Line(virtual, data, undo, past) /\ Line(virtual, data, redo, future)
                /\ Len(undo) + Len(redo) <= UndoMax
BY DEF HistoryInv, UndoInv, TypeOK, HistoryBounded, Lines

\* Other data, with or without a history to forget.
LEMMA ReplaceStep ==
  ASSUME HistoryInv, Replace PROVE Lines' /\ History!Replace
<1>1. data' = Blank /\ undo' = <<>> /\ redo' = <<>> /\ past' = <<>> /\ future' = <<>>
  BY DEF Replace, ClearData, SetData
<1>2. Blank \in Data
  BY UndoAssumption DEF Blank, Data
<1>3. Lines'
  BY <1>1, LineEmpty, LinesNext
<1> QED BY <1>1, <1>2, <1>3 DEF History!Replace, History!Version, Data

\* Another access, or a change of what may be modified: no change of version.
LEMMA AdjustStep ==
  ASSUME HistoryInv, Adjust PROVE Lines' /\ UNCHANGED <<data, past, future>>
<1>1. /\ UNCHANGED <<data, undo, redo, past, future>>
      /\ AllSound(virtual', undo) /\ AllSound(virtual', redo)
  BY DEF Adjust, AdjustData, SetMutable
<1>2. Line(virtual', data, undo, past) /\ Line(virtual', data, redo, future)
  BY <1>1, HistoryInvParts, LineAdjusted
<1> QED BY <1>1, <1>2, LinesNext

\* A modification that is remembered, or the histories it could not extend.
LEMMA ModifyStep ==
  ASSUME HistoryInv, NEW spans \in Spans, NEW new \in Data, Modify(spans, new)
  PROVE  Lines' /\ (History!Change \/ History!Replace)
<1>1. /\ Remembered(spans) /\ Sound(virtual, spans) /\ spans # <<>>
      /\ ChangesOnly(new, spans)
      /\ data' = new /\ redo' = <<>> /\ future' = <<>>
      /\ undo' = SnapshotUndo(undo, spans) \/ undo' = <<>>
      /\ past' = IF undo' = <<>> THEN <<>> ELSE Remember(past)
      /\ UNCHANGED virtual
  BY DEF Modify, Meant, ModifyData
<1>2. spans \in Seq(Span)
  BY SpansType
<1>3. CASE undo' = <<>>
  <2>1. past' = <<>>
    BY <1>1, <1>3
  <2> QED BY <1>1, <1>3, <2>1, LineEmpty, LinesNext DEF History!Replace, History!Version, Data
<1>4. CASE undo' # <<>>
  <2>1. /\ undo' = Append(Kept(undo), Snapshot(virtual, data, spans))
        /\ past' = Append(Kept(past), data)
    BY <1>1, <1>4 DEF SnapshotUndo, Remember
  <2>2. Line(virtual, new, Append(Kept(undo), Snapshot(virtual, data, spans)), Append(Kept(past), data))
    BY <1>1, <1>2, HistoryInvParts, LineRemember DEF ChangesOnly
  <2>3. Lines'
    BY <1>1, <2>1, <2>2, LineEmpty, LinesNext
  <2>4. History!Change
    BY <1>1, <2>1 DEF History!Change, History!Remember, History!Kept, Kept, History!Version, Data
  <2> QED BY <2>3, <2>4
<1> QED BY <1>3, <1>4

\* An assignment, remembered twice.
LEMMA AssignStep ==
  ASSUME HistoryInv, NEW spans \in Spans, NEW new \in Data, Assign(spans, new)
  PROVE  Lines' /\ (History!Assign \/ History!Replace)
<1>1. /\ Remembered(spans) /\ Sound(virtual, spans) /\ spans # <<>>
      /\ ChangesOnly(new, spans)
      /\ data' = new /\ redo' = <<>> /\ future' = <<>>
      /\ \/ undo' = SnapshotUndo(SnapshotUndo(undo, spans), spans)
         \/ undo' = SnapshotUndo(<<>>, spans)
         \/ undo' = <<>>
      /\ past' = IF undo' = <<>> THEN <<>>
                 ELSE IF undo' = SnapshotUndo(<<>>, spans) THEN Remember(<<>>)
                 ELSE Remember(Remember(past))
      /\ UNCHANGED virtual
  BY DEF Assign, Meant, AssignData
<1>2. spans \in Seq(Span) /\ data \in Data
  BY SpansType, HistoryInvParts
<1> DEFINE snap == Snapshot(virtual, data, spans)
<1>3. \A snaps : SnapshotUndo(snaps, spans) = Append(Kept(snaps), snap)
  BY <1>1 DEF SnapshotUndo
<1>4. ASSUME NEW snaps, NEW versions, Line(virtual, data, snaps, versions)
      PROVE  /\ Line(virtual, data, Append(Kept(snaps), snap), Remember(versions))
             /\ Line(virtual, new, Append(Kept(snaps), snap), Remember(versions))
  BY <1>1, <1>2, <1>4, LineRemember DEF ChangesOnly, Remember
<1> HIDE DEF snap
<1>5. CASE undo' = <<>>
  <2>1. past' = <<>>
    BY <1>1, <1>5
  <2> QED BY <1>1, <1>5, <2>1, LineEmpty, LinesNext DEF History!Replace, History!Version, Data
<1>6. CASE undo' # <<>> /\ undo' = SnapshotUndo(<<>>, spans)
  <2>1. past' = Remember(<<>>) /\ undo' = Append(Kept(<<>>), snap)
    BY <1>1, <1>3, <1>6
  <2>2. Lines'
    BY <1>1, <1>4, <2>1, LineEmpty, LinesNext
  <2>3. History!Assign
    BY <1>1, <2>1 DEF History!Assign, History!Remember, History!Kept, Remember, Kept, History!Version, Data
  <2> QED BY <2>2, <2>3
<1>7. CASE undo' # <<>> /\ undo' # SnapshotUndo(<<>>, spans)
  <2>1. /\ past' = Remember(Remember(past))
        /\ undo' = Append(Kept(Append(Kept(undo), snap)), snap)
    BY <1>1, <1>3, <1>7
  <2>2. Line(virtual, data, Append(Kept(undo), snap), Remember(past))
    BY <1>4, HistoryInvParts
  <2>3. Lines'
    BY <1>1, <1>4, <2>1, <2>2, LineEmpty, LinesNext
  <2>4. History!Assign
    BY <1>1, <2>1 DEF History!Assign, History!Remember, History!Kept, Remember, Kept, History!Version, Data
  <2> QED BY <2>3, <2>4
<1> QED BY <1>5, <1>6, <1>7

\* Undo goes back one version and keeps the one it leaves for Redo.
LEMMA UndoVersionStep ==
  ASSUME HistoryInv, UndoVersion PROVE Lines' /\ History!Undo
<1> DEFINE snap == Top(undo)
           swap == Swapped(virtual, data, snap)
<1>1. /\ undo # <<>> /\ undo' = Front(undo) /\ redo' = Append(redo, swap)
      /\ data' = Restored(virtual, data, snap, Len(snap))
      /\ past' = Front(past) /\ future' = Append(future, data)
      /\ UNCHANGED virtual
  BY DEF UndoVersion, Undo
<1>2. /\ past # <<>> /\ Top(past) \in Data
      /\ snap \in Snap /\ Sound(virtual, SpansOf(snap))
      /\ Restored(virtual, data, snap, Len(snap)) = Top(past)
      /\ Line(virtual, Top(past), Front(undo), Front(past))
  BY <1>1, HistoryInvParts, LinePop
<1>3. /\ swap \in Snap /\ Len(swap) = Len(snap) /\ SpansOf(swap) = SpansOf(snap)
      /\ Restored(virtual, Restored(virtual, data, snap, Len(snap)), swap, Len(snap)) = data
  BY <1>2, HistoryInvParts, SwappedType, UndoRedone
<1> HIDE DEF snap, swap
<1>4. Sound(virtual, SpansOf(swap)) /\ Restored(virtual, Top(past), swap, Len(swap)) = data
  BY <1>2, <1>3
<1>5. Line(virtual, Top(past), Append(redo, swap), Append(future, data))
  BY <1>3, <1>4, HistoryInvParts, LinePush
<1>6. data' = Top(past)
  BY <1>1, <1>2
<1>7. Lines'
  BY <1>1, <1>2, <1>5, <1>6, LinesNext
<1>8. History!Undo
  BY <1>1, <1>2, <1>6 DEF History!Undo, History!Top, History!Front, Top, Front
<1> QED BY <1>7, <1>8

\* An Undo that runs out of memory leaves data from which its snapshot still
\* leads to the version before.
LEMMA UndoHalfwayStep ==
  ASSUME HistoryInv, undo # <<>>, UndoHalfway PROVE Lines' /\ History!UndoHalfway
<1> DEFINE snap == Top(undo)
<1>1. PICK n \in 1..Len(snap) : UndoOutOfMemory(n)
  BY DEF UndoHalfway
<1>2. /\ data' = Restored(virtual, data, snap, n - 1)
      /\ redo' = <<>> /\ future' = <<>>
      /\ UNCHANGED <<virtual, undo, past>>
  BY <1>1 DEF UndoOutOfMemory, UndoHalfway
<1>3. /\ past # <<>> /\ Top(past) \in Data
      /\ snap \in Snap /\ Sound(virtual, SpansOf(snap))
      /\ Restored(virtual, data, snap, Len(snap)) = Top(past)
  BY HistoryInvParts, LinePop
<1>4. n - 1 \in 0..Len(snap)
  <2>1. Len(snap) \in Nat
    BY <1>3, SpansOfType
  <2> QED BY <2>1
<1> HIDE DEF snap
<1>5. /\ Restored(virtual, data', snap, Len(snap)) = Restored(virtual, data, snap, Len(snap))
      /\ \A o \in Offset : data'[o] \in {data[o], Top(past)[o]}
  BY <1>2, <1>3, <1>4, HistoryInvParts, HalfwayCompleted
<1>6. data' \in Data
  BY <1>2, <1>3, <1>4, HistoryInvParts, RestoredType
<1>7. Line(virtual, data', undo, past)
  BY <1>5, HistoryInvParts, LineMoved DEF snap
<1>8. Lines'
  BY <1>2, <1>7, LineEmpty, LinesNext
<1>9. History!UndoHalfway
  BY <1>2, <1>3, <1>5, <1>6 DEF History!UndoHalfway, History!Version, Data, History!Top, Top
<1> QED BY <1>8, <1>9

\* Redo goes forward one version; the history it returns to has room for it.
LEMMA RedoVersionStep ==
  ASSUME HistoryInv, RedoVersion PROVE Lines' /\ History!Redo
<1> DEFINE snap == Top(redo)
           spans == SpansOf(snap)
<1>1. /\ redo # <<>> /\ redo' = Front(redo) /\ undo' = SnapshotUndo(undo, spans)
      /\ data' = Restored(virtual, data, snap, Len(snap))
      /\ past' = Append(Kept(past), data) /\ future' = Front(future)
      /\ UNCHANGED virtual
  BY DEF RedoVersion, Redo, Remember
<1>2. /\ future # <<>> /\ Top(future) \in Data
      /\ snap \in Snap /\ Sound(virtual, SpansOf(snap))
      /\ Restored(virtual, data, snap, Len(snap)) = Top(future)
      /\ Line(virtual, Top(future), Front(redo), Front(future))
  BY <1>1, HistoryInvParts, LinePop
<1>3. spans \in Seq(Span) /\ spans # <<>>
  BY <1>2, SpansOfType
<1>4. \A o \in Offset : Top(future)[o] # data[o] =>
        \E k \in 1..Len(spans) :
          o \in spans[k].ullOffset..(spans[k].ullOffset + spans[k].ullSize - 1)
  BY <1>2, HistoryInvParts, RestoredWithin
<1>5. undo' = Append(Kept(undo), Snapshot(virtual, data, spans))
  <2>1. Remembered(spans)
    BY <1>1, InvParts, AcceptedStack DEF HistoryInv
  <2> QED BY <1>1, <2>1 DEF SnapshotUndo
<1>6. Sound(virtual, spans)
  BY <1>2
<1> HIDE DEF spans
<1>7. Line(virtual, Top(future), Append(Kept(undo), Snapshot(virtual, data, spans)),
           Append(Kept(past), data))
  BY <1>2, <1>3, <1>4, <1>6, HistoryInvParts, LineRemember
<1>8. data' = Top(future)
  BY <1>1, <1>2
<1>9. Lines'
  BY <1>1, <1>2, <1>5, <1>7, <1>8, LinesNext
<1>10. Kept(past) = past
  <2>1. /\ Len(redo) \in Nat \ {0} /\ Len(undo) \in Nat /\ UndoMax \in Nat
        /\ Len(past) = Len(undo) /\ past \in Seq(Data)
    BY <1>1, HistoryInvParts, TopFront, LenProperties, UndoAssumption DEF Line, LeadsTo
  <2>2. Len(past) < UndoMax
    BY <2>1, HistoryInvParts
  <2> QED BY <2>1, <2>2, KeptFacts
<1>11. History!Redo
  BY <1>1, <1>2, <1>8, <1>10 DEF History!Redo, History!Top, History!Front, Top, Front
<1> QED BY <1>9, <1>11

\* The invariant is inductive, and every step is one of HexHistory or none.
LEMMA HistoryStepProved ==
  HistoryInv /\ [HistoryStep]_historyVars =>
    HistoryInv' /\ [History!Next]_(History!historyVars)
<1> SUFFICES ASSUME HistoryInv, [HistoryStep]_historyVars
             PROVE  HistoryInv' /\ [History!Next]_(History!historyVars)
  OBVIOUS
<1>1. UndoInv'
  <2>1. [Next]_undoVars
    BY HistoryStepIsStep DEF historyVars, undoVars
  <2> QED BY <2>1, UndoStep DEF HistoryInv
<1>2. Lines' /\ (History!Next \/ UNCHANGED <<data, past, future>>)
  <2>1. CASE Replace
    BY <2>1, ReplaceStep DEF History!Next
  <2>2. CASE Adjust
    BY <2>2, AdjustStep
  <2>3. ASSUME NEW spans \in Spans, NEW new \in Data, Modify(spans, new)
        PROVE  Lines' /\ History!Next
    BY <2>3, ModifyStep DEF History!Next
  <2>4. ASSUME NEW spans \in Spans, NEW new \in Data, Assign(spans, new)
        PROVE  Lines' /\ History!Next
    BY <2>4, AssignStep DEF History!Next
  <2>5. CASE UndoVersion
    BY <2>5, UndoVersionStep DEF History!Next
  <2>6. CASE undo # <<>> /\ UndoHalfway
    BY <2>6, UndoHalfwayStep DEF History!Next
  <2>7. CASE RedoVersion
    BY <2>7, RedoVersionStep DEF History!Next
  <2>8. CASE UNCHANGED historyVars
    <3>1. UNCHANGED <<virtual, data, undo, redo, past, future>>
      BY <2>8 DEF historyVars, undoVars
    <3> QED BY <3>1, HistoryInvParts, LinesNext
  <2> QED BY <2>1, <2>2, <2>3, <2>4, <2>5, <2>6, <2>7, <2>8 DEF HistoryStep
<1>3. [History!Next]_(History!historyVars)
  BY <1>2 DEF History!historyVars
<1> QED BY <1>1, <1>2, <1>3 DEF HistoryInv

\* The control starts with one version.
LEMMA HistoryInitProved == HistoryInit => HistoryInv /\ History!Init
<1> SUFFICES ASSUME HistoryInit PROVE HistoryInv /\ History!Init
  OBVIOUS
<1>1. UndoInv /\ data \in Data
  BY UndoInit DEF HistoryInit, UndoInv, TypeOK
<1>2. undo = <<>> /\ redo = <<>> /\ past = <<>> /\ future = <<>>
  BY DEF HistoryInit, Init
<1>3. Lines
  BY <1>2, LineEmpty DEF Lines
<1> QED BY <1>1, <1>2, <1>3 DEF HistoryInv, History!Init, History!Version, Data

\* Every snapshot of the two histories reproduces, in its turn, the version of
\* the data it was taken of.
THEOREM SnapshotsLeadBackAlways == HistorySpec => []SnapshotsLeadBack
<1>1. HistoryInv => SnapshotsLeadBack
  BY DEF HistoryInv, Lines, Line, SnapshotsLeadBack
<1> QED BY <1>1, HistoryInitProved, HistoryStepProved, PTL DEF HistorySpec

\* The histories stay within their limits while every snapshot in them leads back.
THEOREM HistoriesAlwaysLeadBack == HistorySpec => []HistoriesLeadBack
<1>1. HistoryInv => HistoriesLeadBack
  BY DEF HistoryInv, UndoInv, HistoriesOK, HistoriesLeadBack, Lines, Line, SnapshotsLeadBack
<1> QED BY <1>1, HistoryInitProved, HistoryStepProved, PTL DEF HistorySpec

\* Undo and Redo implement the line of versions: whatever sequence of
\* modifications, undos, redos and memory shortages, they reproduce versions
\* exactly.
THEOREM UndoRefinesHistory == HistorySpec => UndoImplementsHistory
BY HistoryInitProved, HistoryStepProved, PTL DEF HistorySpec, UndoImplementsHistory, History!Spec

=============================================================================
