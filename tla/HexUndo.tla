------------------------------ MODULE HexUndo ------------------------------
(***************************************************************************)
(* Modification, Undo and Redo of the data of the hex control              *)
(* (CHexCtrl.cpp: ModifyData, SnapshotUndo, Undo, Redo, and the calls that *)
(* replace the data or make it read-only).  What a modification computes   *)
(* is left open: it may change any byte of its spans.                      *)
(***************************************************************************)
EXTENDS Integers, Sequences, Functions

CONSTANTS
  Byte,         \* the values of a byte
  Zero,         \* std::byte { }
  DataSize,     \* GetDataSize()
  CacheSize,    \* GetCacheSize(): what a virtual data handler gives at once
  UndoMax,      \* dwUndoMax, 512
  UndoDrop,     \* 64: the oldest snapshots erased at the limit
  MaxSnapshot,  \* 10 MB: larger modifications are not remembered
  Spans         \* bound: the span vectors a client modifies

ASSUME UndoAssumption ==
  /\ Zero \in Byte
  /\ DataSize \in Nat \ {0}
  /\ CacheSize \in Nat \ {0}
  /\ UndoMax \in Nat
  /\ UndoDrop \in 1..UndoMax
  /\ MaxSnapshot \in Nat
  /\ Spans \subseteq Seq([ullOffset : Nat, ullSize : Nat \ {0}])

VARIABLES
  dataSet,  \* m_fDataSet
  data,     \* m_spnData, or what the virtual data handler holds
  virtual,  \* IsVirtual()
  mutable,  \* m_fMutable
  undo,     \* m_vecUndo, the newest snapshot last
  redo,     \* m_vecRedo, the next snapshot last
  crashed   \* Redo used a freed snapshot

undoVars == <<dataSet, data, virtual, mutable, undo, redo, crashed>>

Offset == 0..DataSize - 1
Data == [Offset -> Byte]
Blank == [o \in Offset |-> Zero]

Front(s) == SubSeq(s, 1, Len(s) - 1)
Top(s) == s[Len(s)]

-----------------------------------------------------------------------------
(* Snapshots: sequences of spans (UNDO), each with the bytes it held.  The *)
(* way spans are accessed, v, is IsVirtual()                               *)

\* Where the bytes of a span are read and written: at its offset, except
\* that spans larger than the cache are processed in chunks from offset 0.
Place(v, span) == IF v /\ span.ullSize > CacheSize THEN 0 ELSE span.ullOffset

\* GetData returns nothing for a span that is not inside the data.
Readable(v, span) == Place(v, span) + span.ullSize <= DataSize

Reach(v, span) == {o \in Offset : /\ Readable(v, span)
                                /\ Place(v, span) <= o
                                /\ o < Place(v, span) + span.ullSize}

Read(v, d, span) ==
  [ullOffset |-> span.ullOffset,
   vecData   |-> [i \in 1..span.ullSize |->
                    IF Readable(v, span) THEN d[Place(v, span) + i - 1] ELSE Zero]]

Snapshot(v, d, spans) == [k \in 1..Len(spans) |-> Read(v, d, spans[k])]

SpanOf(entry) == [ullOffset |-> entry.ullOffset, ullSize |-> Len(entry.vecData)]
SpansOf(snap) == [k \in 1..Len(snap) |-> SpanOf(snap[k])]

\* d with the first n entries of a snapshot copied into it, one after the
\* other: the last entry to reach a byte decides.
Decides(v, snap, n, k, o) ==
  /\ o \in Reach(v, SpanOf(snap[k]))
  /\ \A j \in k + 1..n : o \notin Reach(v, SpanOf(snap[j]))

Saved(v, entry, o) == entry.vecData[o - Place(v, SpanOf(entry)) + 1]

Restored(v, d, snap, n) ==
  [o \in Offset |->
     IF \E k \in 1..n : Decides(v, snap, n, k, o)
     THEN Saved(v, snap[CHOOSE k \in 1..n : Decides(v, snap, n, k, o)], o)
     ELSE d[o]]

\* Mutant: a span is saved for Redo after it was restored.
SwappedLate(v, d, snap) ==
  [k \in 1..Len(snap) |-> Read(v, Restored(v, d, snap, k), SpanOf(snap[k]))]

\* The bytes Undo saves for Redo, each span just before it is restored.
Swapped(v, d, snap) ==
  [k \in 1..Len(snap) |-> Read(v, Restored(v, d, snap, k - 1), SpanOf(snap[k]))]

Total(spans) == SumFunction([k \in 1..Len(spans) |-> spans[k].ullSize])

Remembered(spans) == Total(spans) <= MaxSnapshot

\* Mutant: the limit is noticed one snapshot late.
KeptLate(snaps) ==
  IF Len(snaps) > UndoMax THEN SubSeq(snaps, UndoDrop + 1, Len(snaps)) ELSE snaps

\* The oldest snapshots go when there are UndoMax of them.
Kept(snaps) ==
  IF Len(snaps) >= UndoMax THEN SubSeq(snaps, UndoDrop + 1, Len(snaps)) ELSE snaps

\* What SnapshotUndo makes of m_vecUndo, with enough memory.
SnapshotUndo(snaps, spans) ==
  IF Remembered(spans) THEN Append(Kept(snaps), Snapshot(virtual, data, spans)) ELSE snaps

-----------------------------------------------------------------------------
(* Operations                                                              *)

Usable == dataSet /\ ~crashed

\* Mutant: what was undone survives the data.
RedoOfOldData ==
  /\ ~crashed
  /\ dataSet' = FALSE
  /\ data' = Blank
  /\ virtual' = FALSE
  /\ mutable' = FALSE
  /\ undo' = <<>>
  /\ UNCHANGED <<redo, crashed>>

ClearData ==
  /\ ~crashed
  /\ dataSet' = FALSE
  /\ data' = Blank
  /\ virtual' = FALSE
  /\ mutable' = FALSE
  /\ undo' = <<>>
  /\ redo' = <<>>
  /\ UNCHANGED crashed

\* fAdjust = false.
SetData(d, fVirtual, fMutable) ==
  /\ ~crashed
  /\ dataSet' = TRUE
  /\ data' = d
  /\ virtual' = fVirtual
  /\ mutable' = fMutable
  /\ undo' = <<>>
  /\ redo' = <<>>
  /\ UNCHANGED crashed

\* fAdjust = true: the same bytes, accessed another way.
AdjustData(fVirtual, fMutable) ==
  /\ Usable
  /\ virtual' = fVirtual
  /\ mutable' = fMutable
  /\ UNCHANGED <<dataSet, data, undo, redo, crashed>>

SetMutable(fMutable) ==
  /\ Usable
  /\ mutable' = fMutable
  /\ UNCHANGED <<dataSet, data, virtual, undo, redo, crashed>>

ChangesOnly(new, spans) ==
  \A o \in Offset : new[o] # data[o] =>
    \E k \in 1..Len(spans) : o \in spans[k].ullOffset..(spans[k].ullOffset + spans[k].ullSize - 1)

\* SnapshotUndo runs out of memory: it clears both histories, the
\* modification goes on.
ModifyData(spans, new) ==
  /\ Usable
  /\ mutable
  /\ spans # <<>>
  /\ ChangesOnly(new, spans)
  /\ data' = new
  /\ \/ undo' = SnapshotUndo(undo, spans)
     \/ Remembered(spans) /\ undo' = <<>>
  /\ redo' = <<>>
  /\ UNCHANGED <<dataSet, virtual, mutable, crashed>>

\* OPER_ASSIGN takes its snapshot, then calls ModifyData for the equivalent
\* MODIFY_REPEAT, which takes another.
AssignData(spans, new) ==
  /\ Usable
  /\ mutable
  /\ spans # <<>>
  /\ ChangesOnly(new, spans)
  /\ data' = new
  /\ \/ undo' = SnapshotUndo(SnapshotUndo(undo, spans), spans)
     \/ Remembered(spans) /\ undo' = SnapshotUndo(<<>>, spans)
     \/ Remembered(spans) /\ undo' = <<>>
  /\ redo' = <<>>
  /\ UNCHANGED <<dataSet, virtual, mutable, crashed>>

Undo ==
  /\ Usable
  /\ undo # <<>>
  /\ data' = Restored(virtual, data, Top(undo), Len(Top(undo)))
  /\ redo' = Append(redo, Swapped(virtual, data, Top(undo)))
  /\ undo' = Front(undo)
  /\ UNCHANGED <<dataSet, virtual, mutable, crashed>>

\* No memory for the redo data of the n-th span: the spans before it are
\* restored already, and the snapshot stays.
UndoOutOfMemory(n) ==
  /\ Usable
  /\ undo # <<>>
  /\ n \in 1..Len(Top(undo))
  /\ data' = Restored(virtual, data, Top(undo), n - 1)
  /\ redo' = <<>>
  /\ UNCHANGED <<dataSet, virtual, mutable, undo, crashed>>

Redo ==
  /\ Usable
  /\ redo # <<>>
  /\ undo' = SnapshotUndo(undo, SpansOf(Top(redo)))
  /\ data' = Restored(virtual, data, Top(redo), Len(Top(redo)))
  /\ redo' = Front(redo)
  /\ UNCHANGED <<dataSet, virtual, mutable, crashed>>

\* SnapshotUndo clears m_vecRedo too, and with it the snapshot Redo holds a
\* reference to and goes on to read.
RedoOutOfMemory ==
  /\ Usable
  /\ redo # <<>>
  /\ Remembered(SpansOf(Top(redo)))
  /\ undo' = <<>>
  /\ redo' = <<>>
  /\ crashed' = TRUE
  /\ UNCHANGED <<dataSet, data, virtual, mutable>>

-----------------------------------------------------------------------------
(* The specification                                                       *)

Init ==
  /\ dataSet = FALSE
  /\ data = Blank
  /\ virtual = FALSE
  /\ mutable = FALSE
  /\ undo = <<>>
  /\ redo = <<>>
  /\ crashed = FALSE

ClientNext ==
  \/ ClearData
  \/ \E v \in BOOLEAN, m \in BOOLEAN :
       SetData(Blank, v, m) \/ AdjustData(v, m)
  \/ \E m \in BOOLEAN : SetMutable(m)

ModifyNext ==
  \E spans \in Spans, new \in Data : ModifyData(spans, new) \/ AssignData(spans, new)

HistoryNext ==
  \/ Undo
  \/ undo # <<>> /\ \E n \in 1..Len(Top(undo)) : UndoOutOfMemory(n)
  \/ Redo
  \/ RedoOutOfMemory

Next == ClientNext \/ ModifyNext \/ HistoryNext

Spec == Init /\ [][Next]_undoVars

-----------------------------------------------------------------------------
(* Properties                                                              *)

Entry == [ullOffset : Nat, vecData : Seq(Byte)]
Snap == Seq(Entry) \ {<<>>}

\* The state's types; a snapshot is never empty.
TypeOK ==
  /\ dataSet \in BOOLEAN
  /\ data \in Data
  /\ virtual \in BOOLEAN
  /\ mutable \in BOOLEAN
  /\ undo \in Seq(Snap)
  /\ redo \in Seq(Snap)
  /\ crashed \in BOOLEAN

\* The histories never hold more than UndoMax snapshots between them, nor a
\* snapshot larger than SnapshotUndo accepts, whatever sequence of Undo, Redo
\* and modifications moved and dropped them: what Redo returns to the undo
\* history always fits, and Redo never makes it forget older snapshots.
HistoryBounded ==
  /\ Len(undo) + Len(redo) <= UndoMax
  /\ \A i \in 1..Len(undo) : Remembered(SpansOf(undo[i]))
  /\ \A i \in 1..Len(redo) : Remembered(SpansOf(redo[i]))

\* Without data there is no history: Undo needs no data check of its own
\* (IsCmdAvail asks only whether m_vecUndo is empty).
HistoryOfData == (undo # <<>> \/ redo # <<>>) => dataSet

\* Types hold: the data keeps its size, and no snapshot is empty.  And the
\* histories keep to their limit and to the data there is.
HistoriesOK == TypeOK /\ HistoryBounded /\ HistoryOfData

=============================================================================
