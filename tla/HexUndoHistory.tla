--------------------------- MODULE HexUndoHistory ---------------------------
(***************************************************************************)
(* HexUndo with history variables: past and future hold the versions of    *)
(* the data that the snapshots of undo and redo stand for.  Where undo     *)
(* works as meant - disjoint spans, small enough to be remembered, no      *)
(* larger than the cache when data is virtual - it implements HexHistory.  *)
(***************************************************************************)
EXTENDS HexUndo

VARIABLES
  past,   \* the version each snapshot of undo leads back to
  future  \* the version each snapshot of redo leads to

historyVars == <<undoVars, past, future>>

History == INSTANCE HexHistory
  WITH version <- data, Limit <- UndoMax, Drop <- UndoDrop

Disjoint(spans) ==
  \A j, k \in 1..Len(spans) : j # k =>
    \/ spans[j].ullOffset + spans[j].ullSize <= spans[k].ullOffset
    \/ spans[k].ullOffset + spans[k].ullSize <= spans[j].ullOffset

\* A span is accessed at its offset and lies inside the data.
InPlace(v, span) == Place(v, span) = span.ullOffset /\ Readable(v, span)

Sound(v, spans) == Disjoint(spans) /\ \A k \in 1..Len(spans) : InPlace(v, spans[k])
AllSound(v, snaps) == \A i \in 1..Len(snaps) : Sound(v, SpansOf(snaps[i]))

Remember(versions) == Append(Kept(versions), data)

HistoryInit == Init /\ past = <<>> /\ future = <<>>

Replace ==
  /\ \/ ClearData
     \/ \E v \in BOOLEAN, m \in BOOLEAN : SetData(Blank, v, m)
  /\ past' = <<>>
  /\ future' = <<>>

\* A switch of access that puts no snapshot out of place.
Adjust ==
  /\ \/ \E v \in BOOLEAN, m \in BOOLEAN : AdjustData(v, m)
     \/ \E m \in BOOLEAN : SetMutable(m)
  /\ AllSound(virtual', undo)
  /\ AllSound(virtual', redo)
  /\ UNCHANGED <<past, future>>

Meant(spans) == Remembered(spans) /\ Sound(virtual, spans)

Modify(spans, new) ==
  /\ Meant(spans)
  /\ ModifyData(spans, new)
  /\ past' = IF undo' = <<>> THEN <<>> ELSE Remember(past)
  /\ future' = <<>>

\* Twice the same version; once if there was no memory for the first.
Assign(spans, new) ==
  /\ Meant(spans)
  /\ AssignData(spans, new)
  /\ past' = IF undo' = <<>> THEN <<>>
             ELSE IF undo' = SnapshotUndo(<<>>, spans) THEN Remember(<<>>)
             ELSE Remember(Remember(past))
  /\ future' = <<>>

UndoVersion ==
  /\ Undo
  /\ past' = Front(past)
  /\ future' = Append(future, data)

UndoHalfway ==
  /\ \E n \in 1..Len(Top(undo)) : UndoOutOfMemory(n)
  /\ future' = <<>>
  /\ UNCHANGED past

RedoVersion ==
  /\ Redo
  /\ past' = Remember(past)
  /\ future' = Front(future)

HistoryStep ==
  \/ Replace
  \/ Adjust
  \/ \E spans \in Spans, new \in Data : Modify(spans, new) \/ Assign(spans, new)
  \/ UndoVersion
  \/ undo # <<>> /\ UndoHalfway
  \/ RedoVersion

HistorySpec == HistoryInit /\ [][HistoryStep]_historyVars

-----------------------------------------------------------------------------
(* Properties                                                              *)

\* Restoring the i-th snapshot over the version that followed it gives the
\* version it stands for; d followed the last.
LeadsTo(v, d, snaps, versions) ==
  /\ Len(versions) = Len(snaps)
  /\ \A i \in 1..Len(snaps) :
       Restored(v, IF i = Len(snaps) THEN d ELSE versions[i + 1], snaps[i], Len(snaps[i]))
         = versions[i]

\* Every snapshot of the two histories, restored in its turn, reproduces the
\* data as it was when the snapshot was taken (SnapshotUndo, Undo, Redo).
SnapshotsLeadBack ==
  LeadsTo(virtual, data, undo, past) /\ LeadsTo(virtual, data, redo, future)

\* The histories keep their limits, and what is in them leads back.
HistoriesLeadBack == HistoriesOK /\ SnapshotsLeadBack

\* Undo and Redo reproduce every remembered version exactly, through any
\* interleaving of modifications, undos, redos and memory shortages.
UndoImplementsHistory == History!Spec

=============================================================================
