------------------------------ MODULE MCHexNav ------------------------------
\* Small instances of HexNav's FittingSpec in three parts: moving over data by
\* halves of a byte too, marking read-only data, and read-only data under
\* any spans a client selects.
EXTENDS HexNav

CONSTANT SmallSize

VARIABLE part

MCPageSizes == {0, 2}

OneClientSpan ==
  \/ \E offset \in 0..SmallSize, high \in BOOLEAN : SetCaretPos(offset, high)
  \/ \E o \in 0..dataSize - 1, s \in 1..dataSize : Fits(One(o, s)) /\ ClientSelection(One(o, s))
  \/ ClientSelection(<<>>)

HalvesNext ==
  /\ DataNext \/ LayoutNext \/ CaretNext \/ FittingSelectNext \/ FittingMouseNext \/ OneClientSpan
  /\ dataSize' <= SmallSize
  /\ UNCHANGED markVars

ReadOnlyNext ==
  \/ ClearData
  \/ \E cap \in 1..MaxCapacity : SetCapacity(cap)
  \/ FittingMouseNext /\ (lmbDown' => textArea')

MarksNext ==
  \/ ReadOnlyNext \/ FittingSelectNext \/ CaretNext \/ OneClientSpan
  \/ \E size \in 1..SmallSize : SetData(size, FALSE)

SpansNext ==
  \/ ReadOnlyNext \/ ClientNext
  \/ SetData(MaxSize, FALSE)
  \/ FittingSelectNext /\ UNCHANGED markVars

MCInit ==
  /\ Init
  /\ part \in {"halves", "marks", "spans"}
  /\ part = "spans" => groupSize = 1

MCNext ==
  /\ UNCHANGED part
  /\ \/ part = "halves" /\ HalvesNext
     \/ part = "marks" /\ MarksNext
     \/ part = "spans" /\ SpansNext

MCSpec == MCInit /\ [][MCNext]_<<vars, part>>

=============================================================================
