------------------------------- MODULE HexNav -------------------------------
(***************************************************************************)
(* Caret, mouse cursor and selection of the hex control (CHexCtrl.cpp and  *)
(* CHexSelection.ixx): the commands of ExecuteCmd that move the caret or   *)
(* extend the selection, the mouse handlers, and the calls of a client     *)
(* that replace the data, its layout or its selection underneath them.     *)
(* Offsets are byte offsets.  Drawing and scrolling are left out.          *)
(***************************************************************************)
EXTENDS Integers, Sequences

CONSTANTS
  MaxSize,      \* bound: the largest data a client sets
  MaxCapacity,  \* 100 in SetCapacity
  MaxGroup,     \* 64 in SetGroupSize
  PageSizes,    \* page sizes a client sets
  MaxSpans,     \* bound: the most spans a client selects at once
  Modulus       \* 2^64, the modulus of ULONGLONG

ASSUME NavAssumption ==
  /\ MaxSize \in Nat \ {0}
  /\ MaxGroup \in Nat \ {0}
  /\ MaxCapacity \in Nat
  /\ MaxGroup <= MaxCapacity
  /\ PageSizes \subseteq Nat
  /\ MaxSpans \in Nat
  /\ Modulus \in Nat
  /\ Modulus > 2 * MaxSize + MaxCapacity

VARIABLES
  dataSize,    \* GetDataSize(); 0 when !IsDataSet()
  mutable,     \* m_fMutable
  caretPos,    \* m_ullCaretPos
  caretHigh,   \* m_fCaretHigh
  cursorPrev,  \* m_ullCursorPrev: the anchor of a selection
  cursorNow,   \* m_ullCursorNow
  textArea,    \* m_fCursorTextArea
  lmbDown,     \* m_fLMousePressed
  selBlock,    \* m_fSelectionBlock
  sel,         \* m_pSelection->m_vecSelection
  markStart,   \* m_ullMarkSelStart
  markEnd,     \* m_ullMarkSelEnd
  capacity,    \* m_dwCapacity
  groupSize,   \* m_dwGroupSize
  pageSize     \* m_dwPageSize

dataVars   == <<dataSize, mutable>>
caretVars  == <<caretPos, caretHigh, textArea>>
cursorVars == <<cursorPrev, cursorNow>>
mouseVars  == <<lmbDown, selBlock>>
markVars   == <<markStart, markEnd>>
layoutVars == <<capacity, groupSize, pageSize>>
vars == <<dataVars, caretVars, cursorVars, mouseVars, sel, markVars, layoutVars>>

NoOffset == Modulus - 1   \* 0xFFFFFFFFFFFFFFFF

IsDataSet == dataSize > 0

\* ULONGLONG subtraction.
Minus(a, b) == IF a >= b THEN a - b ELSE a - b + Modulus

Least(a, b) == IF a <= b THEN a ELSE b

Span(offset, size) == [ullOffset |-> offset, ullSize |-> size]
One(offset, size)  == <<Span(offset, size)>>

-----------------------------------------------------------------------------
(* CHexSelection                                                           *)

HasSelection == sel # <<>>
GetSelStart == sel[1].ullOffset
GetSelSize  == Len(sel) * sel[1].ullSize
GetSelEnd   == IF HasSelection
               THEN sel[Len(sel)].ullOffset + sel[Len(sel)].ullSize - 1
               ELSE NoOffset

SetSelection(spans) == sel' = IF IsDataSet THEN spans ELSE sel

ClearAll == /\ sel' = <<>>
            /\ markStart' = NoOffset
            /\ markEnd' = NoOffset

-----------------------------------------------------------------------------
(* The client's calls: data, layout, caret and selection                   *)

\* Mutant: the anchor of the old data's selection survives.
AnchorKept ==
  /\ caretPos' = 0
  /\ cursorNow' = 0
  /\ ClearAll
  /\ UNCHANGED cursorPrev

ClearedState ==
  /\ caretPos' = 0
  /\ cursorPrev' = 0
  /\ cursorNow' = 0
  /\ ClearAll

ClearData ==
  /\ ClearedState
  /\ dataSize' = 0
  /\ mutable' = FALSE
  /\ UNCHANGED <<caretHigh, textArea, mouseVars, layoutVars>>

\* fAdjust = false: the old data is cleared first.
SetData(size, fMutable) ==
  /\ size > 0
  /\ ClearedState
  /\ dataSize' = size
  /\ mutable' = fMutable
  /\ UNCHANGED <<caretHigh, textArea, mouseVars, layoutVars>>

\* fAdjust = true: accepted for data of the same size only, keeps the rest.
AdjustData(size, fMutable) ==
  /\ IsDataSet
  /\ size = dataSize
  /\ mutable' = fMutable
  /\ UNCHANGED <<dataSize, caretVars, cursorVars, mouseVars, sel, markVars, layoutVars>>

SetMutable(fMutable) ==
  /\ IsDataSet
  /\ mutable' = fMutable
  /\ UNCHANGED <<dataSize, caretVars, cursorVars, mouseVars, sel, markVars, layoutVars>>

\* Mutant: a capacity rounded up past the limit is not rounded back.
NoUpperLimit(cap, group, current) ==
  LET mod == cap % group
      rounded == IF cap < current THEN cap - mod
                 ELSE cap + (IF mod > 0 THEN group - mod ELSE 0)
  IN  IF cap < 1 \/ cap > MaxCapacity THEN current
      ELSE IF rounded < group THEN group ELSE rounded

\* The capacity SetCapacity(cap) gives for a group size: cap rounded to a
\* whole number of groups, downwards when shrinking and upwards otherwise.
FitCapacity(cap, group, current) ==
  LET mod == cap % group
      rounded == IF cap < current THEN cap - mod
                 ELSE cap + (IF mod > 0 THEN group - mod ELSE 0)
  IN  IF cap < 1 \/ cap > MaxCapacity THEN current
      ELSE IF rounded < group THEN group
      ELSE IF rounded > MaxCapacity THEN rounded - group
      ELSE rounded

SetCapacity(cap) ==
  /\ capacity' = FitCapacity(cap, groupSize, capacity)
  /\ UNCHANGED <<dataVars, caretVars, cursorVars, mouseVars, sel, markVars, groupSize, pageSize>>

SetGroupSize(group) ==
  /\ group \in 1..MaxGroup
  /\ group # groupSize
  /\ groupSize' = group
  /\ capacity' = FitCapacity(capacity, group, capacity)
  /\ UNCHANGED <<dataVars, caretVars, cursorVars, mouseVars, sel, markVars, pageSize>>

SetPageSize(size) ==
  /\ pageSize' = size
  /\ UNCHANGED <<dataVars, caretVars, cursorVars, mouseVars, sel, markVars, capacity, groupSize>>

\* The caret part of SetCaretPos, the last act of every caret command.
PlaceCaret(offset, high) ==
  IF IsDataSet /\ offset < dataSize
  THEN caretPos' = offset /\ caretHigh' = high
  ELSE UNCHANGED <<caretPos, caretHigh>>

caretElse == <<dataVars, textArea, cursorVars, mouseVars, sel, markVars, layoutVars>>

SetCaretPos(offset, high) ==
  /\ PlaceCaret(offset, high)
  /\ UNCHANGED caretElse

\* A client, the search, a bookmark or a template selects spans of the data.
ClientSelection(spans) ==
  /\ IsDataSet
  /\ SetSelection(spans)
  /\ UNCHANGED <<dataVars, caretVars, cursorVars, mouseVars, markVars, layoutVars>>

-----------------------------------------------------------------------------
(* Caret commands.  ExecuteCmd runs them only when IsCmdAvail: data is set *)

CaretMoveDown ==
  LET new == IF caretPos + capacity >= dataSize THEN caretPos ELSE caretPos + capacity
  IN  /\ IsDataSet
      /\ PlaceCaret(new, caretHigh)
      /\ UNCHANGED caretElse

CaretMoveUp ==
  LET new == IF caretPos >= capacity THEN caretPos - capacity ELSE caretPos
  IN  /\ IsDataSet
      /\ PlaceCaret(new, caretHigh)
      /\ UNCHANGED caretElse

WholeBytes == textArea \/ ~mutable   \* the caret moves by bytes, not by halves

CaretMoveLeft ==
  /\ IsDataSet
  /\ IF WholeBytes
     THEN caretPos > 0 /\ PlaceCaret(caretPos - 1, caretHigh)
     ELSE IF caretHigh
          THEN caretPos > 0 /\ PlaceCaret(caretPos - 1, FALSE)
          ELSE PlaceCaret(caretPos, TRUE)
  /\ UNCHANGED caretElse

\* Also the last act of OnChar and OnKeyDown, after the typed byte is stored.
CaretMoveRight ==
  LET clamp(pos) == Least(pos, dataSize - 1)
  IN  /\ IsDataSet
      /\ IF WholeBytes
         THEN PlaceCaret(clamp(caretPos + 1), caretHigh)
         ELSE IF caretHigh
              THEN PlaceCaret(clamp(caretPos), FALSE)
              ELSE PlaceCaret(clamp(caretPos + 1), caretPos # dataSize - 1)
      /\ UNCHANGED caretElse

\* SetCaretPos(pos) has fHighLow = true as its default.
CaretTo(pos) == /\ IsDataSet
                /\ PlaceCaret(pos, TRUE)
                /\ UNCHANGED caretElse

CaretToDataBeg == CaretTo(0)
CaretToDataEnd == CaretTo(dataSize - 1)
CaretToLineBeg == CaretTo(caretPos - (caretPos % capacity))
CaretToLineEnd ==
  CaretTo(Least(caretPos + (capacity - (caretPos % capacity)) - 1, dataSize - 1))
CaretToPageBeg ==
  pageSize > 0 /\ CaretTo(caretPos - (caretPos % pageSize))
CaretToPageEnd ==
  /\ pageSize > 0
  /\ CaretTo(Least(caretPos + (pageSize - (caretPos % pageSize)) - 1, dataSize - 1))

-----------------------------------------------------------------------------
(* Selection commands.  Shift+arrows are always available, data set or not *)

SelStart == IF HasSelection THEN GetSelStart ELSE caretPos   \* ullSelStart
SelSize  == IF HasSelection THEN GetSelSize ELSE 1           \* ullSelSize

\* What a command resolves to: its anchor (ullClick) and span; size 0: nothing.
Extent(click, start, size) == [click |-> click, start |-> start, size |-> size]
NoExtent == Extent(0, 0, 0)

\* The selection goes on from the anchor only if the caret is at one of its
\* ends; after any other caret move it starts anew at the caret.
FromAnchor(extent) ==
  IF caretPos \in {cursorPrev, SelStart, GetSelEnd}
  THEN extent
  ELSE Extent(caretPos, caretPos, 1)

\* Mutant: no clamp.
Unclamped(x) == x

ClampToData(x) ==
  IF x.start + x.size > dataSize
  THEN Extent(x.click, x.start, Minus(dataSize, x.start))
  ELSE x

DownExtent == ClampToData(FromAnchor(
  IF SelStart = cursorPrev THEN Extent(cursorPrev, cursorPrev, SelSize + capacity)
  ELSE IF SelStart < cursorPrev
  THEN IF SelSize > capacity
       THEN Extent(cursorPrev, SelStart + capacity, SelSize - capacity)
       ELSE Extent(cursorPrev, cursorPrev, 1)
  ELSE NoExtent))

RightExtent == ClampToData(FromAnchor(
  IF SelStart = cursorPrev THEN Extent(cursorPrev, cursorPrev, SelSize + 1)
  ELSE Extent(cursorPrev, SelStart + 1, SelSize - 1)))

LeftExtent == FromAnchor(
  IF SelStart = cursorPrev /\ SelSize > 1
  THEN Extent(cursorPrev, cursorPrev, SelSize - 1)
  ELSE IF SelStart > 0
  THEN Extent(cursorPrev, SelStart - 1, SelSize + 1)
  ELSE Extent(cursorPrev, 0, SelSize))

\* Mutant: a selection of exactly one row shrinks to nothing.
UpOneRowEarly == FromAnchor(
  IF SelStart < cursorPrev
  THEN IF SelStart < capacity
       THEN Extent(cursorPrev, 0, SelSize + SelStart)
       ELSE Extent(cursorPrev, SelStart - capacity, SelSize + capacity)
  ELSE IF SelSize >= capacity THEN Extent(cursorPrev, cursorPrev, SelSize - capacity)
  ELSE IF SelSize > 1 THEN Extent(cursorPrev, cursorPrev, 1)
  ELSE IF cursorPrev >= capacity
  THEN Extent(cursorPrev, cursorPrev - capacity, SelSize + capacity)
  ELSE Extent(cursorPrev, 0, SelSize + SelStart))

UpExtent == FromAnchor(
  IF SelStart < cursorPrev
  THEN IF SelStart < capacity
       THEN Extent(cursorPrev, 0, SelSize + SelStart)
       ELSE Extent(cursorPrev, SelStart - capacity, SelSize + capacity)
  ELSE IF SelSize > capacity THEN Extent(cursorPrev, cursorPrev, SelSize - capacity)
  ELSE IF SelSize > 1 THEN Extent(cursorPrev, cursorPrev, 1)
  ELSE IF cursorPrev >= capacity
  THEN Extent(cursorPrev, cursorPrev - capacity, SelSize + capacity)
  ELSE Extent(cursorPrev, 0, SelSize + SelStart))

SelAdd(x) ==
  /\ x.size > 0
  /\ caretPos' = x.start
  /\ cursorPrev' = x.click
  /\ SetSelection(One(x.start, x.size))
  /\ UNCHANGED <<dataVars, caretHigh, textArea, cursorNow, mouseVars, markVars, layoutVars>>

SelAddDown  == SelAdd(DownExtent)
SelAddLeft  == SelAdd(LeftExtent)
SelAddRight == SelAdd(RightExtent)
SelAddUp    == SelAdd(UpExtent)

selElse == <<dataVars, caretVars, cursorVars, mouseVars, layoutVars>>

SelAll ==
  /\ IsDataSet
  /\ SetSelection(One(0, dataSize))
  /\ UNCHANGED <<selElse, markVars>>

\* SetSelStartEnd selects from the start mark to the end mark, once both are
\* set in this order; it bypasses CHexCtrl::SetSelection.
SelectMarked(start, end) ==
  sel' = IF start = NoOffset \/ end = NoOffset \/ start > end
         THEN sel
         ELSE One(start, end - start + 1)

SelMarkStart ==
  /\ IsDataSet
  /\ markStart' = caretPos
  /\ SelectMarked(caretPos, markEnd)
  /\ UNCHANGED <<selElse, markEnd>>

SelMarkEnd ==
  /\ IsDataSet
  /\ markEnd' = caretPos
  /\ SelectMarked(markStart, caretPos)
  /\ UNCHANGED <<selElse, markStart>>

-----------------------------------------------------------------------------
(* Mouse handlers.  HitTest finds a byte below the data's end, in the text *)
(* area or over the high or low half of its hex digits                     *)

HitTest(hit) == hit.offset < dataSize

PutCursor(hit) ==
  /\ textArea' = hit.text
  /\ caretHigh' = IF hit.text THEN caretHigh ELSE hit.high

OnLButtonDown(hit, shift, alt) ==
  LET from == Least(hit.offset, cursorPrev)
      to   == IF hit.offset <= cursorPrev THEN cursorPrev + 1 ELSE hit.offset + 1
  IN  /\ HitTest(hit)
      /\ PutCursor(hit)
      /\ lmbDown' = TRUE
      /\ selBlock' = alt
      /\ caretPos' = hit.offset
      /\ cursorNow' = hit.offset
      /\ cursorPrev' = IF shift THEN cursorPrev ELSE hit.offset
      /\ sel' = IF shift THEN One(from, to - from) ELSE <<>>
      /\ UNCHANGED <<dataVars, markVars, layoutVars>>

OnLButtonUp ==
  /\ lmbDown' = FALSE
  /\ UNCHANGED <<dataVars, caretVars, cursorVars, selBlock, sel, markVars, layoutVars>>

\* A double click selects the byte, with Shift the whole row it is in.
OnLButtonDblClk(hit, shift, alt) ==
  LET row == hit.offset - (hit.offset % capacity)
  IN  /\ HitTest(hit)
      /\ PutCursor(hit)
      /\ lmbDown' = TRUE
      /\ caretPos' = hit.offset
      /\ IF shift
         THEN /\ cursorPrev' = row
              /\ cursorNow' = row
              /\ SetSelection(One(row, capacity))
              /\ UNCHANGED selBlock
         ELSE /\ cursorPrev' = hit.offset
              /\ cursorNow' = hit.offset
              /\ SetSelection(One(hit.offset, 1))
              /\ selBlock' = alt
      /\ UNCHANGED <<dataVars, markVars, layoutVars>>

\* Alt+drag: equal row pieces from the anchor's row to the cursor's, between
\* the anchor's column and the cursor's.  ullStart and ullSize of OnMouseMove.
BlockStart(click, offset) ==
  LET colOffset == offset % capacity
      colClick  == click % capacity
  IN  IF offset >= click
      THEN IF colOffset <= colClick THEN click - (colClick - colOffset) ELSE click
      ELSE IF colOffset <= colClick THEN offset ELSE offset - (colOffset - colClick)

\* Mutant: the last column is left out of a block wider than one.
ColumnShort(click, offset) ==
  LET colOffset == offset % capacity
      colClick  == click % capacity
  IN  IF colOffset <= colClick THEN colClick - colOffset + 1 ELSE colOffset - colClick

BlockWidth(click, offset) ==
  LET colOffset == offset % capacity
      colClick  == click % capacity
  IN  IF colOffset <= colClick THEN colClick - colOffset + 1 ELSE colOffset - colClick + 1

BlockRows(click, offset) ==
  LET last == IF offset >= click THEN offset ELSE click
  IN  (last - BlockStart(click, offset)) \div capacity + 1

BlockSpans(click, offset) ==
  [row \in 1..BlockRows(click, offset) |->
     Span(BlockStart(click, offset) + capacity * (row - 1), BlockWidth(click, offset))]

\* A drag acts once the cursor leaves the half of the byte it was over.
OnMouseMove(hit) ==
  LET start == IF selBlock THEN BlockStart(cursorPrev, hit.offset)
                           ELSE Least(hit.offset, cursorPrev)
      last  == IF hit.offset <= cursorPrev THEN cursorPrev ELSE hit.offset
  IN  /\ lmbDown
      /\ HitTest(hit)
      /\ ~(hit.offset = cursorNow /\ caretHigh = hit.high /\ ~hit.text)
      /\ cursorNow' = hit.offset
      /\ caretPos' = start
      /\ SetSelection(IF selBlock THEN BlockSpans(cursorPrev, hit.offset)
                                  ELSE One(start, last - start + 1))
      /\ UNCHANGED <<dataVars, caretHigh, textArea, cursorPrev, mouseVars, markVars, layoutVars>>

-----------------------------------------------------------------------------
(* The specification                                                       *)

Hits == [offset : 0..MaxSize - 1, text : {TRUE}, high : {FALSE}]
          \cup [offset : 0..MaxSize - 1, text : {FALSE}, high : BOOLEAN]

\* Every span lies inside the data.
Fits(spans) == \A i \in 1..Len(spans) : spans[i].ullOffset + spans[i].ullSize <= dataSize

\* A client's spans come in any order, of any sizes, apart or not: the list of
\* the search passes one for each row selected in it, the clicked row's last.
ClientSels ==
  LET Spans == [ullOffset : 0..dataSize - 1, ullSize : 1..dataSize]
  IN  {spans \in UNION {[1..n -> Spans] : n \in 0..MaxSpans} : Fits(spans)}

\* Spans of one size, each after the one before it: what Shift+arrows take for
\* one run of GetSelSize bytes has no more bytes than there are up to the end.
Orderly(spans) ==
  \A i, j \in 1..Len(spans) :
    /\ spans[i].ullSize = spans[1].ullSize
    /\ i < j => spans[i].ullOffset + spans[i].ullSize <= spans[j].ullOffset

Init ==
  /\ dataSize = 0
  /\ mutable = FALSE
  /\ caretPos = 0
  /\ caretHigh = TRUE
  /\ cursorPrev = 0
  /\ cursorNow = 0
  /\ textArea = FALSE
  /\ lmbDown = FALSE
  /\ selBlock = FALSE
  /\ sel = <<>>
  /\ markStart = NoOffset
  /\ markEnd = NoOffset
  /\ groupSize \in 1..MaxGroup
  /\ \E cap \in 1..MaxCapacity : capacity = FitCapacity(cap, groupSize, cap)
  /\ pageSize = 0

DataNext ==
  \/ ClearData
  \/ \E size \in 1..MaxSize, m \in BOOLEAN : SetData(size, m) \/ AdjustData(size, m)
  \/ \E m \in BOOLEAN : SetMutable(m)

LayoutNext ==
  \/ \E cap \in 0..MaxCapacity + 1 : SetCapacity(cap)
  \/ \E group \in 1..MaxGroup : SetGroupSize(group)
  \/ \E size \in PageSizes : SetPageSize(size)

ClientNext ==
  \/ \E offset \in 0..MaxSize, high \in BOOLEAN : SetCaretPos(offset, high)
  \/ \E spans \in ClientSels : ClientSelection(spans)

CaretNext ==
  \/ CaretMoveDown \/ CaretMoveUp \/ CaretMoveLeft \/ CaretMoveRight
  \/ CaretToDataBeg \/ CaretToDataEnd \/ CaretToLineBeg \/ CaretToLineEnd
  \/ CaretToPageBeg \/ CaretToPageEnd

SelectNext ==
  \/ SelAddDown \/ SelAddLeft \/ SelAddRight \/ SelAddUp
  \/ SelAll \/ SelMarkStart \/ SelMarkEnd

MouseNext ==
  \/ \E hit \in Hits, shift \in BOOLEAN, alt \in BOOLEAN :
       OnLButtonDown(hit, shift, alt) \/ OnLButtonDblClk(hit, shift, alt)
  \/ \E hit \in Hits : OnMouseMove(hit)
  \/ OnLButtonUp

Next == DataNext \/ LayoutNext \/ ClientNext \/ CaretNext \/ SelectNext \/ MouseNext

Spec == Init /\ [][Next]_vars

\* Three gestures can select bytes past the data's end, which FittingNext is
\* without: a block drag over, and a Shift+double click on, a row the data only
\* begins; and a Shift+arrow over a client's spans that are not orderly.
FittingMouseNext ==
  \/ \E hit \in Hits, shift \in BOOLEAN, alt \in BOOLEAN :
       \/ OnLButtonDown(hit, shift, alt)
       \/ /\ shift => Fits(One(hit.offset - (hit.offset % capacity), capacity))
          /\ OnLButtonDblClk(hit, shift, alt)
  \/ \E hit \in Hits :
       /\ selBlock => Fits(BlockSpans(cursorPrev, hit.offset))
       /\ OnMouseMove(hit)
  \/ OnLButtonUp

FittingSelectNext ==
  \/ Orderly(sel) /\ (SelAddDown \/ SelAddLeft \/ SelAddRight \/ SelAddUp)
  \/ SelAll \/ SelMarkStart \/ SelMarkEnd

FittingNext ==
  DataNext \/ LayoutNext \/ ClientNext \/ CaretNext \/ FittingSelectNext \/ FittingMouseNext

FittingSpec == Init /\ [][FittingNext]_vars

-----------------------------------------------------------------------------
(* Properties                                                              *)

\* The state's types; a selection never holds an empty span, which GetData
\* asserts (CHexCtrl::GetData, ullSize > 0).
TypeOK ==
  /\ dataSize \in 0..MaxSize
  /\ mutable \in BOOLEAN
  /\ caretPos \in Nat
  /\ caretHigh \in BOOLEAN
  /\ cursorPrev \in Nat
  /\ cursorNow \in Nat
  /\ textArea \in BOOLEAN
  /\ lmbDown \in BOOLEAN
  /\ selBlock \in BOOLEAN
  /\ sel \in Seq([ullOffset : Nat, ullSize : Nat \ {0}])
  /\ markStart \in Nat
  /\ markEnd \in Nat
  /\ capacity \in Nat \ {0}
  /\ groupSize \in 1..MaxGroup
  /\ pageSize \in Nat

\* The caret, the mouse's two positions and the marks stay inside the data
\* whatever replaces the data or its layout between two uses of them: the
\* handlers index the data with them unchecked (OnKeyDown, OnLButtonDown).
CursorsInData ==
  /\ \A pos \in {caretPos, cursorPrev, cursorNow} :
       IF IsDataSet THEN pos < dataSize ELSE pos = 0
  /\ \A mark \in {markStart, markEnd} : mark = NoOffset \/ mark < dataSize

\* Types hold, and so do they: no row is empty, and nothing indexes data that
\* is not there.
PlacesInData == TypeOK /\ CursorsInData

\* Every selected byte exists: what GetSelection hands to a modification, a
\* copy or a bookmark lies inside the data.
SelectionInData == Fits(sel)

\* A row holds whole groups and never more than the largest capacity, in
\* whatever order capacity and group size change (SetCapacity, SetGroupSize).
RowsOfWholeGroups ==
  capacity % groupSize = 0 /\ capacity \in groupSize..MaxCapacity

\* Shift+arrow, seen as a reader of the screen sees it: the selection runs
\* from the anchor to a focus, and an arrow moves the focus alone; a row
\* move towards the anchor stops on it, one away from it at the data's edge.
Anchored ==
  /\ IsDataSet
  /\ Len(sel) <= 1
  /\ cursorPrev \in {SelStart, SelStart + SelSize - 1}
  /\ caretPos \in {SelStart, SelStart + SelSize - 1}

Focus == IF SelStart = cursorPrev THEN SelStart + SelSize - 1 ELSE SelStart

Between(focus) ==
  IF focus >= cursorPrev THEN Extent(cursorPrev, cursorPrev, focus - cursorPrev + 1)
                         ELSE Extent(cursorPrev, focus, cursorPrev - focus + 1)

FocusDown ==
  IF Focus >= cursorPrev THEN Least(Focus + capacity, dataSize - 1)
  ELSE Least(Focus + capacity, cursorPrev)

FocusUp ==
  IF Focus > cursorPrev
  THEN IF Focus - capacity >= cursorPrev THEN Focus - capacity ELSE cursorPrev
  ELSE IF Focus >= capacity THEN Focus - capacity ELSE 0

FocusLeft == IF Focus > 0 THEN Focus - 1 ELSE 0
FocusRight == Least(Focus + 1, dataSize - 1)

ArrowsMoveFocus ==
  (Anchored /\ SelectionInData) =>
    /\ DownExtent = Between(FocusDown)
    /\ UpExtent = Between(FocusUp)
    /\ LeftExtent = Between(FocusLeft)
    /\ RightExtent = Between(FocusRight)

\* A block drag selects the rectangle with the anchor and the cursor at two
\* opposite corners: each row between theirs, each column between theirs.
Covered(spans) ==
  UNION {spans[i].ullOffset..(spans[i].ullOffset + spans[i].ullSize - 1) : i \in 1..Len(spans)}

IsBetween(x, a, b) == (a <= x /\ x <= b) \/ (b <= x /\ x <= a)

Rectangle(a, b) ==
  {o \in 0..MaxSize + capacity :
     /\ IsBetween(o \div capacity, a \div capacity, b \div capacity)
     /\ IsBetween(o % capacity, a % capacity, b % capacity)}

BlockIsRectangle ==
  [][ (lmbDown /\ selBlock /\ cursorNow' # cursorNow /\ cursorPrev' = cursorPrev
         /\ lmbDown' /\ selBlock' /\ sel' # sel /\ Len(sel') > 1)
        => Covered(sel') = Rectangle(cursorPrev, cursorNow') ]_vars

=============================================================================
