---------------------------- MODULE HexNav_proofs ----------------------------
(***************************************************************************)
(* The caret, the cursor and the selection stay inside the data, and Go To *)
(* lands where it is asked to; what is typed stands where it was typed,    *)
(* and the data interpreter shows the bytes at the caret; keys and menu    *)
(* items run the commands they are configured to: proofs for every data    *)
(* size, row length, group size and page size, and every data and          *)
(* configuration.                                                          *)
(***************************************************************************)
EXTENDS HexGoTo, HexEdit, HexCommand, HexArith, SequenceTheorems, FiniteSetTheorems

\* The inductive invariant.
NavInv == TypeOK /\ CursorsInData /\ SelectionInData

-----------------------------------------------------------------------------
(* Rows and blocks                                                         *)

\* SetCapacity and SetGroupSize never leave a row empty.
LEMMA FitCapacityType ==
  ASSUME NEW cap \in Nat, NEW group \in 1..MaxGroup, NEW current \in Nat \ {0}
  PROVE  FitCapacity(cap, group, current) \in Nat \ {0}
<1>1. cap % group \in 0..group - 1
  BY ModFacts, NavAssumption
<1> QED
  BY <1>1, NavAssumption DEF FitCapacity

\* A non-empty sequence has a first element.
LEMMA FirstElement ==
  ASSUME NEW S, NEW s \in Seq(S), s # <<>>
  PROVE  Len(s) \in Nat \ {0} /\ s[1] \in S
<1>1. Len(s) \in Nat \ {0}
  BY EmptySeq
<1>2. 1 \in 1..Len(s)
  BY <1>1
<1> QED BY <1>1, <1>2, ElementOfSeq

-----------------------------------------------------------------------------
(* Block selection                                                         *)

\* A block starts at or above and left of both corners, no row of it is wider
\* than the data's row, and its last row starts no later than its last corner.
LEMMA BlockFacts ==
  ASSUME capacity \in Nat \ {0}, NEW click \in Nat, NEW offset \in Nat
  PROVE  /\ BlockStart(click, offset) \in Nat
         /\ BlockStart(click, offset) <= offset
         /\ BlockWidth(click, offset) \in 1..capacity
         /\ BlockRows(click, offset) \in Nat \ {0}
<1> DEFINE colOffset == offset % capacity
           colClick == click % capacity
<1>1. /\ colOffset \in 0..capacity - 1 /\ colOffset <= offset
      /\ colClick \in 0..capacity - 1 /\ colClick <= click
  BY ModFacts
<1>2. /\ BlockStart(click, offset) \in Nat
      /\ BlockStart(click, offset) <= offset
      /\ BlockStart(click, offset) <= click
  <2>1. CASE offset >= click
    BY <1>1, <2>1 DEF BlockStart
  <2>2. CASE offset < click
    BY <1>1, <2>2 DEF BlockStart
  <2> QED BY <2>1, <2>2
<1>3. BlockWidth(click, offset) \in 1..capacity
  BY <1>1 DEF BlockWidth
<1>4. BlockRows(click, offset) \in Nat \ {0}
  <2> DEFINE last == IF offset >= click THEN offset ELSE click
  <2>1. last - BlockStart(click, offset) \in Nat
    BY <1>2
  <2>2. (last - BlockStart(click, offset)) \div capacity \in Nat
    BY <2>1, ModFacts
  <2> QED BY <2>2 DEF BlockRows
<1> QED BY <1>2, <1>3, <1>4

\* The spans of a block are well formed, and orderly: Shift+arrows over what
\* the control's own gestures select are not among those FittingNext leaves out.
LEMMA BlockShape ==
  ASSUME capacity \in Nat \ {0}, NEW click \in Nat, NEW offset \in Nat
  PROVE  /\ BlockSpans(click, offset) \in Seq([ullOffset : Nat, ullSize : Nat \ {0}])
         /\ Orderly(BlockSpans(click, offset))
<1> DEFINE start == BlockStart(click, offset)
           width == BlockWidth(click, offset)
           rows == BlockRows(click, offset)
           spans == BlockSpans(click, offset)
<1>1. start \in Nat /\ width \in 1..capacity /\ rows \in Nat \ {0}
  BY BlockFacts
<1> HIDE DEF start, width, rows
<1>2. spans = [row \in 1..rows |-> Span(start + capacity * (row - 1), width)]
  BY DEF BlockSpans, start, width, rows
<1>3. \A row \in 1..rows : start + capacity * (row - 1) \in Nat
  BY <1>1
<1> HIDE DEF spans
<1>4. spans \in [1..rows -> [ullOffset : Nat, ullSize : Nat \ {0}]]
  <2>1. ASSUME NEW row \in 1..rows
        PROVE  Span(start + capacity * (row - 1), width) \in [ullOffset : Nat, ullSize : Nat \ {0}]
    BY <1>1, <1>3 DEF Span
  <2> QED BY <1>2, <2>1
<1>5. spans \in Seq([ullOffset : Nat, ullSize : Nat \ {0}]) /\ Len(spans) = rows
  <2> DEFINE S == [ullOffset : Nat, ullSize : Nat \ {0}]
  <2>1. spans \in Seq(S)
    <3> HIDE DEF S
    <3>1. spans \in [1..rows -> S]
      BY <1>4 DEF S
    <3> QED BY <1>1, <3>1, SeqDef
  <2>2. DOMAIN spans = 1..rows /\ DOMAIN spans = 1..Len(spans) /\ Len(spans) \in Nat
    BY <1>4, <2>1, LenProperties
  <2> QED BY <1>1, <2>1, <2>2
<1>6. ASSUME NEW i \in 1..rows
      PROVE  spans[i].ullOffset = start + capacity * (i - 1) /\ spans[i].ullSize = width
  <2>1. spans[i] = Span(start + capacity * (i - 1), width)
    BY <1>2
  <2> QED BY <2>1 DEF Span
<1>7. ASSUME NEW i \in 1..rows, NEW j \in 1..rows, i < j
      PROVE  spans[i].ullOffset + spans[i].ullSize <= spans[j].ullOffset
  <2>1. capacity * 1 <= capacity * (j - i)
    BY <1>1, <1>7, MulMono
  <2>2. capacity * (j - 1) = capacity * (i - 1) + capacity * (j - i)
    BY <1>1
  <2> QED BY <1>1, <1>6, <2>1, <2>2
<1>8. 1 \in 1..rows
  BY <1>1
<1>9. Orderly(spans)
  BY <1>5, <1>6, <1>7, <1>8 DEF Orderly
<1> QED BY <1>5, <1>9 DEF spans

\* Orderly spans of the data, read as one run of GetSelSize bytes the way the
\* Shift+arrow commands read them, end inside the data: the i-th span is at
\* least i - 1 sizes behind the first.
LEMMA OrderlyRun ==
  ASSUME dataSize \in Nat, NEW spans \in Seq([ullOffset : Nat, ullSize : Nat \ {0}]),
         spans # <<>>, Fits(spans), Orderly(spans)
  PROVE  spans[1].ullOffset + Len(spans) * spans[1].ullSize <= dataSize
<1> DEFINE n == Len(spans)
           size == spans[1].ullSize
           From(i) == spans[i].ullOffset
<1>1. n \in Nat \ {0}
  BY FirstElement
<1>2. \A i \in 1..n : From(i) \in Nat /\ spans[i].ullSize = size
  <2>1. ASSUME NEW i \in 1..n PROVE spans[i] \in [ullOffset : Nat, ullSize : Nat \ {0}]
    BY ElementOfSeq
  <2> QED BY <2>1 DEF Orderly
<1>3. size \in Nat /\ 1 \in 1..n /\ n \in 1..n
  <2>1. spans[1] \in [ullOffset : Nat, ullSize : Nat \ {0}]
    BY FirstElement
  <2> QED BY <1>1, <2>1
<1>4. \A i, j \in 1..n : i < j => From(i) + size <= From(j)
  BY <1>2 DEF Orderly
<1>5. From(n) + size <= dataSize
  BY <1>2, <1>3 DEF Fits
<1> HIDE DEF n, size, From
<1> DEFINE Bad == {i \in 1..n : ~(From(1) + (i - 1) * size <= From(i))}
<1>6. Bad = {}
  <2> SUFFICES ASSUME Bad # {} PROVE FALSE
    OBVIOUS
  <2>1. PICK i \in Bad : \A j \in Bad : i <= j
    <3>1. Bad \in SUBSET Nat
      OBVIOUS
    <3> HIDE DEF Bad
    <3> QED BY <3>1, LeastOf
  <2>2. i \in 1..n /\ i # 1
    <3>1. (1 - 1) * size = 0
      BY <1>3
    <3> QED BY <1>2, <1>3, <2>1, <3>1
  <2>3. i - 1 \in 1..n /\ i - 1 < i /\ ~(i <= i - 1)
    BY <1>1, <2>2
  <2>4. From(1) + ((i - 1) - 1) * size <= From(i - 1)
    BY <2>1, <2>3
  <2>5. From(i - 1) + size <= From(i)
    BY <1>4, <2>2, <2>3
  <2>6. ((i - 1) - 1) * size + size = (i - 1) * size
    BY <1>3, <2>2
  <2>7. ((i - 1) - 1) * size \in Int /\ (i - 1) * size \in Int
    BY <1>3, <2>2
  <2>8. From(1) + (i - 1) * size <= From(i)
    <3> DEFINE a == ((i - 1) - 1) * size
               b == (i - 1) * size
    <3>1. a \in Int /\ b \in Int /\ a + size = b /\ From(1) + a <= From(i - 1)
      BY <2>4, <2>6, <2>7
    <3> HIDE DEF a, b
    <3>2. From(1) \in Nat /\ From(i) \in Nat /\ From(i - 1) \in Nat
      BY <1>2, <1>3, <2>2, <2>3
    <3>3. From(1) + b <= From(i)
      BY <1>3, <2>5, <3>1, <3>2
    <3> QED BY <3>3 DEF b
  <2> QED BY <2>1, <2>8
<1>7. From(1) + (n - 1) * size <= From(n)
  BY <1>3, <1>6
<1>8. From(1) + n * size <= dataSize
  <2>1. n * size = (n - 1) * size + size /\ (n - 1) * size \in Int
    BY <1>1, <1>3
  <2> DEFINE a == (n - 1) * size
             b == n * size
  <2>2. a \in Int /\ b = a + size /\ From(1) + a <= From(n)
    BY <1>7, <2>1
  <2> HIDE DEF a, b
  <2>3. From(1) + b <= dataSize
    BY <1>2, <1>3, <1>5, <2>2
  <2> QED BY <2>3 DEF b
<1> QED BY <1>8 DEF n, size, From

-----------------------------------------------------------------------------
(* Shift+arrows                                                            *)

\* What a Shift+arrow command starts from lies inside the data, if the
\* selection is orderly.
LEMMA SelFacts ==
  ASSUME NavInv, IsDataSet, Orderly(sel)
  PROVE  /\ SelStart \in Nat
         /\ SelSize \in Nat \ {0}
         /\ SelStart < dataSize
         /\ SelStart + SelSize <= dataSize
         /\ caretPos < dataSize /\ cursorPrev < dataSize
<1>1. CASE HasSelection
  <2>1. Len(sel) \in Nat \ {0} /\ sel[1] \in [ullOffset : Nat, ullSize : Nat \ {0}]
    BY <1>1, FirstElement DEF NavInv, TypeOK, HasSelection
  <2>2. GetSelStart \in Nat /\ sel[1].ullSize \in Nat \ {0}
    BY <2>1 DEF GetSelStart
  <2>3. Len(sel) * sel[1].ullSize \in Nat \ {0}
    BY <2>1, <2>2
  <2>4. GetSelStart + GetSelSize <= dataSize
    BY <1>1, OrderlyRun
       DEF NavInv, TypeOK, SelectionInData, HasSelection, GetSelStart, GetSelSize
  <2> QED
    BY <1>1, <2>2, <2>3, <2>4
       DEF NavInv, TypeOK, CursorsInData, SelStart, SelSize, GetSelSize, IsDataSet
<1>2. CASE ~HasSelection
  BY <1>2 DEF NavInv, TypeOK, CursorsInData, SelStart, SelSize, IsDataSet
<1> QED BY <1>1, <1>2

\* Without data there is no selection, and caret and cursor are at rest.
LEMMA NoDataFacts ==
  ASSUME NavInv, ~IsDataSet
  PROVE  /\ dataSize = 0 /\ sel = <<>>
         /\ caretPos = 0 /\ cursorPrev = 0 /\ cursorNow = 0
         /\ SelStart = 0 /\ SelSize = 1
<1>1. dataSize = 0 /\ caretPos = 0 /\ cursorPrev = 0 /\ cursorNow = 0
  BY DEF NavInv, TypeOK, CursorsInData, IsDataSet
<1>2. sel = <<>>
  <2> SUFFICES ASSUME sel # <<>> PROVE FALSE
    OBVIOUS
  <2>1. Len(sel) \in Nat \ {0} /\ sel[1] \in [ullOffset : Nat, ullSize : Nat \ {0}]
    BY FirstElement DEF NavInv, TypeOK
  <2>2. sel[1].ullOffset + sel[1].ullSize <= dataSize
    BY <2>1 DEF NavInv, SelectionInData, Fits
  <2> QED BY <1>1, <2>1, <2>2
<1> QED BY <1>1, <1>2 DEF SelStart, SelSize, HasSelection

\* An extent a command may apply.
ExtentInData(x) ==
  /\ x \in [click : Nat, start : Nat, size : Nat]
  /\ x.size > 0 =>
       IF IsDataSet THEN /\ x.click < dataSize
                         /\ x.start < dataSize
                         /\ x.start + x.size <= dataSize
       ELSE x.click = 0 /\ x.start = 0

\* Every Shift+arrow command over an orderly selection resolves to a span of
\* the data.
LEMMA DownInData == ASSUME NavInv, Orderly(sel) PROVE ExtentInData(DownExtent)
<1>1. /\ dataSize \in Nat /\ capacity \in Nat \ {0}
      /\ caretPos \in Nat /\ cursorPrev \in Nat
  BY DEF NavInv, TypeOK
<1>2. CASE IsDataSet
  BY <1>1, <1>2, SelFacts
     DEF DownExtent, ClampToData, FromAnchor, Extent, NoExtent, Minus, ExtentInData
<1>3. CASE ~IsDataSet
  BY <1>1, <1>3, NoDataFacts
     DEF DownExtent, ClampToData, FromAnchor, Extent, NoExtent, Minus, ExtentInData
<1> QED BY <1>2, <1>3

\* See DownInData.
LEMMA RightInData == ASSUME NavInv, Orderly(sel) PROVE ExtentInData(RightExtent)
<1>1. /\ dataSize \in Nat /\ caretPos \in Nat /\ cursorPrev \in Nat
  BY DEF NavInv, TypeOK
<1>2. CASE IsDataSet
  BY <1>1, <1>2, SelFacts
     DEF RightExtent, ClampToData, FromAnchor, Extent, Minus, ExtentInData
<1>3. CASE ~IsDataSet
  BY <1>1, <1>3, NoDataFacts
     DEF RightExtent, ClampToData, FromAnchor, Extent, Minus, ExtentInData
<1> QED BY <1>2, <1>3

\* See DownInData.
LEMMA LeftInData == ASSUME NavInv, Orderly(sel) PROVE ExtentInData(LeftExtent)
<1>1. /\ dataSize \in Nat /\ caretPos \in Nat /\ cursorPrev \in Nat
  BY DEF NavInv, TypeOK
<1>2. CASE IsDataSet
  BY <1>1, <1>2, SelFacts DEF LeftExtent, FromAnchor, Extent, ExtentInData
<1>3. CASE ~IsDataSet
  BY <1>1, <1>3, NoDataFacts DEF LeftExtent, FromAnchor, Extent, ExtentInData
<1> QED BY <1>2, <1>3

\* See DownInData.
LEMMA UpInData == ASSUME NavInv, Orderly(sel) PROVE ExtentInData(UpExtent)
<1>1. /\ dataSize \in Nat /\ capacity \in Nat \ {0}
      /\ caretPos \in Nat /\ cursorPrev \in Nat
  BY DEF NavInv, TypeOK
<1>2. CASE IsDataSet
  BY <1>1, <1>2, SelFacts DEF UpExtent, FromAnchor, Extent, ExtentInData
<1>3. CASE ~IsDataSet
  BY <1>1, <1>3, NoDataFacts DEF UpExtent, FromAnchor, Extent, ExtentInData
<1> QED BY <1>2, <1>3

-----------------------------------------------------------------------------
(* Steps                                                                   *)

\* One span of the data is a selection the invariant allows.
LEMMA OneSpan ==
  ASSUME NEW o \in Nat, NEW s \in Nat \ {0}, dataSize \in Nat, o + s <= dataSize
  PROVE  /\ One(o, s) \in Seq([ullOffset : Nat, ullSize : Nat \ {0}])
         /\ Fits(One(o, s))
<1>1. /\ One(o, s) \in Seq([ullOffset : Nat, ullSize : Nat \ {0}])
      /\ Len(One(o, s)) = 1
      /\ One(o, s)[1].ullOffset = o /\ One(o, s)[1].ullSize = s
  BY DEF One, Span
<1>2. \A i \in 1..Len(One(o, s)) : i = 1
  BY <1>1
<1>3. Fits(One(o, s))
  BY <1>1, <1>2 DEF Fits
<1> QED BY <1>1, <1>3

\* The bytes from the start mark to the end mark.
LEMMA MarkedSpan ==
  ASSUME NEW a \in Nat, NEW b \in Nat, NEW n \in Nat, ~(a > b), b < n
  PROVE  b - a + 1 \in Nat \ {0} /\ a + (b - a + 1) <= n
OBVIOUS

\* A caret command: the caret lands on a byte of the data, nothing else moves.
LEMMA CaretStep ==
  ASSUME NavInv, UNCHANGED caretElse,
         NEW offset \in Nat, NEW high \in BOOLEAN, PlaceCaret(offset, high)
  PROVE  NavInv'
<1>1. /\ caretPos' \in Nat /\ caretHigh' \in BOOLEAN
      /\ IF IsDataSet THEN caretPos' < dataSize ELSE caretPos' = 0
  BY DEF PlaceCaret, NavInv, TypeOK, CursorsInData
<1>2. UNCHANGED <<dataSize, mutable, cursorPrev, cursorNow, textArea, lmbDown, selBlock,
                  sel, markStart, markEnd, capacity, groupSize, pageSize>>
  BY DEF caretElse, dataVars, cursorVars, mouseVars, markVars, layoutVars
<1>3. TypeOK'
  BY <1>1, <1>2 DEF NavInv, TypeOK
<1>4. CursorsInData'
  BY <1>1, <1>2 DEF NavInv, CursorsInData, IsDataSet, NoOffset
<1>5. SelectionInData'
  BY <1>2 DEF NavInv, SelectionInData, Fits
<1> QED BY <1>3, <1>4, <1>5 DEF NavInv

\* A selection command or a mouse gesture: data and layout stay, and so does
\* the invariant if the new positions and spans lie inside the data.
LEMMA SelectStep ==
  ASSUME NavInv, UNCHANGED <<dataVars, layoutVars>>,
         {caretPos', cursorPrev', cursorNow'} \subseteq Nat,
         {caretHigh', textArea', lmbDown', selBlock'} \subseteq BOOLEAN,
         \A pos \in {caretPos', cursorPrev', cursorNow'} :
           IF IsDataSet THEN pos < dataSize ELSE pos = 0,
         {markStart', markEnd'} \subseteq Nat,
         \A mark \in {markStart', markEnd'} : mark = NoOffset \/ mark < dataSize,
         \/ sel' \in {sel, <<>>}
         \/ /\ sel' \in Seq([ullOffset : Nat, ullSize : Nat \ {0}])
            /\ Fits(sel')
  PROVE  NavInv'
<1>1. UNCHANGED <<dataSize, mutable, capacity, groupSize, pageSize>>
  BY DEF dataVars, layoutVars
<1>2. TypeOK'
  <2>1. sel' \in Seq([ullOffset : Nat, ullSize : Nat \ {0}])
    BY EmptySeq DEF NavInv, TypeOK
  <2> QED BY <1>1, <2>1 DEF NavInv, TypeOK
<1>3. CursorsInData'
  BY <1>1 DEF CursorsInData, IsDataSet, NoOffset
<1>4. SelectionInData'
  <2>1. CASE sel' = sel
    BY <1>1, <2>1 DEF NavInv, SelectionInData, Fits
  <2>2. CASE sel' = <<>>
    <3>1. Len(sel') = 0
      BY <2>2
    <3> QED BY <2>2, <3>1 DEF SelectionInData, Fits
  <2>3. CASE /\ Fits(sel')
    BY <1>1, <2>3 DEF SelectionInData, Fits
  <2> QED BY <2>1, <2>2, <2>3
<1> QED BY <1>2, <1>3, <1>4 DEF NavInv

\* Only the layout changes.
LEMMA LayoutStep ==
  ASSUME NavInv,
         UNCHANGED <<dataVars, caretVars, cursorVars, mouseVars, sel, markVars>>,
         capacity' \in Nat \ {0}, groupSize' \in 1..MaxGroup, pageSize' \in Nat
  PROVE  NavInv'
<1>1. UNCHANGED <<dataSize, mutable, caretPos, caretHigh, textArea, cursorPrev, cursorNow,
                  lmbDown, selBlock, sel, markStart, markEnd>>
  BY DEF dataVars, caretVars, cursorVars, mouseVars, markVars
<1>2. TypeOK'
  BY <1>1 DEF NavInv, TypeOK
<1>3. CursorsInData'
  BY <1>1 DEF NavInv, CursorsInData, IsDataSet, NoOffset
<1>4. SelectionInData'
  BY <1>1 DEF NavInv, SelectionInData, Fits
<1> QED BY <1>2, <1>3, <1>4 DEF NavInv

\* New data, or none: everything that points into the old data is reset.
LEMMA DataStep ==
  ASSUME NavInv, ClearedState, dataSize' \in 0..MaxSize, mutable' \in BOOLEAN,
         UNCHANGED <<caretHigh, textArea, mouseVars, layoutVars>>
  PROVE  NavInv'
<1>1. UNCHANGED <<lmbDown, selBlock, capacity, groupSize, pageSize>>
  BY DEF mouseVars, layoutVars
<1>2. /\ caretPos' = 0 /\ cursorPrev' = 0 /\ cursorNow' = 0
      /\ sel' = <<>> /\ Len(sel') = 0 /\ markStart' = NoOffset /\ markEnd' = NoOffset
  BY DEF ClearedState, ClearAll
<1>3. NoOffset \in Nat
  BY NavAssumption DEF NoOffset
<1>4. TypeOK'
  BY <1>1, <1>2, <1>3, EmptySeq DEF NavInv, TypeOK
<1>5. CursorsInData'
  BY <1>2 DEF CursorsInData, IsDataSet, NoOffset
<1>6. SelectionInData'
  BY <1>2 DEF SelectionInData, Fits
<1> QED BY <1>4, <1>5, <1>6 DEF NavInv

-----------------------------------------------------------------------------
(* The theorem                                                             *)

LEMMA NavInit == Init => NavInv
<1> SUFFICES ASSUME Init PROVE NavInv
  OBVIOUS
<1>1. /\ dataSize = 0 /\ caretPos = 0 /\ cursorPrev = 0 /\ cursorNow = 0
      /\ mutable = FALSE /\ caretHigh = TRUE /\ textArea = FALSE
      /\ lmbDown = FALSE /\ selBlock = FALSE
      /\ sel = <<>> /\ Len(sel) = 0 /\ markStart = NoOffset /\ markEnd = NoOffset
      /\ groupSize \in 1..MaxGroup /\ pageSize = 0
  BY DEF Init
<1>2. capacity \in Nat \ {0}
  BY FitCapacityType DEF Init
<1>3. NoOffset \in Nat
  BY NavAssumption DEF NoOffset
<1>4. TypeOK
  <2>1. /\ mutable \in BOOLEAN /\ caretHigh \in BOOLEAN /\ textArea \in BOOLEAN
        /\ lmbDown \in BOOLEAN /\ selBlock \in BOOLEAN
    BY <1>1
  <2>2. sel \in Seq([ullOffset : Nat, ullSize : Nat \ {0}])
    BY <1>1, EmptySeq
  <2>3. dataSize \in 0..MaxSize
    BY <1>1, NavAssumption
  <2> QED BY <1>1, <1>2, <1>3, <2>1, <2>2, <2>3 DEF TypeOK
<1>5. CursorsInData /\ SelectionInData
  BY <1>1 DEF CursorsInData, IsDataSet, SelectionInData, Fits
<1> QED BY <1>4, <1>5 DEF NavInv

\* Data set, replaced in place, made read-only or cleared.
LEMMA NavData == NavInv /\ DataNext => NavInv'
<1> SUFFICES ASSUME NavInv, DataNext PROVE NavInv'
  OBVIOUS
<1>1. CASE ClearData
  <2>1. dataSize' \in 0..MaxSize
    BY <1>1, NavAssumption DEF ClearData
  <2>2. mutable' \in BOOLEAN
    BY <1>1 DEF ClearData
  <2> QED BY <1>1, <2>1, <2>2, DataStep DEF ClearData
<1>2. ASSUME NEW size \in 1..MaxSize, NEW m \in BOOLEAN, SetData(size, m)
      PROVE  NavInv'
  BY <1>2, DataStep, NavAssumption DEF SetData
<1>3. ASSUME NEW m \in BOOLEAN, mutable' = m,
             UNCHANGED <<dataSize, caretVars, cursorVars, mouseVars, sel, markVars, layoutVars>>
      PROVE  NavInv'
  <2>1. UNCHANGED <<dataSize, caretPos, caretHigh, textArea, cursorPrev, cursorNow, lmbDown,
                    selBlock, sel, markStart, markEnd, capacity, groupSize, pageSize>>
    BY <1>3 DEF caretVars, cursorVars, mouseVars, markVars, layoutVars
  <2>2. TypeOK'
    BY <1>3, <2>1 DEF NavInv, TypeOK
  <2>3. CursorsInData'
    BY <2>1 DEF NavInv, CursorsInData, IsDataSet, NoOffset
  <2>4. SelectionInData'
    BY <2>1 DEF NavInv, SelectionInData, Fits
  <2> QED BY <2>2, <2>3, <2>4 DEF NavInv
<1>4. ASSUME NEW size \in 1..MaxSize, NEW m \in BOOLEAN, AdjustData(size, m)
      PROVE  NavInv'
  BY <1>3, <1>4 DEF AdjustData
<1>5. ASSUME NEW m \in BOOLEAN, SetMutable(m)
      PROVE  NavInv'
  BY <1>3, <1>5 DEF SetMutable
<1> QED BY <1>1, <1>2, <1>4, <1>5 DEF DataNext

\* A new row length, group size or page size moves nothing else.
LEMMA NavLayout == NavInv /\ LayoutNext => NavInv'
<1> SUFFICES ASSUME NavInv, LayoutNext PROVE NavInv'
  OBVIOUS
<1>1. capacity \in Nat \ {0} /\ groupSize \in 1..MaxGroup /\ pageSize \in Nat
  BY DEF NavInv, TypeOK
<1>2. ASSUME NEW cap \in 0..MaxCapacity + 1, SetCapacity(cap)
      PROVE  NavInv'
  <2>1. capacity' \in Nat \ {0}
    BY <1>1, <1>2, FitCapacityType, NavAssumption DEF SetCapacity
  <2> QED BY <1>1, <1>2, <2>1, LayoutStep DEF SetCapacity
<1>3. ASSUME NEW group \in 1..MaxGroup, SetGroupSize(group)
      PROVE  NavInv'
  <2>1. capacity' \in Nat \ {0}
    BY <1>1, <1>3, FitCapacityType DEF SetGroupSize
  <2> QED BY <1>1, <1>3, <2>1, LayoutStep DEF SetGroupSize
<1>4. ASSUME NEW size \in PageSizes, SetPageSize(size)
      PROVE  NavInv'
  BY <1>1, <1>4, LayoutStep, NavAssumption DEF SetPageSize
<1> QED BY <1>2, <1>3, <1>4 DEF LayoutNext

\* A caret command moves the caret to a byte of the data or not at all.
LEMMA NavCaret == NavInv /\ CaretNext => NavInv'
<1> SUFFICES ASSUME NavInv, CaretNext PROVE NavInv'
  OBVIOUS
<1>1. /\ dataSize \in Nat /\ caretPos \in Nat /\ caretHigh \in BOOLEAN
      /\ capacity \in Nat \ {0} /\ pageSize \in Nat
      /\ IsDataSet => caretPos < dataSize /\ dataSize - 1 \in Nat
  BY DEF NavInv, TypeOK, CursorsInData, IsDataSet
<1>2. ASSUME NEW pos \in Nat, CaretTo(pos) PROVE NavInv'
  BY <1>2, CaretStep DEF CaretTo
<1>3. \A row \in Nat \ {0} : caretPos % row \in 0..row - 1 /\ caretPos % row <= caretPos
  BY <1>1, ModFacts
<1>4. CASE CaretMoveDown
  BY <1>1, <1>4, CaretStep DEF CaretMoveDown
<1>5. CASE CaretMoveUp
  BY <1>1, <1>5, CaretStep DEF CaretMoveUp
<1>6. CASE CaretMoveLeft
  <2>1. CASE WholeBytes
    BY <1>1, <1>6, <2>1, CaretStep DEF CaretMoveLeft
  <2>2. CASE ~WholeBytes /\ caretHigh
    <3>1. caretPos > 0 /\ PlaceCaret(caretPos - 1, FALSE) /\ UNCHANGED caretElse
      BY <1>6, <2>2, Zenon DEF CaretMoveLeft
    <3>2. caretPos - 1 \in Nat
      BY <1>1, <3>1
    <3> QED BY <3>1, <3>2, CaretStep
  <2>3. CASE ~WholeBytes /\ ~caretHigh
    <3>1. PlaceCaret(caretPos, TRUE) /\ UNCHANGED caretElse
      BY <1>6, <2>3, Zenon DEF CaretMoveLeft
    <3> QED BY <1>1, <3>1, CaretStep
  <2> QED BY <2>1, <2>2, <2>3
<1>7. CASE CaretMoveRight
  <2>1. Least(caretPos + 1, dataSize - 1) \in Nat /\ Least(caretPos, dataSize - 1) \in Nat
    BY <1>1, <1>7 DEF CaretMoveRight, Least
  <2> QED BY <1>1, <1>7, <2>1, CaretStep DEF CaretMoveRight
<1>8. CASE CaretToDataBeg
  BY <1>2, <1>8 DEF CaretToDataBeg
<1>9. CASE CaretToDataEnd
  BY <1>1, <1>2, <1>9 DEF CaretToDataEnd, CaretTo
<1>10. CASE CaretToLineBeg
  BY <1>1, <1>2, <1>3, <1>10 DEF CaretToLineBeg
<1>11. CASE CaretToLineEnd
  <2>1. Least(caretPos + (capacity - (caretPos % capacity)) - 1, dataSize - 1) \in Nat
    BY <1>1, <1>3, <1>11 DEF CaretToLineEnd, CaretTo, Least
  <2> QED BY <1>2, <1>11, <2>1 DEF CaretToLineEnd
<1>12. CASE CaretToPageBeg
  BY <1>1, <1>2, <1>3, <1>12 DEF CaretToPageBeg
<1>13. CASE CaretToPageEnd
  <2>1. Least(caretPos + (pageSize - (caretPos % pageSize)) - 1, dataSize - 1) \in Nat
    BY <1>1, <1>3, <1>13 DEF CaretToPageEnd, CaretTo, Least
  <2> QED BY <1>2, <1>13, <2>1 DEF CaretToPageEnd
<1> QED
  BY <1>4, <1>5, <1>6, <1>7, <1>8, <1>9, <1>10, <1>11, <1>12, <1>13 DEF CaretNext

\* A Shift+arrow that applies an extent inside the data.
LEMMA SelAddStep ==
  ASSUME NavInv, NEW x, ExtentInData(x), SelAdd(x)
  PROVE  NavInv'
<1>1. /\ dataSize \in Nat /\ cursorNow \in Nat
      /\ caretHigh \in BOOLEAN /\ textArea \in BOOLEAN /\ lmbDown \in BOOLEAN /\ selBlock \in BOOLEAN
      /\ markStart \in Nat /\ markEnd \in Nat
  BY DEF NavInv, TypeOK
<1>2. /\ x \in [click : Nat, start : Nat, size : Nat] /\ x.size > 0
      /\ caretPos' = x.start /\ cursorPrev' = x.click /\ cursorNow' = cursorNow
      /\ UNCHANGED <<dataVars, layoutVars>>
      /\ UNCHANGED <<caretHigh, textArea, lmbDown, selBlock, markStart, markEnd>>
      /\ sel' = IF IsDataSet THEN One(x.start, x.size) ELSE sel
  BY DEF SelAdd, ExtentInData, SetSelection, mouseVars, markVars
<1>3. \A pos \in {caretPos', cursorPrev', cursorNow'} :
        IF IsDataSet THEN pos < dataSize ELSE pos = 0
  BY <1>2 DEF ExtentInData, NavInv, CursorsInData
<1>4. \A mark \in {markStart', markEnd'} : mark = NoOffset \/ mark < dataSize
  BY <1>2 DEF NavInv, CursorsInData
<1>5. CASE IsDataSet
  <2>1. sel' = One(x.start, x.size)
    BY <1>2, <1>5
  <2>2. x.start + x.size <= dataSize
    BY <1>2, <1>5 DEF ExtentInData
  <2>3. /\ sel' \in Seq([ullOffset : Nat, ullSize : Nat \ {0}])
        /\ Fits(sel')
    <3>1. x.start \in Nat /\ x.size \in Nat \ {0}
      BY <1>2
    <3>2. /\ One(x.start, x.size) \in Seq([ullOffset : Nat, ullSize : Nat \ {0}])
          /\ Fits(One(x.start, x.size))
      BY <1>1, <2>2, <3>1, OneSpan
    <3> QED BY <2>1, <3>2
  <2> QED BY <1>1, <1>2, <1>3, <1>4, <2>3, SelectStep
<1>6. CASE ~IsDataSet
  BY <1>1, <1>2, <1>3, <1>4, <1>6, SelectStep
<1> QED BY <1>5, <1>6

\* A selection command selects bytes of the data: the Shift+arrows through
\* the lemmas on extents, SelAll, and the marks, which are carets themselves.
LEMMA NavSelect == NavInv /\ FittingSelectNext => NavInv'
<1> SUFFICES ASSUME NavInv, FittingSelectNext PROVE NavInv'
  OBVIOUS
<1>1. CASE Orderly(sel) /\ SelAddDown
  BY <1>1, DownInData, SelAddStep DEF SelAddDown
<1>2. CASE Orderly(sel) /\ SelAddLeft
  BY <1>2, LeftInData, SelAddStep DEF SelAddLeft
<1>3. CASE Orderly(sel) /\ SelAddRight
  BY <1>3, RightInData, SelAddStep DEF SelAddRight
<1>4. CASE Orderly(sel) /\ SelAddUp
  BY <1>4, UpInData, SelAddStep DEF SelAddUp
<1>5. /\ dataSize \in Nat /\ caretPos \in Nat /\ cursorPrev \in Nat /\ cursorNow \in Nat
      /\ caretHigh \in BOOLEAN /\ textArea \in BOOLEAN /\ lmbDown \in BOOLEAN /\ selBlock \in BOOLEAN
      /\ markStart \in Nat /\ markEnd \in Nat
      /\ \A pos \in {caretPos, cursorPrev, cursorNow} :
           IF IsDataSet THEN pos < dataSize ELSE pos = 0
      /\ \A mark \in {markStart, markEnd} : mark = NoOffset \/ mark < dataSize
  BY DEF NavInv, TypeOK, CursorsInData
<1>6. ASSUME IsDataSet, UNCHANGED selElse,
             {markStart', markEnd'} \subseteq {markStart, markEnd, caretPos},
             NEW o \in Nat, NEW s \in Nat \ {0}, o + s <= dataSize,
             sel' \in {sel, One(o, s)}
      PROVE  NavInv'
  <2>1. /\ UNCHANGED <<dataVars, layoutVars>>
        /\ UNCHANGED <<caretPos, caretHigh, textArea, cursorPrev, cursorNow, lmbDown, selBlock>>
    BY <1>6 DEF selElse, caretVars, cursorVars, mouseVars
  <2>2. /\ {markStart', markEnd'} \subseteq Nat
        /\ \A mark \in {markStart', markEnd'} : mark = NoOffset \/ mark < dataSize
    BY <1>5, <1>6
  <2>3. \/ sel' = sel
        \/ /\ sel' \in Seq([ullOffset : Nat, ullSize : Nat \ {0}])
           /\ Fits(sel')
    BY <1>5, <1>6, OneSpan
  <2> QED BY <1>5, <2>1, <2>2, <2>3, SelectStep
<1>7. CASE SelAll
  <2>1. sel' \in {sel, One(0, dataSize)} /\ IsDataSet /\ UNCHANGED selElse
    BY <1>7 DEF SelAll, SetSelection
  <2>2. UNCHANGED <<markStart, markEnd>>
    BY <1>7 DEF SelAll, markVars
  <2> QED BY <1>5, <1>6, <2>1, <2>2 DEF IsDataSet
<1>8. ASSUME IsDataSet, UNCHANGED selElse,
             {markStart', markEnd'} \subseteq {markStart, markEnd, caretPos},
             SelectMarked(markStart', markEnd')
      PROVE  NavInv'
  <2>1. CASE sel' = sel
    BY <1>5, <1>6, <1>8, <2>1 DEF IsDataSet
  <2>2. CASE sel' # sel
    <3>1. /\ markStart' # NoOffset /\ markEnd' # NoOffset /\ ~(markStart' > markEnd')
          /\ sel' = One(markStart', markEnd' - markStart' + 1)
      BY <1>8, <2>2 DEF SelectMarked
    <3>2. markStart' \in Nat /\ markEnd' \in Nat /\ markEnd' < dataSize
      BY <1>5, <1>8, <3>1
    <3>3. /\ markEnd' - markStart' + 1 \in Nat \ {0}
          /\ markStart' + (markEnd' - markStart' + 1) <= dataSize
      BY <1>5, <3>1, <3>2, MarkedSpan
    <3> QED BY <1>6, <1>8, <3>1, <3>2, <3>3
  <2> QED BY <2>1, <2>2
<1>9. CASE SelMarkStart
  BY <1>8, <1>9 DEF SelMarkStart
<1>10. CASE SelMarkEnd
  BY <1>8, <1>10 DEF SelMarkEnd
<1> QED
  BY <1>1, <1>2, <1>3, <1>4, <1>7, <1>9, <1>10 DEF FittingSelectNext

\* What a client selects is well formed.
LEMMA ClientSelsType ==
  ASSUME dataSize \in Nat, NEW spans \in ClientSels
  PROVE  spans \in Seq([ullOffset : Nat, ullSize : Nat \ {0}]) /\ Fits(spans)
<1> DEFINE Spans == [ullOffset : 0..dataSize - 1, ullSize : 1..dataSize]
           S == [ullOffset : Nat, ullSize : Nat \ {0}]
<1>1. PICK n \in 0..MaxSpans : spans \in [1..n -> Spans]
  BY DEF ClientSels
<1>2. n \in Nat
  BY NavAssumption
<1>3. Spans \subseteq S
  OBVIOUS
<1> HIDE DEF Spans, S
<1>4. spans \in [1..n -> S]
  BY <1>1, <1>3
<1>5. spans \in Seq(S)
  BY <1>2, <1>4, SeqDef
<1> QED BY <1>5 DEF ClientSels, S

\* A client places the caret or selects spans of the data.
LEMMA NavClient == NavInv /\ ClientNext => NavInv'
<1> SUFFICES ASSUME NavInv, ClientNext PROVE NavInv'
  OBVIOUS
<1>1. ASSUME NEW offset \in 0..MaxSize, NEW high \in BOOLEAN, SetCaretPos(offset, high)
      PROVE  NavInv'
  <2>1. offset \in Nat
    BY NavAssumption
  <2> QED BY <1>1, <2>1, CaretStep DEF SetCaretPos
<1>2. ASSUME NEW spans \in ClientSels, ClientSelection(spans)
      PROVE  NavInv'
  <2>1. /\ dataSize \in Nat /\ IsDataSet /\ sel' = spans
        /\ UNCHANGED <<dataVars, layoutVars>>
        /\ UNCHANGED <<caretPos, caretHigh, textArea, cursorPrev, cursorNow, lmbDown, selBlock,
                       markStart, markEnd>>
    BY <1>2 DEF ClientSelection, SetSelection, NavInv, TypeOK, caretVars, cursorVars, mouseVars, markVars
  <2>2. sel' \in Seq([ullOffset : Nat, ullSize : Nat \ {0}]) /\ Fits(sel')
    BY <2>1, ClientSelsType
  <2> QED BY <2>1, <2>2, SelectStep DEF NavInv, TypeOK, CursorsInData
<1> QED BY <1>1, <1>2 DEF ClientNext

\* What a mouse message tells.
LEMMA HitFacts ==
  ASSUME NEW hit \in Hits
  PROVE  hit.offset \in Nat /\ hit.text \in BOOLEAN /\ hit.high \in BOOLEAN
<1>1. CASE hit \in [offset : 0..MaxSize - 1, text : {TRUE}, high : {FALSE}]
  <2>1. hit.offset \in 0..MaxSize - 1
    BY <1>1
  <2>2. hit.offset \in Nat
    BY <2>1, NavAssumption
  <2>3. hit.text = TRUE /\ hit.high = FALSE
    BY <1>1
  <2>4. hit.text \in BOOLEAN /\ hit.high \in BOOLEAN
    BY <2>3, Zenon
  <2> QED BY <2>2, <2>4, Zenon
<1>2. CASE hit \in [offset : 0..MaxSize - 1, text : {FALSE}, high : BOOLEAN]
  <2>1. hit.offset \in 0..MaxSize - 1
    BY <1>2
  <2>2. hit.offset \in Nat
    BY <2>1, NavAssumption
  <2>3. hit.text = FALSE /\ hit.high \in BOOLEAN
    BY <1>2
  <2>4. hit.text \in BOOLEAN /\ hit.high \in BOOLEAN
    BY <2>3, Zenon
  <2> QED BY <2>2, <2>4, Zenon
<1> QED BY <1>1, <1>2, Zenon DEF Hits

\* Clicks, double clicks and drags whose spans fit the data.
LEMMA NavMouse == NavInv /\ FittingMouseNext => NavInv'
<1> SUFFICES ASSUME NavInv, FittingMouseNext PROVE NavInv'
  OBVIOUS
<1>1. /\ dataSize \in Nat /\ capacity \in Nat \ {0}
      /\ caretPos \in Nat /\ cursorPrev \in Nat /\ cursorNow \in Nat
      /\ caretHigh \in BOOLEAN /\ textArea \in BOOLEAN /\ lmbDown \in BOOLEAN /\ selBlock \in BOOLEAN
      /\ markStart \in Nat /\ markEnd \in Nat
      /\ \A pos \in {caretPos, cursorPrev, cursorNow} :
           IF IsDataSet THEN pos < dataSize ELSE pos = 0
      /\ \A mark \in {markStart, markEnd} : mark = NoOffset \/ mark < dataSize
  BY DEF NavInv, TypeOK, CursorsInData
<1>2. \A hit \in Hits : hit.offset \in Nat /\ hit.text \in BOOLEAN /\ hit.high \in BOOLEAN
  BY HitFacts
<1>3. ASSUME NEW hit \in Hits, HitTest(hit), PutCursor(hit),
             UNCHANGED <<dataVars, markVars, layoutVars>>,
             lmbDown' \in BOOLEAN, selBlock' \in BOOLEAN,
             {caretPos', cursorPrev', cursorNow'} \subseteq 0..hit.offset \cup {cursorPrev},
             \/ sel' = <<>>
             \/ \E o \in Nat, s \in Nat \ {0} : o + s <= dataSize /\ sel' = One(o, s)
      PROVE  NavInv'
  <2>1. caretHigh' \in BOOLEAN /\ textArea' \in BOOLEAN
    BY <1>1, <1>2, <1>3 DEF PutCursor
  <2>2. hit.offset < dataSize /\ IsDataSet
    BY <1>1, <1>2, <1>3 DEF HitTest, IsDataSet
  <2>3. /\ {caretPos', cursorPrev', cursorNow'} \subseteq Nat
        /\ \A pos \in {caretPos', cursorPrev', cursorNow'} : pos < dataSize
    BY <1>1, <1>2, <1>3, <2>2
  <2>4. UNCHANGED <<dataVars, layoutVars>> /\ UNCHANGED <<markStart, markEnd>>
    BY <1>3 DEF markVars
  <2>5. \/ sel' = <<>>
        \/ /\ sel' \in Seq([ullOffset : Nat, ullSize : Nat \ {0}])
           /\ Fits(sel')
    BY <1>1, <1>3, OneSpan
  <2> QED BY <1>1, <1>3, <2>1, <2>2, <2>3, <2>4, <2>5, SelectStep
<1>4. ASSUME NEW hit \in Hits, NEW shift \in BOOLEAN, NEW alt \in BOOLEAN,
             OnLButtonDown(hit, shift, alt)
      PROVE  NavInv'
  <2>1. hit.offset \in Nat /\ hit.offset < dataSize /\ cursorPrev < dataSize
    BY <1>1, <1>2, <1>4 DEF OnLButtonDown, HitTest, IsDataSet
  <2>2. {caretPos', cursorPrev', cursorNow'} \subseteq 0..hit.offset \cup {cursorPrev}
    BY <1>4, <2>1 DEF OnLButtonDown
  <2>3. CASE shift
    <3> DEFINE from == Least(hit.offset, cursorPrev)
               to == IF hit.offset <= cursorPrev THEN cursorPrev + 1 ELSE hit.offset + 1
    <3>1. from \in Nat /\ to - from \in Nat \ {0} /\ from + (to - from) <= dataSize
      BY <1>1, <2>1 DEF Least
    <3>2. sel' = One(from, to - from)
      BY <1>4, <2>3 DEF OnLButtonDown
    <3> HIDE DEF from, to
    <3> QED BY <1>3, <1>4, <2>2, <3>1, <3>2 DEF OnLButtonDown
  <2>4. CASE ~shift
    <3>1. sel' = <<>>
      BY <1>4, <2>4 DEF OnLButtonDown
    <3> QED BY <1>3, <1>4, <2>2, <3>1 DEF OnLButtonDown
  <2> QED BY <2>3, <2>4
<1>5. ASSUME NEW hit \in Hits, NEW shift \in BOOLEAN, NEW alt \in BOOLEAN,
             shift => Fits(One(hit.offset - (hit.offset % capacity), capacity)),
             OnLButtonDblClk(hit, shift, alt)
      PROVE  NavInv'
  <2> DEFINE row == hit.offset - (hit.offset % capacity)
  <2>1. hit.offset \in Nat /\ hit.offset < dataSize /\ IsDataSet
    BY <1>1, <1>2, <1>5 DEF OnLButtonDblClk, HitTest, IsDataSet
  <2>2. row \in 0..hit.offset
    <3>1. hit.offset % capacity \in 0..capacity - 1 /\ hit.offset % capacity <= hit.offset
      BY <1>1, <2>1, ModFacts
    <3> QED BY <1>1, <2>1, <3>1 DEF row
  <2> HIDE DEF row
  <2>3. CASE shift
    <3>1. /\ caretPos' = hit.offset /\ cursorPrev' = row /\ cursorNow' = row
          /\ sel' = One(row, capacity) /\ selBlock' = selBlock
      BY <1>5, <2>1, <2>3 DEF OnLButtonDblClk, SetSelection, row
    <3>2. row + capacity <= dataSize
      <4>1. Fits(One(row, capacity))
        BY <1>5, <2>3 DEF row
      <4> QED BY <4>1 DEF Fits, One, Span
    <3> QED BY <1>1, <1>3, <1>5, <2>1, <2>2, <3>1, <3>2 DEF OnLButtonDblClk
  <2>4. CASE ~shift
    <3>1. /\ caretPos' = hit.offset /\ cursorPrev' = hit.offset /\ cursorNow' = hit.offset
          /\ sel' = One(hit.offset, 1) /\ selBlock' = alt
      BY <1>5, <2>1, <2>4 DEF OnLButtonDblClk, SetSelection
    <3>2. hit.offset + 1 <= dataSize
      BY <1>1, <2>1
    <3> QED BY <1>3, <1>5, <2>1, <3>1, <3>2 DEF OnLButtonDblClk
  <2> QED BY <2>3, <2>4
<1>6. ASSUME NEW hit \in Hits,
             selBlock => Fits(BlockSpans(cursorPrev, hit.offset)),
             OnMouseMove(hit)
      PROVE  NavInv'
  <2>1. /\ hit.offset \in Nat /\ hit.offset < dataSize /\ IsDataSet /\ cursorPrev < dataSize
        /\ UNCHANGED <<dataVars, layoutVars>>
        /\ UNCHANGED <<caretHigh, textArea, cursorPrev, lmbDown, selBlock, markStart, markEnd>>
        /\ cursorNow' = hit.offset
    BY <1>1, <1>2, <1>6 DEF OnMouseMove, HitTest, IsDataSet, mouseVars, markVars
  <2>2. CASE selBlock
    <3>1. caretPos' = BlockStart(cursorPrev, hit.offset) /\ sel' = BlockSpans(cursorPrev, hit.offset)
      BY <1>6, <2>1, <2>2 DEF OnMouseMove, SetSelection
    <3>2. caretPos' \in Nat /\ caretPos' < dataSize
      <4>1. /\ BlockStart(cursorPrev, hit.offset) \in Nat
            /\ BlockStart(cursorPrev, hit.offset) <= hit.offset
        BY <1>1, <2>1, BlockFacts
      <4> QED BY <1>1, <2>1, <3>1, <4>1
    <3>3. /\ sel' \in Seq([ullOffset : Nat, ullSize : Nat \ {0}])
          /\ Fits(sel')
      BY <1>1, <1>6, <2>1, <2>2, <3>1, BlockShape
    <3> QED BY <1>1, <2>1, <3>2, <3>3, SelectStep
  <2>3. CASE ~selBlock
    <3> DEFINE start == Least(hit.offset, cursorPrev)
               last == IF hit.offset <= cursorPrev THEN cursorPrev ELSE hit.offset
    <3>1. start \in Nat /\ last - start + 1 \in Nat \ {0} /\ start + (last - start + 1) <= dataSize
      BY <1>1, <2>1 DEF Least
    <3>2. caretPos' = start /\ sel' = One(start, last - start + 1)
      BY <1>6, <2>1, <2>3 DEF OnMouseMove, SetSelection
    <3>3. start < dataSize
      BY <1>1, <2>1 DEF Least
    <3> HIDE DEF start, last
    <3>4. /\ sel' \in Seq([ullOffset : Nat, ullSize : Nat \ {0}])
          /\ Fits(sel')
      BY <1>1, <3>1, <3>2, OneSpan
    <3> QED BY <1>1, <2>1, <3>1, <3>2, <3>3, <3>4, SelectStep
  <2> QED BY <2>2, <2>3
<1>7. CASE OnLButtonUp
  <2>1. /\ UNCHANGED <<dataVars, layoutVars>> /\ lmbDown' = FALSE
        /\ UNCHANGED <<caretPos, caretHigh, textArea, cursorPrev, cursorNow, selBlock,
                       sel, markStart, markEnd>>
    BY <1>7 DEF OnLButtonUp, caretVars, cursorVars, markVars
  <2>2. lmbDown' \in BOOLEAN
    BY <2>1
  <2> QED BY <1>1, <2>1, <2>2, SelectStep
<1> QED
  BY <1>4, <1>5, <1>6, <1>7 DEF FittingMouseNext

\* The invariant is inductive over every operation of the fitting interface.
LEMMA NavStep == NavInv /\ [FittingNext]_vars => NavInv'
<1> SUFFICES ASSUME NavInv, [FittingNext]_vars PROVE NavInv'
  OBVIOUS
<1>1. CASE FittingNext
  BY <1>1, NavData, NavLayout, NavCaret, NavSelect, NavMouse, NavClient DEF FittingNext
<1>2. CASE UNCHANGED vars
  <2>1. /\ UNCHANGED <<dataVars, caretVars, cursorVars, mouseVars, sel, markVars>>
        /\ UNCHANGED <<capacity, groupSize, pageSize>>
    BY <1>2 DEF vars, layoutVars
  <2> QED BY <2>1, LayoutStep DEF NavInv, TypeOK
<1> QED BY <1>1, <1>2

\* Types: no reachable state holds an empty row or an empty span.  And the
\* caret, the cursor's two positions and the marks stay on bytes of the data,
\* across replacement of the data, changes of the row length, drags, spans a
\* client selects and every order of commands (SetData, SetCapacity,
\* OnMouseMove, SetSelection, SelAdd*), but for the three gestures FittingSpec
\* leaves out.
THEOREM NavPlacesInData == FittingSpec => []PlacesInData
<1>1. NavInv => PlacesInData
  BY DEF NavInv, PlacesInData
<1> QED BY <1>1, NavInit, NavStep, PTL DEF FittingSpec

\* Every selected byte exists, whatever spans clients select: only the three
\* gestures FittingSpec leaves out can select past the data's end.
THEOREM NavSelectionInData == FittingSpec => []SelectionInData
<1>1. NavInv => SelectionInData
  BY DEF NavInv
<1> QED BY <1>1, NavInit, NavStep, PTL DEF FittingSpec

-----------------------------------------------------------------------------
(* Rows of whole groups                                                    *)

\* A number rounded down or up to a multiple is a multiple.
LEMMA RoundedIsMultiple ==
  ASSUME NEW a \in Nat, NEW b \in Nat \ {0}
  PROVE  /\ a - (a % b) \in Nat /\ (a - (a % b)) % b = 0
         /\ a % b > 0 => (a + (b - (a % b))) % b = 0
<1> DEFINE d == a \div b
           r == a % b
<1>1. d \in Nat /\ r \in 0..b - 1 /\ a = b * d + r /\ r <= a
  BY ModFacts, DivMod
<1> HIDE DEF d, r
<1>2. /\ a - r \in Nat /\ a - r = b * d + 0
      /\ a + (b - r) \in Nat /\ a + (b - r) = b * d + b
  BY <1>1
<1>3. b * (d + 1) = b * d + b
  BY <1>1
<1>4. (a - r) % b = 0
  BY <1>1, <1>2, QuotientIs
<1>5. (a + (b - r)) % b = 0
  BY <1>1, <1>2, <1>3, QuotientIs
<1> QED BY <1>2, <1>4, <1>5 DEF r

\* A multiple less one unit is a multiple, and two units when more than one.
LEMMA LessOneUnit ==
  ASSUME NEW a \in Nat, NEW b \in Nat \ {0}, a % b = 0, a > b
  PROVE  (a - b) % b = 0 /\ a - b >= b
<1> DEFINE d == a \div b
<1>1. d \in Nat /\ a = b * d
  BY ModFacts, DivMod
<1> HIDE DEF d
<1>2. d # 0 /\ d # 1
  BY <1>1
<1>3. d - 1 \in Nat /\ b * d = b * (d - 1) + b /\ b * 1 <= b * (d - 1)
  <2>1. d - 1 \in Nat /\ 1 <= d - 1
    BY <1>1, <1>2
  <2>2. b * 1 <= b * (d - 1)
    BY <2>1, MulMono
  <2>3. b * d = b * (d - 1) + b
    BY <1>1
  <2> QED BY <2>1, <2>2, <2>3
<1>4. a - b = b * (d - 1) + 0 /\ a - b \in Nat /\ a - b >= b
  BY <1>1, <1>3
<1> QED BY <1>3, <1>4, QuotientIs

\* A row length the control accepts for a group size.
WholeRow(cap, group) == cap \in group..MaxCapacity /\ cap % group = 0

\* SetCapacity's rounding: a valid request gives a row of whole groups
\* whatever the old row was; an invalid one leaves the old row.
LEMMA FitIsWholeRow ==
  ASSUME NEW cap \in Nat, NEW group \in 1..MaxGroup, NEW current \in Nat,
         cap \in 1..MaxCapacity \/ WholeRow(current, group)
  PROVE  WholeRow(FitCapacity(cap, group, current), group)
<1> DEFINE mod == cap % group
           rounded == IF cap < current THEN cap - mod
                      ELSE cap + (IF mod > 0 THEN group - mod ELSE 0)
<1>1. group \in Nat \ {0} /\ group <= MaxCapacity /\ MaxCapacity \in Nat
  BY NavAssumption
<1>2. /\ mod \in 0..group - 1 /\ mod <= cap
      /\ (cap - mod) % group = 0
      /\ mod > 0 => (cap + (group - mod)) % group = 0
  BY <1>1, ModFacts, RoundedIsMultiple
<1>3. rounded \in Nat /\ rounded % group = 0 /\ rounded <= cap + group
  BY <1>1, <1>2
<1>4. FitCapacity(cap, group, current) =
        IF cap < 1 \/ cap > MaxCapacity THEN current
        ELSE IF rounded < group THEN group
        ELSE IF rounded > MaxCapacity THEN rounded - group
        ELSE rounded
  BY DEF FitCapacity
<1> HIDE DEF mod, rounded
<1>5. CASE cap < 1 \/ cap > MaxCapacity
  BY <1>1, <1>4, <1>5
<1>6. CASE ~(cap < 1 \/ cap > MaxCapacity)
  <2>1. CASE rounded < group
    <3>1. group = group * 1 + 0 /\ group % group = 0
      BY <1>1, QuotientIs
    <3> QED BY <1>1, <1>4, <1>6, <2>1, <3>1 DEF WholeRow
  <2>2. CASE ~(rounded < group) /\ rounded > MaxCapacity
    <3>1. rounded > group
      BY <1>1, <1>3, <2>2
    <3>2. (rounded - group) % group = 0 /\ rounded - group >= group
      BY <1>1, <1>3, <3>1, LessOneUnit
    <3> QED BY <1>1, <1>3, <1>4, <1>6, <2>2, <3>2 DEF WholeRow
  <2>3. CASE ~(rounded < group) /\ ~(rounded > MaxCapacity)
    BY <1>1, <1>3, <1>4, <1>6, <2>3 DEF WholeRow
  <2> QED BY <2>1, <2>2, <2>3
<1> QED BY <1>5, <1>6

\* The inductive invariant of the layout, under any use of the mouse.
RowInv == groupSize \in 1..MaxGroup /\ RowsOfWholeGroups

\* Only SetCapacity and SetGroupSize change the row or its groups.
LEMMA RowStep == RowInv /\ [Next]_vars => RowInv'
<1> SUFFICES ASSUME RowInv, [Next]_vars PROVE RowInv'
  OBVIOUS
<1>1. /\ MaxCapacity \in Nat /\ MaxGroup \in Nat /\ groupSize \in Nat \ {0}
      /\ capacity \in Nat /\ capacity \in 1..MaxCapacity /\ WholeRow(capacity, groupSize)
  BY NavAssumption DEF RowInv, RowsOfWholeGroups, WholeRow
<1>2. ASSUME UNCHANGED <<capacity, groupSize>> PROVE RowInv'
  BY <1>2 DEF RowInv, RowsOfWholeGroups
<1>3. ASSUME NEW cap \in 0..MaxCapacity + 1, SetCapacity(cap) PROVE RowInv'
  <2>1. /\ cap \in Nat /\ groupSize' = groupSize
        /\ capacity' = FitCapacity(cap, groupSize, capacity)
    BY <1>1, <1>3 DEF SetCapacity
  <2>2. WholeRow(capacity', groupSize)
    BY <1>1, <2>1, FitIsWholeRow DEF RowInv
  <2> QED BY <2>1, <2>2 DEF RowInv, RowsOfWholeGroups, WholeRow
<1>4. ASSUME NEW group \in 1..MaxGroup, SetGroupSize(group) PROVE RowInv'
  <2>1. groupSize' = group /\ capacity' = FitCapacity(capacity, group, capacity)
    BY <1>4 DEF SetGroupSize
  <2>2. WholeRow(capacity', group)
    BY <1>1, <2>1, FitIsWholeRow
  <2> QED BY <2>1, <2>2 DEF RowInv, RowsOfWholeGroups, WholeRow
<1>5. ASSUME NEW size \in PageSizes, SetPageSize(size) PROVE RowInv'
  BY <1>2, <1>5 DEF SetPageSize
<1>6. CASE UNCHANGED vars
  BY <1>2, <1>6 DEF vars, layoutVars
<1>7. CASE DataNext
  BY <1>2, <1>7 DEF DataNext, ClearData, SetData, AdjustData, SetMutable, layoutVars
<1>8. CASE ClientNext
  BY <1>2, <1>8 DEF ClientNext, SetCaretPos, ClientSelection, caretElse, layoutVars
<1>9. CASE CaretNext
  BY <1>2, <1>9
     DEF CaretNext, CaretMoveDown, CaretMoveUp, CaretMoveLeft, CaretMoveRight, CaretTo,
         CaretToDataBeg, CaretToDataEnd, CaretToLineBeg, CaretToLineEnd, CaretToPageBeg,
         CaretToPageEnd, caretElse, layoutVars
<1>10. CASE SelectNext
  BY <1>2, <1>10
     DEF SelectNext, SelAddDown, SelAddLeft, SelAddRight, SelAddUp, SelAdd, SelAll,
         SelMarkStart, SelMarkEnd, selElse, layoutVars
<1>11. CASE MouseNext
  BY <1>2, <1>11
     DEF MouseNext, OnLButtonDown, OnLButtonDblClk, OnMouseMove, OnLButtonUp, layoutVars
<1>12. CASE LayoutNext
  BY <1>3, <1>4, <1>5, <1>12 DEF LayoutNext
<1> QED BY <1>6, <1>7, <1>8, <1>9, <1>10, <1>11, <1>12 DEF Next

\* A row holds whole groups, in whatever order capacity and group size are
\* set (SetCapacity, SetGroupSize), under every use of the mouse.
THEOREM NavRowsOfWholeGroups == Spec => []RowsOfWholeGroups
<1>1. Init => RowInv
  <2> SUFFICES ASSUME Init PROVE RowInv
    OBVIOUS
  <2>1. groupSize \in 1..MaxGroup
    BY DEF Init
  <2>2. PICK cap \in 1..MaxCapacity : capacity = FitCapacity(cap, groupSize, cap)
    BY DEF Init
  <2>3. cap \in Nat
    BY NavAssumption
  <2>4. WholeRow(capacity, groupSize)
    BY <2>1, <2>2, <2>3, FitIsWholeRow
  <2> QED BY <2>1, <2>4 DEF RowInv, RowsOfWholeGroups, WholeRow
<1>2. RowInv => RowsOfWholeGroups
  BY DEF RowInv
<1> QED BY <1>1, <1>2, RowStep, PTL DEF Spec

-----------------------------------------------------------------------------
(* Shift+arrows move the focus                                             *)

\* With the caret at an end of one span that lies inside the data, every
\* Shift+arrow goes on from the anchor.
LEMMA AnchoredFacts ==
  ASSUME NavInv, Anchored
  PROVE  /\ SelStart \in Nat /\ SelSize \in Nat \ {0}
         /\ SelStart + SelSize <= dataSize
         /\ cursorPrev \in {SelStart, SelStart + SelSize - 1}
         /\ \A x : FromAnchor(x) = x
<1>1. /\ SelStart \in Nat /\ SelSize \in Nat \ {0} /\ SelStart + SelSize <= dataSize
      /\ cursorPrev \in {SelStart, SelStart + SelSize - 1}
      /\ caretPos \in {SelStart, SelStart + SelSize - 1}
  <2>1. Len(sel) \in Nat /\ Len(sel) <= 1 /\ IsDataSet
    BY DEF Anchored, NavInv, TypeOK
  <2>2. Orderly(sel)
    BY <2>1 DEF Orderly
  <2> QED BY <2>1, <2>2, SelFacts DEF Anchored
<1>2. caretPos \in {SelStart, GetSelEnd}
  <2>1. CASE HasSelection
    <3>1. Len(sel) \in Nat \ {0} /\ sel[1] \in [ullOffset : Nat, ullSize : Nat \ {0}]
      BY <2>1, FirstElement DEF NavInv, TypeOK, HasSelection
    <3>2. Len(sel) = 1
      <4>1. Len(sel) <= 1
        BY DEF Anchored
      <4> QED BY <3>1, <4>1
    <3>3. 1 * sel[1].ullSize = sel[1].ullSize
      BY <3>1
    <3>4. GetSelEnd = SelStart + SelSize - 1
      BY <2>1, <3>2, <3>3 DEF GetSelEnd, SelStart, SelSize, GetSelStart, GetSelSize
    <3> QED BY <1>1, <3>4
  <2>2. CASE ~HasSelection
    <3>1. SelStart = caretPos
      BY <2>2 DEF SelStart
    <3> QED BY <3>1
  <2> QED BY <2>1, <2>2
<1>3. \A x : FromAnchor(x) = x
  BY <1>2 DEF FromAnchor
<1> QED BY <1>1, <1>3

\* The four commands, against the focus that moves.
LEMMA ArrowMoves == NavInv => ArrowsMoveFocus
<1> SUFFICES ASSUME NavInv, Anchored
             PROVE  /\ DownExtent = Between(FocusDown)
                    /\ UpExtent = Between(FocusUp)
                    /\ LeftExtent = Between(FocusLeft)
                    /\ RightExtent = Between(FocusRight)
  BY DEF ArrowsMoveFocus
<1> DEFINE s == SelStart
           n == SelSize
           a == cursorPrev
<1>1. /\ s \in Nat /\ n \in Nat \ {0} /\ s + n <= dataSize
      /\ a = s \/ a = s + n - 1
      /\ \A x : FromAnchor(x) = x
  BY AnchoredFacts
<1>2. capacity \in Nat \ {0} /\ dataSize \in Nat /\ a \in Nat
  BY DEF NavInv, TypeOK
<1>3. Focus = IF s = a THEN s + n - 1 ELSE s
  BY DEF Focus
<1>4. DownExtent = ClampToData(
        IF s = a THEN Extent(a, a, n + capacity)
        ELSE IF s < a THEN IF n > capacity THEN Extent(a, s + capacity, n - capacity)
                           ELSE Extent(a, a, 1)
        ELSE NoExtent)
  BY <1>1 DEF DownExtent
<1>5. RightExtent = ClampToData(IF s = a THEN Extent(a, a, n + 1) ELSE Extent(a, s + 1, n - 1))
  BY <1>1 DEF RightExtent
<1>6. LeftExtent = IF s = a /\ n > 1 THEN Extent(a, a, n - 1)
                   ELSE IF s > 0 THEN Extent(a, s - 1, n + 1)
                   ELSE Extent(a, 0, n)
  BY <1>1 DEF LeftExtent
<1>7. UpExtent = IF s < a
                 THEN IF s < capacity THEN Extent(a, 0, n + s)
                      ELSE Extent(a, s - capacity, n + capacity)
                 ELSE IF n > capacity THEN Extent(a, a, n - capacity)
                 ELSE IF n > 1 THEN Extent(a, a, 1)
                 ELSE IF a >= capacity THEN Extent(a, a - capacity, n + capacity)
                 ELSE Extent(a, 0, n + s)
  BY <1>1 DEF UpExtent
<1>8. /\ FocusDown = IF Focus >= a THEN Least(Focus + capacity, dataSize - 1)
                                   ELSE Least(Focus + capacity, a)
      /\ FocusUp = IF Focus > a
                   THEN IF Focus - capacity >= a THEN Focus - capacity ELSE a
                   ELSE IF Focus >= capacity THEN Focus - capacity ELSE 0
      /\ \A f : Between(f) = IF f >= a THEN Extent(a, a, f - a + 1) ELSE Extent(a, f, a - f + 1)
  BY DEF FocusDown, FocusUp, Between
<1> HIDE DEF s, n, a
<1>9. DownExtent = Between(FocusDown)
  BY <1>1, <1>2, <1>3, <1>4, <1>8 DEF ClampToData, Extent, NoExtent, Minus, Least
<1>10. RightExtent = Between(FocusRight)
  BY <1>1, <1>2, <1>3, <1>5, <1>8 DEF FocusRight, ClampToData, Extent, Minus, Least
<1>11. LeftExtent = Between(FocusLeft)
  BY <1>1, <1>2, <1>3, <1>6, <1>8 DEF FocusLeft, Extent
<1>12. UpExtent = Between(FocusUp)
  BY <1>1, <1>2, <1>3, <1>7, <1>8 DEF Extent
<1> QED BY <1>9, <1>10, <1>11, <1>12

\* A Shift+arrow moves the end of the selection that is not the anchor, by a
\* byte or a row, stops at the anchor and at the data's edges (SelAddDown,
\* SelAddUp, SelAddLeft, SelAddRight), for every row length and data size.
THEOREM NavArrowsMoveFocus == FittingSpec => []ArrowsMoveFocus
BY ArrowMoves, NavInit, NavStep, PTL DEF FittingSpec

-----------------------------------------------------------------------------
(* A block is the rectangle between its corners                            *)

Greatest(a, b) == IF a >= b THEN a ELSE b

\* A later offset is on the same row or a later one.
LEMMA RowsOrdered ==
  ASSUME NEW c \in Nat \ {0}, NEW a \in Nat, NEW b \in Nat, a <= b
  PROVE  a \div c <= b \div c
<1> DEFINE p == a \div c
           q == b \div c
<1>1. /\ p \in Nat /\ a % c \in 0..c - 1 /\ a = c * p + (a % c)
      /\ q \in Nat /\ b % c \in 0..c - 1 /\ b = c * q + (b % c)
  BY ModFacts, DivMod
<1> HIDE DEF p, q
<1>2. ASSUME q < p PROVE FALSE
  <2>1. c * (q + 1) <= c * p
    BY <1>1, <1>2, MulMono
  <2>2. c * (q + 1) = c * q + c
    BY <1>1
  <2> QED BY <1>1, <2>1, <2>2
<1>3. p <= q
  BY <1>1, <1>2
<1> QED BY <1>3 DEF p, q

\* OnMouseMove's arithmetic: a block starts at the upper row and the left
\* column of its corners, spans the columns between and the rows between.
LEMMA BlockGeometry ==
  ASSUME capacity \in Nat \ {0}, NEW click \in Nat, NEW offset \in Nat
  PROVE  LET row(o) == o \div capacity
             column(o) == o % capacity
         IN  /\ BlockStart(click, offset) = capacity * Least(row(click), row(offset))
                                              + Least(column(click), column(offset))
             /\ BlockWidth(click, offset) = Greatest(column(click), column(offset))
                                              - Least(column(click), column(offset)) + 1
             /\ BlockRows(click, offset) = Greatest(row(click), row(offset))
                                              - Least(row(click), row(offset)) + 1
<1> DEFINE c == capacity
           p == click \div c
           r == click % c
           q == offset \div c
           t == offset % c
<1>1. /\ p \in Nat /\ r \in 0..c - 1 /\ click = c * p + r
      /\ q \in Nat /\ t \in 0..c - 1 /\ offset = c * q + t
      /\ c \in Nat \ {0} /\ c * p \in Nat /\ c * q \in Nat
  <2>1. p \in Nat /\ r \in 0..c - 1 /\ click = c * p + r
    BY ModFacts, DivMod
  <2>2. q \in Nat /\ t \in 0..c - 1 /\ offset = c * q + t
    BY ModFacts, DivMod
  <2> HIDE DEF p, q
  <2>3. c * p \in Nat /\ c * q \in Nat
    BY <2>1, <2>2
  <2> QED BY <2>1, <2>2, <2>3
<1>2. (offset >= click => q >= p) /\ (click >= offset => p >= q)
  BY RowsOrdered
<1>3. BlockStart(click, offset) =
        IF offset >= click
        THEN IF t <= r THEN click - (r - t) ELSE click
        ELSE IF t <= r THEN offset ELSE offset - (t - r)
  BY DEF BlockStart
<1>4. BlockWidth(click, offset) = IF t <= r THEN r - t + 1 ELSE t - r + 1
  BY DEF BlockWidth
<1> DEFINE last == IF offset >= click THEN offset ELSE click
           left == Least(r, t)
<1>5. BlockRows(click, offset) = (last - BlockStart(click, offset)) \div c + 1
  BY DEF BlockRows
<1> HIDE DEF c, p, r, q, t
<1>6. left \in 0..c - 1 /\ left <= r /\ left <= t
  BY <1>1 DEF Least
<1>7. BlockStart(click, offset) = c * Least(p, q) + left
  <2>1. CASE offset >= click
    <3>1. Least(p, q) = p
      BY <1>1, <1>2, <2>1 DEF Least
    <3>2. BlockStart(click, offset) = c * p + left
      BY <1>1, <1>3, <2>1 DEF Least
    <3> QED BY <3>1, <3>2
  <2>2. CASE ~(offset >= click)
    <3>1. Least(p, q) = q
      BY <1>1, <1>2, <2>2 DEF Least
    <3>2. BlockStart(click, offset) = c * q + left
      BY <1>1, <1>3, <2>2 DEF Least
    <3> QED BY <3>1, <3>2
  <2> QED BY <2>1, <2>2
<1>8. BlockWidth(click, offset) = Greatest(r, t) - left + 1
  BY <1>1, <1>4 DEF Least, Greatest
<1>9. BlockRows(click, offset) = Greatest(p, q) - Least(p, q) + 1
  <2>1. /\ Greatest(p, q) \in Nat /\ Least(p, q) \in Nat
        /\ Greatest(p, q) - Least(p, q) \in Nat
    BY <1>1 DEF Greatest, Least
  <2> DEFINE high == Greatest(p, q)
             low == Least(p, q)
             rest == IF offset >= click THEN t - left ELSE r - left
  <2>2. last = c * high + (IF offset >= click THEN t ELSE r)
    <3>1. CASE offset >= click
      <4>1. high = q
        BY <1>1, <1>2, <3>1 DEF Greatest
      <4> QED BY <1>1, <3>1, <4>1
    <3>2. CASE ~(offset >= click)
      <4>1. high = p
        BY <1>1, <1>2, <3>2 DEF Greatest
      <4> QED BY <1>1, <3>2, <4>1
    <3> QED BY <3>1, <3>2
  <2> HIDE DEF high, low, last
  <2>3. rest \in 0..c - 1
    BY <1>1, <1>6
  <2>4. c * high = c * low + c * (high - low) /\ c * low \in Nat /\ c * (high - low) \in Nat
    BY <1>1, <2>1 DEF high, low
  <2>5. last - BlockStart(click, offset) = c * (high - low) + rest
    BY <1>1, <1>6, <1>7, <2>2, <2>4 DEF low
  <2>6. (last - BlockStart(click, offset)) \div c = high - low
    <3>1. last - BlockStart(click, offset) \in Nat
      BY <1>1, <2>3, <2>4, <2>5
    <3> QED BY <1>1, <2>1, <2>3, <2>5, <3>1, QuotientIs DEF high, low
  <2> QED BY <1>5, <2>6 DEF high, low
<1> QED BY <1>7, <1>8, <1>9 DEF c, p, r, q, t

\* The bytes of a block are exactly those of the rectangle.
LEMMA BlockCovers ==
  ASSUME capacity \in Nat \ {0}, NEW click \in 0..MaxSize - 1, NEW offset \in 0..MaxSize - 1
  PROVE  Covered(BlockSpans(click, offset)) = Rectangle(click, offset)
<1> DEFINE c == capacity
           p == click \div c
           r == click % c
           q == offset \div c
           t == offset % c
           low == Least(p, q)
           high == Greatest(p, q)
           left == Least(r, t)
           right == Greatest(r, t)
           spans == BlockSpans(click, offset)
<1>1. /\ c \in Nat \ {0} /\ MaxSize \in Nat /\ click \in Nat /\ offset \in Nat
      /\ p \in Nat /\ r \in 0..c - 1 /\ click = c * p + r
      /\ q \in Nat /\ t \in 0..c - 1 /\ offset = c * q + t
  <2>1. /\ c \in Nat \ {0} /\ MaxSize \in Nat /\ click \in Nat /\ offset \in Nat
    BY NavAssumption
  <2>2. p \in Nat /\ r \in 0..c - 1 /\ click = c * p + r
    BY <2>1, ModFacts, DivMod
  <2>3. q \in Nat /\ t \in 0..c - 1 /\ offset = c * q + t
    BY <2>1, ModFacts, DivMod
  <2> QED BY <2>1, <2>2, <2>3
<1>2. /\ BlockStart(click, offset) = c * low + left
      /\ BlockWidth(click, offset) = right - left + 1
      /\ BlockRows(click, offset) = high - low + 1
  BY <1>1, BlockGeometry
<1> HIDE DEF c, p, r, q, t
<1>3. /\ low \in Nat /\ high \in Nat /\ low <= high
      /\ left \in 0..c - 1 /\ right \in 0..c - 1 /\ left <= right
      /\ \A x \in Nat : (IsBetween(x, p, q) <=> (low <= x /\ x <= high))
                     /\ (IsBetween(x, r, t) <=> (left <= x /\ x <= right))
  BY <1>1 DEF Least, Greatest, IsBetween
<1>4. c * high < MaxSize
  <2>1. high = p \/ high = q
    BY DEF Greatest
  <2>2. c * p < MaxSize /\ c * q < MaxSize
    BY <1>1
  <2> QED BY <2>1, <2>2
<1> HIDE DEF low, high, left, right
<1>5. spans = [i \in 1..high - low + 1 |->
                 Span(c * low + left + c * (i - 1), right - left + 1)]
  BY <1>2 DEF BlockSpans, c
<1> HIDE DEF spans
<1>6. Len(spans) = high - low + 1
  <2> DEFINE n == high - low + 1
  <2>1. n \in Nat
    BY <1>3
  <2>2. DOMAIN spans = 1..n
    BY <1>5
  <2>3. spans \in Seq({spans[i] : i \in 1..n})
    <3> DEFINE S == {spans[i] : i \in 1..n}
    <3> HIDE DEF n
    <3>1. spans = [i \in 1..n |-> spans[i]]
      BY <1>5 DEF n
    <3>2. spans \in [1..n -> S]
      BY <3>1
    <3> HIDE DEF S
    <3>3. spans \in Seq(S)
      BY <2>1, <3>2, SeqDef
    <3> QED BY <3>3 DEF S
  <2>4. Len(spans) \in Nat /\ DOMAIN spans = 1..Len(spans)
    BY <2>3, LenProperties
  <2> HIDE DEF n
  <2> QED BY <2>1, <2>2, <2>4 DEF n
<1>7. \A i \in 1..high - low + 1 :
        spans[i].ullOffset..(spans[i].ullOffset + spans[i].ullSize - 1)
          = (c * low + left + c * (i - 1))..(c * low + c * (i - 1) + right)
  <2> SUFFICES ASSUME NEW i \in 1..high - low + 1
               PROVE  spans[i].ullOffset..(spans[i].ullOffset + spans[i].ullSize - 1)
                        = (c * low + left + c * (i - 1))..(c * low + c * (i - 1) + right)
    OBVIOUS
  <2>1. spans[i] = Span(c * low + left + c * (i - 1), right - left + 1)
    BY <1>5
  <2>2. c * low \in Nat /\ c * (i - 1) \in Nat
    BY <1>1, <1>3
  <2>3. c * low + left + c * (i - 1) + (right - left + 1) - 1 = c * low + c * (i - 1) + right
    BY <1>3, <2>2
  <2> QED BY <2>1, <2>3 DEF Span
<1>8. ASSUME NEW o \in Covered(spans) PROVE o \in Rectangle(click, offset)
  <2>1. PICK i \in 1..high - low + 1 :
          o \in (c * low + left + c * (i - 1))..(c * low + c * (i - 1) + right)
    BY <1>6, <1>7, <1>8 DEF Covered
  <2> DEFINE m == low + (i - 1)
             k == o - c * m
  <2>2. m \in Nat /\ low <= m /\ m <= high
    BY <1>3, <2>1
  <2>3. c * m = c * low + c * (i - 1) /\ c * m \in Nat
    BY <1>1, <1>3, <2>1
  <2>4. c * m <= c * high
    BY <1>1, <1>3, <2>2, MulMono
  <2> HIDE DEF m
  <2>5. /\ k \in left..right /\ k \in 0..c - 1 /\ o \in Nat /\ o = c * m + k
    BY <1>1, <1>3, <2>1, <2>2, <2>3
  <2> HIDE DEF k
  <2>6. o \div c = m /\ o % c = k
    BY <1>1, <2>2, <2>5, QuotientIs
  <2>7. o \in 0..MaxSize + c
    <3>1. c * high \in Nat
      BY <1>1, <1>3
    <3>2. c * m < MaxSize
      BY <1>1, <1>4, <2>3, <2>4, <3>1
    <3> DEFINE cm == c * m
    <3>3. cm \in Nat /\ cm < MaxSize /\ o = cm + k
      BY <2>3, <2>5, <3>2
    <3> HIDE DEF cm
    <3> QED BY <1>1, <2>5, <3>3
  <2>8. IsBetween(o \div c, p, q) /\ IsBetween(o % c, r, t)
    BY <1>3, <2>2, <2>5, <2>6
  <2> QED BY <2>7, <2>8 DEF Rectangle, c, p, q, r, t
<1>9. ASSUME NEW o \in Rectangle(click, offset) PROVE o \in Covered(spans)
  <2>1. o \in 0..MaxSize + c /\ IsBetween(o \div c, p, q) /\ IsBetween(o % c, r, t)
    BY <1>9 DEF Rectangle, c, p, q, r, t
  <2>2. o \in Nat
    BY <1>1, <2>1
  <2> DEFINE m == o \div c
             k == o % c
             i == m - low + 1
  <2>3. m \in Nat /\ k \in 0..c - 1 /\ o = c * m + k
    BY <1>1, <2>2, ModFacts, DivMod
  <2>4. low <= m /\ m <= high /\ left <= k /\ k <= right
    BY <1>3, <2>1, <2>3
  <2> HIDE DEF m, k
  <2>5. i \in 1..high - low + 1
    BY <1>3, <2>3, <2>4
  <2>6. c * m = c * low + c * (i - 1) /\ c * low \in Nat /\ c * (i - 1) \in Nat
    BY <1>1, <1>3, <2>3, <2>4
  <2> HIDE DEF i
  <2>7. o \in (c * low + left + c * (i - 1))..(c * low + c * (i - 1) + right)
    BY <1>1, <1>3, <2>2, <2>3, <2>4, <2>6
  <2>8. o \in spans[i].ullOffset..(spans[i].ullOffset + spans[i].ullSize - 1)
    BY <1>7, <2>5, <2>7
  <2> QED BY <1>6, <2>5, <2>8 DEF Covered
<1> QED BY <1>8, <1>9 DEF spans

\* Only a drag moves the mouse's cursor and selects several spans at once.
LEMMA OnlyDragsSelectRows ==
  ASSUME NavInv, FittingNext, cursorNow' # cursorNow, Len(sel') > 1
  PROVE  \E hit \in Hits : OnMouseMove(hit)
<1>1. ASSUME NEW o, NEW n PROVE Len(One(o, n)) = 1
  BY DEF One
<1>2. Len(<<>>) = 0
  OBVIOUS
<1>3. ~DataNext
  <2>1. ASSUME ClearedState PROVE FALSE
    BY <1>2, <2>1 DEF ClearedState, ClearAll
  <2>2. ASSUME UNCHANGED cursorVars PROVE FALSE
    BY <2>2 DEF cursorVars
  <2> QED BY <2>1, <2>2 DEF DataNext, ClearData, SetData, AdjustData, SetMutable
<1>4. ~LayoutNext /\ ~ClientNext
  BY DEF LayoutNext, SetCapacity, SetGroupSize, SetPageSize, ClientNext, SetCaretPos,
         ClientSelection, caretElse, cursorVars
<1>5. ~CaretNext
  BY DEF CaretNext, CaretMoveDown, CaretMoveUp, CaretMoveLeft, CaretMoveRight, CaretTo,
         CaretToDataBeg, CaretToDataEnd, CaretToLineBeg, CaretToLineEnd, CaretToPageBeg,
         CaretToPageEnd, caretElse, cursorVars
<1>6. ~FittingSelectNext
  BY DEF FittingSelectNext, SelAddDown, SelAddLeft, SelAddRight, SelAddUp, SelAdd, SelAll,
         SelMarkStart, SelMarkEnd, selElse, cursorVars
<1>7. FittingMouseNext
  BY <1>3, <1>4, <1>5, <1>6 DEF FittingNext
<1>8. ASSUME NEW hit \in Hits, NEW shift \in BOOLEAN, NEW alt \in BOOLEAN,
             OnLButtonDown(hit, shift, alt)
      PROVE  FALSE
  <2>1. (\E o, n : sel' = One(o, n)) \/ sel' = <<>>
    BY <1>8 DEF OnLButtonDown
  <2>2. CASE \E o, n : sel' = One(o, n)
    <3>1. Len(sel') = 1
      BY <1>1, <2>2, Zenon
    <3> QED BY <3>1
  <2>3. CASE sel' = <<>>
    <3>1. Len(sel') = 0
      BY <1>2, <2>3, Zenon
    <3> QED BY <3>1
  <2> QED BY <2>1, <2>2, <2>3, Zenon
<1>9. ASSUME NEW hit \in Hits, NEW shift \in BOOLEAN, NEW alt \in BOOLEAN,
             OnLButtonDblClk(hit, shift, alt)
      PROVE  FALSE
  <2>1. IsDataSet
    <3>1. hit.offset \in Nat
      BY HitFacts
    <3>2. dataSize \in Nat /\ hit.offset < dataSize
      BY <1>9 DEF OnLButtonDblClk, HitTest, NavInv, TypeOK
    <3> QED BY <3>1, <3>2 DEF IsDataSet
  <2>2. \E o, n : sel' = One(o, n)
    BY <1>9, <2>1 DEF OnLButtonDblClk, SetSelection
  <2>3. Len(sel') = 1
    BY <1>1, <2>2, Zenon
  <2> QED BY <2>3
<1>10. ~OnLButtonUp
  BY DEF OnLButtonUp, cursorVars
<1> QED BY <1>7, <1>8, <1>9, <1>10 DEF FittingMouseNext

\* A block drag selects the rectangle whose opposite corners are the anchor
\* and the byte under the mouse (OnMouseMove), whatever the row length and
\* whichever corner the drag started from.
THEOREM NavBlockIsRectangle == FittingSpec => BlockIsRectangle
<1>1. NavInv /\ [FittingNext]_vars
        => [(lmbDown /\ selBlock /\ cursorNow' # cursorNow /\ cursorPrev' = cursorPrev
               /\ lmbDown' /\ selBlock' /\ sel' # sel /\ Len(sel') > 1)
              => Covered(sel') = Rectangle(cursorPrev, cursorNow')]_vars
  <2> SUFFICES ASSUME NavInv, FittingNext, selBlock, cursorNow' # cursorNow, Len(sel') > 1
               PROVE  Covered(sel') = Rectangle(cursorPrev, cursorNow')
    OBVIOUS
  <2>1. PICK hit \in Hits : OnMouseMove(hit)
    BY OnlyDragsSelectRows
  <2>2. hit.offset \in Nat
    BY HitFacts
  <2>3. /\ dataSize \in Nat /\ dataSize <= MaxSize /\ capacity \in Nat \ {0}
        /\ hit.offset < dataSize /\ IsDataSet /\ cursorPrev \in Nat /\ cursorPrev < dataSize
    BY <2>1, <2>2, NavAssumption
       DEF OnMouseMove, HitTest, NavInv, TypeOK, CursorsInData, IsDataSet
  <2>4. cursorNow' = hit.offset /\ sel' = BlockSpans(cursorPrev, hit.offset)
    BY <2>1, <2>3 DEF OnMouseMove, SetSelection
  <2>5. hit.offset \in 0..MaxSize - 1 /\ cursorPrev \in 0..MaxSize - 1
    BY <2>2, <2>3, NavAssumption
  <2> QED BY <2>3, <2>4, <2>5, BlockCovers
<1> QED BY <1>1, NavInit, NavStep, PTL DEF FittingSpec, BlockIsRectangle

-----------------------------------------------------------------------------
(* The Go To dialog: its unsigned arithmetic lands where a reader of the   *)
(* dialog expects, for every size of data and page.  With the caret in the *)
(* data no sum or difference modulo 2^64 is taken for an offset of the     *)
(* data that was not asked for.                                            *)

GoTypeOK ==
  /\ goText \in Nat \cup {NoNumber}
  /\ goMode \in OffsetModes \cup PageModes

GoInv == NavInv /\ GoTypeOK

-----------------------------------------------------------------------------
(* Arithmetic                                                              *)

\* A number above -Modulus and below Modulus, modulo Modulus.
LEMMA WrapFacts ==
  ASSUME NEW t \in Int, MaxSize - Modulus <= t, t < Modulus
  PROVE  /\ Wrap(t) \in Nat
         /\ t >= 0 => Wrap(t) = t
         /\ t < 0 => Wrap(t) >= MaxSize
<1>1. Modulus \in Nat /\ Modulus > 0 /\ MaxSize \in Nat
  BY NavAssumption
<1>2. CASE t >= 0
  <2>1. t % Modulus = t
    BY <1>1, <1>2
  <2> QED BY <1>2, <2>1 DEF Wrap
<1>3. CASE t < 0
  <2>1. t % Modulus = t + Modulus
    BY <1>1, <1>3
  <2> QED BY <1>1, <1>3, <2>1 DEF Wrap
<1> QED BY <1>2, <1>3

\* The first byte of the page the last byte is in.
LEMMA LastPageFacts ==
  ASSUME dataSize \in Nat \ {0}, pageSize \in Nat \ {0}
  PROVE  /\ LastPage \in Nat
         /\ LastPage * pageSize
              = dataSize - (IF dataSize % pageSize > 0 THEN dataSize % pageSize ELSE pageSize)
<1> DEFINE q == dataSize \div pageSize
           r == dataSize % pageSize
<1>1. q \in Nat /\ r \in 0..pageSize - 1 /\ dataSize = pageSize * q + r
  BY ModFacts, DivMod
<1> HIDE DEF q, r
<1>2. CASE r > 0
  <2>1. dataSize - 1 \in Nat /\ r - 1 \in 0..pageSize - 1 /\ dataSize - 1 = pageSize * q + (r - 1)
    BY <1>1, <1>2
  <2>2. (dataSize - 1) \div pageSize = q
    BY <1>1, <2>1, QuotientIs
  <2>3. LastPage = q
    BY <2>2 DEF LastPage
  <2> QED BY <1>1, <1>2, <2>3 DEF r
<1>3. CASE r = 0
  <2>1. q - 1 \in Nat
    <3>1. q # 0
      BY <1>1, <1>3
    <3> QED BY <1>1, <3>1
  <2>2. pageSize * q = pageSize * (q - 1) + pageSize
    BY <1>1, <2>1
  <2>3. /\ dataSize - 1 \in Nat /\ pageSize - 1 \in 0..pageSize - 1
        /\ dataSize - 1 = pageSize * (q - 1) + (pageSize - 1)
    BY <1>1, <1>3, <2>1, <2>2
  <2>4. (dataSize - 1) \div pageSize = q - 1
    BY <2>1, <2>3, QuotientIs
  <2>5. LastPage = q - 1
    BY <2>4 DEF LastPage
  <2>6. LastPage * pageSize = dataSize - pageSize
    BY <1>1, <1>3, <2>1, <2>2, <2>5
  <2> QED BY <1>3, <2>1, <2>5, <2>6 DEF r
<1> QED BY <1>1, <1>2, <1>3

-----------------------------------------------------------------------------
(* One Go To                                                               *)

\* Where GoTo goes if its target is t and t does not wrap.
LEMMA WrappedTarget ==
  ASSUME NavInv, NEW t \in Int, MaxSize - Modulus <= t, t < Modulus
  PROVE  /\ Wrap(t) \in Nat
         /\ Wrap(t) < dataSize <=> t \in 0..dataSize - 1
         /\ t \in 0..dataSize - 1 => Wrap(t) = t
<1>1. dataSize \in 0..MaxSize /\ MaxSize \in Nat
  BY NavAssumption DEF NavInv, TypeOK
<1> QED BY <1>1, WrapFacts

Requests == [mode : OffsetModes \cup PageModes, n : Nat, sign : {1, -1}]

\* GoTo's result is its target modulo 2^64, and the target is near enough.
LEMMA ResultOfTarget ==
  ASSUME NavInv, IsDataSet, NEW x \in Requests, Countable(x), NEW t, t = Target(x)
  PROVE  /\ t \in Int /\ MaxSize - Modulus <= t /\ t < Modulus
         /\ GoToResult(x.mode, x.n, x.sign) = Wrap(t)
<1> DEFINE mode == x.mode
           n == x.n
           sign == x.sign
           p == n * pageSize
<1>1. mode \in OffsetModes \cup PageModes /\ n \in Nat /\ sign \in {1, -1}
  BY DEF Requests
<1>2. /\ dataSize \in Nat \ {0} /\ dataSize <= MaxSize /\ caretPos \in Nat /\ caretPos < dataSize
      /\ pageSize \in Nat /\ MaxSize \in Nat /\ Modulus \in Nat /\ Modulus > 2 * MaxSize
  BY NavAssumption DEF NavInv, TypeOK, CursorsInData, IsDataSet
<1>3. /\ n <= MaxSize /\ p \in Nat /\ p < Modulus - MaxSize
      /\ mode \in PageModes => pageSize \in Nat \ {0}
  BY <1>1, <1>2 DEF Countable
<1>4. /\ n * sign = sign * n /\ n * pageSize * sign = sign * n * pageSize
      /\ sign = 1 => sign * n = n /\ sign * n * pageSize = p
      /\ sign = -1 => sign * n = -n /\ sign * n * pageSize = -p
  BY <1>1, <1>2
<1> HIDE DEF mode, n, sign, p
<1> DEFINE rem == IF pageSize > 0 THEN dataSize % pageSize ELSE 0
           last == IF rem > 0 THEN rem ELSE pageSize
<1>5. CASE mode = "OFFSET"
  <2>1. t = n /\ GoToResult(mode, n, sign) = Wrap(n)
    BY <1>5, Zenon DEF Target, GoToResult, mode, n, sign
  <2>2. t = n
    BY <1>1, <1>2, <1>4, <2>1
  <2>3. t \in Int /\ MaxSize - Modulus <= t /\ t < Modulus
    BY <1>1, <1>2, <1>3, <1>4, <2>1
  <2> QED BY <2>1, <2>2, <2>3 DEF mode, n, sign
<1>6. CASE mode = "OFFSETFWD"
  <2>1. t = caretPos + sign * n /\ GoToResult(mode, n, sign) = Wrap(caretPos + n * sign)
    BY <1>6, Zenon DEF Target, GoToResult, mode, n, sign
  <2>2. t = caretPos + n * sign
    BY <1>1, <1>2, <1>4, <2>1
  <2>3. t \in Int /\ MaxSize - Modulus <= t /\ t < Modulus
    BY <1>1, <1>2, <1>3, <1>4, <2>1
  <2> QED BY <2>1, <2>2, <2>3 DEF mode, n, sign
<1>7. CASE mode = "OFFSETBACK"
  <2>1. t = caretPos - sign * n /\ GoToResult(mode, n, sign) = Wrap(caretPos - n * sign)
    BY <1>7, Zenon DEF Target, GoToResult, mode, n, sign
  <2>2. t = caretPos - n * sign
    BY <1>1, <1>2, <1>4, <2>1
  <2>3. t \in Int /\ MaxSize - Modulus <= t /\ t < Modulus
    BY <1>1, <1>2, <1>3, <1>4, <2>1
  <2> QED BY <2>1, <2>2, <2>3 DEF mode, n, sign
<1>8. CASE mode = "OFFSETEND"
  <2>1. t = dataSize - 1 - n /\ GoToResult(mode, n, sign) = Wrap(dataSize - n - 1)
    BY <1>8, Zenon DEF Target, GoToResult, mode, n, sign
  <2>2. t = dataSize - n - 1
    BY <1>1, <1>2, <1>4, <2>1
  <2>3. t \in Int /\ MaxSize - Modulus <= t /\ t < Modulus
    BY <1>1, <1>2, <1>3, <1>4, <2>1
  <2> QED BY <2>1, <2>2, <2>3 DEF mode, n, sign
<1>9. CASE mode = "PAGE"
  <2>1. t = n * pageSize /\ GoToResult(mode, n, sign) = Wrap(n * pageSize)
    BY <1>9, Zenon DEF Target, GoToResult, mode, n, sign
  <2>2. t = n * pageSize
    BY <1>1, <1>2, <1>4, <2>1
  <2>3. t \in Int /\ MaxSize - Modulus <= t /\ t < Modulus
    BY <1>1, <1>2, <1>3, <1>4, <2>1 DEF p
  <2> QED BY <2>1, <2>2, <2>3 DEF mode, n, sign
<1>10. CASE mode = "PAGEFWD"
  <2>1. t = caretPos + sign * n * pageSize /\ GoToResult(mode, n, sign) = Wrap(caretPos + n * pageSize * sign)
    BY <1>10, Zenon DEF Target, GoToResult, mode, n, sign
  <2>2. t = caretPos + n * pageSize * sign
    BY <1>1, <1>2, <1>4, <2>1
  <2>3. t \in Int /\ MaxSize - Modulus <= t /\ t < Modulus
    BY <1>1, <1>2, <1>3, <1>4, <2>1 DEF p
  <2> QED BY <2>1, <2>2, <2>3 DEF mode, n, sign
<1>11. CASE mode = "PAGEBACK"
  <2>1. t = caretPos - sign * n * pageSize /\ GoToResult(mode, n, sign) = Wrap(caretPos - n * pageSize * sign)
    BY <1>11, Zenon DEF Target, GoToResult, mode, n, sign
  <2>2. t = caretPos - n * pageSize * sign
    BY <1>1, <1>2, <1>4, <2>1
  <2>3. t \in Int /\ MaxSize - Modulus <= t /\ t < Modulus
    BY <1>1, <1>2, <1>3, <1>4, <2>1 DEF p
  <2> QED BY <2>1, <2>2, <2>3 DEF mode, n, sign
<1>12. CASE mode = "PAGEEND"
  <2>1. t = (LastPage - n) * pageSize /\ GoToResult(mode, n, sign) = Wrap(dataSize - last - n * pageSize)
    BY <1>12, Zenon DEF Target, GoToResult, mode, n, sign
  <2>2. pageSize \in Nat \ {0}
    BY <1>3, <1>12 DEF PageModes
  <2>3. LastPage \in Nat /\ LastPage * pageSize = dataSize - last
    BY <1>2, <2>2, LastPageFacts
  <2>4. dataSize - last \in Nat /\ dataSize - last <= dataSize
    <3>1. last \in Nat /\ LastPage * pageSize \in Nat
      BY <1>2, <2>2, <2>3, ModFacts
    <3> QED BY <1>2, <2>3, <3>1
  <2>5. t = dataSize - last - p
    BY <1>1, <1>2, <2>1, <2>2, <2>3 DEF p
  <2> HIDE DEF last
  <2> QED BY <1>1, <1>2, <1>3, <2>1, <2>4, <2>5 DEF p, mode, n, sign
<1> QED BY <1>1, <1>5, <1>6, <1>7, <1>8, <1>9, <1>10, <1>11, <1>12 DEF OffsetModes, PageModes

\* A result that is an offset of the data is a number, whatever was asked.
LEMMA ResultType ==
  ASSUME NavInv, NEW mode \in OffsetModes \cup PageModes, NEW n \in Nat, NEW sign \in {1, -1}
  PROVE  GoToResult(mode, n, sign) \in Nat
<1>1. \A t \in Int : Wrap(t) \in Nat
  BY NavAssumption DEF Wrap
<1>2. dataSize \in Nat /\ caretPos \in Nat /\ pageSize \in Nat
  BY NavAssumption DEF NavInv, TypeOK
<1> DEFINE p == n * pageSize
           rem == IF pageSize > 0 THEN dataSize % pageSize ELSE 0
<1>3. p \in Nat /\ n * sign \in Int /\ p * sign \in Int /\ rem \in Nat
  BY <1>2
<1> HIDE DEF p, rem
<1>4. CASE mode = "OFFSET"
  <2>1. GoToResult(mode, n, sign) = Wrap(n)
    BY <1>4, Zenon DEF GoToResult
  <2> QED BY <1>1, <1>2, <1>3, <2>1
<1>5. CASE mode = "OFFSETFWD"
  <2>1. GoToResult(mode, n, sign) = Wrap(caretPos + n * sign)
    BY <1>5, Zenon DEF GoToResult
  <2> QED BY <1>1, <1>2, <1>3, <2>1
<1>6. CASE mode = "OFFSETBACK"
  <2>1. GoToResult(mode, n, sign) = Wrap(caretPos - n * sign)
    BY <1>6, Zenon DEF GoToResult
  <2> QED BY <1>1, <1>2, <1>3, <2>1
<1>7. CASE mode = "OFFSETEND"
  <2>1. GoToResult(mode, n, sign) = Wrap(dataSize - n - 1)
    BY <1>7, Zenon DEF GoToResult
  <2> QED BY <1>1, <1>2, <1>3, <2>1
<1>8. CASE mode = "PAGE"
  <2>1. GoToResult(mode, n, sign) = Wrap(p)
    BY <1>8, Zenon DEF GoToResult, p
  <2> QED BY <1>1, <1>2, <1>3, <2>1
<1>9. CASE mode = "PAGEFWD"
  <2>1. GoToResult(mode, n, sign) = Wrap(caretPos + p * sign)
    BY <1>9, Zenon DEF GoToResult, p
  <2> QED BY <1>1, <1>2, <1>3, <2>1
<1>10. CASE mode = "PAGEBACK"
  <2>1. GoToResult(mode, n, sign) = Wrap(caretPos - p * sign)
    BY <1>10, Zenon DEF GoToResult, p
  <2> QED BY <1>1, <1>2, <1>3, <2>1
<1>11. CASE mode = "PAGEEND"
  <2>1. GoToResult(mode, n, sign) = Wrap(dataSize - (IF rem > 0 THEN rem ELSE pageSize) - p)
    BY <1>11, Zenon DEF GoToResult, p, rem
  <2> QED BY <1>1, <1>2, <1>3, <2>1
<1> QED BY <1>4, <1>5, <1>6, <1>7, <1>8, <1>9, <1>10, <1>11 DEF OffsetModes, PageModes

\* A step of the dialog that is no Go To leaves caret and data alone; a Go To
\* places the caret as a client may.
LEMMA GoToStep ==
  ASSUME GoInv, NEW sign \in {1, -1}, GoTo(sign)
  PROVE  Lands(asked') /\ GoInv'
<1> DEFINE result == GoToResult(goMode, goText, sign)
           ready == IsDataSet /\ goText # NoNumber
           x == [mode |-> goMode, n |-> goText, sign |-> sign]
<1>1. NavInv /\ goText \in Nat \cup {NoNumber} /\ goMode \in OffsetModes \cup PageModes
  BY DEF GoInv, GoTypeOK
<1>2. UNCHANGED <<goText, goMode, hasPages>> /\ asked' = IF ready THEN x ELSE NotAsked
  BY DEF GoTo
<1>3. GoTypeOK'
  BY <1>1, <1>2 DEF GoTypeOK
<1>4. CASE ~(ready /\ result < dataSize)
  <2>1. UNCHANGED vars
    BY <1>4 DEF GoTo
  <2>2. NavInv'
    BY <1>1, <2>1, NavStep
  <2>3. Lands(asked')
    <3>1. caretPos' = caretPos
      BY <2>1 DEF vars, caretVars
    <3>2. CASE ~ready
      <4>1. asked'.mode = "none"
        BY <1>2, <3>2 DEF NotAsked
      <4> QED BY <4>1 DEF Lands, Countable
    <3>3. CASE ready /\ Countable(x)
      <4>1. x \in Requests /\ asked' = x
        BY <1>1, <1>2, <3>3 DEF Requests
      <4>2. /\ Target(x) \in Int /\ MaxSize - Modulus <= Target(x) /\ Target(x) < Modulus
            /\ result = Wrap(Target(x))
        BY <1>1, <3>3, <4>1, ResultOfTarget
      <4>3. Target(x) \notin 0..dataSize - 1
        BY <1>1, <1>4, <3>3, <4>2, WrappedTarget
      <4> QED BY <3>1, <4>1, <4>3 DEF Lands
    <3>4. CASE ready /\ ~Countable(x)
      BY <1>2, <3>4 DEF Lands
    <3> QED BY <3>2, <3>3, <3>4
  <2> QED BY <1>3, <2>2, <2>3 DEF GoInv
<1>5. CASE ready /\ result < dataSize
  <2>1. SetCaretPos(result, TRUE) /\ asked' = x
    BY <1>2, <1>5 DEF GoTo
  <2>2. caretPos' = result
    BY <1>5, <2>1 DEF SetCaretPos, PlaceCaret
  <2>3. Lands(asked')
    <3>1. CASE Countable(x)
      <4>1. x \in Requests
        BY <1>1, <1>5 DEF Requests
      <4>2. /\ Target(x) \in Int /\ MaxSize - Modulus <= Target(x) /\ Target(x) < Modulus
            /\ result = Wrap(Target(x))
        BY <1>1, <1>5, <3>1, <4>1, ResultOfTarget
      <4>3. Target(x) \in 0..dataSize - 1 /\ result = Target(x)
        BY <1>1, <1>5, <4>2, WrappedTarget
      <4> QED BY <2>1, <2>2, <4>3 DEF Lands
    <3>2. CASE ~Countable(x)
      BY <2>1, <3>2 DEF Lands
    <3> QED BY <3>1, <3>2
  <2>4. NavInv'
    <3>1. result \in Nat
      BY <1>1, <1>5, ResultType
    <3>2. result \in 0..MaxSize
      BY <1>1, <1>5, <3>1, NavAssumption DEF NavInv, TypeOK
    <3>3. ClientNext
      BY <2>1, <3>2 DEF ClientNext
    <3> QED BY <1>1, <3>3, NavClient
  <2> QED BY <1>3, <2>3, <2>4 DEF GoInv
<1> QED BY <1>4, <1>5

\* Every step keeps the invariant, and every Go To lands.
LEMMA GoStep ==
  ASSUME GoInv, [FittingGoNext]_<<vars, goVars>>
  PROVE  GoInv' /\ [Lands(asked')]_<<vars, goVars>>
<1>1. ASSUME asked' = NotAsked PROVE Lands(asked')
  <2>1. asked'.mode = "none"
    BY <1>1 DEF NotAsked
  <2> QED BY <2>1 DEF Lands, Countable
<1>2. ASSUME UNCHANGED vars PROVE NavInv'
  BY <1>2, NavStep DEF GoInv
<1>3. CASE OnActivateGoTo
  <2>1. goMode' \in {goMode, "OFFSETEND"} /\ goText' = goText /\ UNCHANGED vars /\ asked' = NotAsked
    BY <1>3 DEF OnActivateGoTo, UpdateComboMode
  <2> QED BY <1>1, <1>2, <2>1 DEF GoInv, GoTypeOK, OffsetModes
<1>4. CASE OnOKGoTo
  BY <1>4, GoToStep DEF OnOKGoTo
<1>5. ASSUME NEW sign \in {1, -1}, Repeat(sign) PROVE GoInv' /\ Lands(asked')
  BY <1>5, GoToStep DEF Repeat
<1>6. ASSUME NEW text \in GoToTexts, EnterGoTo(text) PROVE GoInv' /\ Lands(asked')
  <2>1. goText' \in Nat \cup {NoNumber} /\ goMode' = goMode /\ UNCHANGED vars /\ asked' = NotAsked
    BY <1>6, GoToAssumption DEF EnterGoTo, NoNumber
  <2> QED BY <1>1, <1>2, <2>1 DEF GoInv, GoTypeOK
<1>7. ASSUME NEW mode \in OffsetModes \cup PageModes, SelectMode(mode) PROVE GoInv' /\ Lands(asked')
  <2>1. goMode' = mode /\ goText' = goText /\ UNCHANGED vars /\ asked' = NotAsked
    BY <1>7 DEF SelectMode
  <2> QED BY <1>1, <1>2, <2>1 DEF GoInv, GoTypeOK
<1>8. CASE FittingNext /\ asked' = NotAsked /\ UNCHANGED <<goText, goMode, hasPages, goRepeat>>
  <2>1. NavInv'
    BY <1>8, NavStep DEF GoInv
  <2>2. goText' = goText /\ goMode' = goMode
    BY <1>8
  <2> QED BY <1>1, <1>8, <2>1, <2>2 DEF GoInv, GoTypeOK
<1>9. CASE UNCHANGED <<vars, goVars>>
  <2>1. UNCHANGED vars /\ goText' = goText /\ goMode' = goMode
    BY <1>9 DEF goVars
  <2> QED BY <1>2, <1>9, <2>1 DEF GoInv, GoTypeOK
<1> QED BY <1>3, <1>4, <1>5, <1>6, <1>7, <1>8, <1>9 DEF FittingGoNext, DialogNext

-----------------------------------------------------------------------------

\* Whatever the data, the caret, the page size and the dialog went through
\* before, OK and the repetitions in both directions move the caret to the
\* byte asked for or leave it (GoTo's unsigned sums and differences).
THEOREM GoToLands == FittingGoSpec => GoesWhereAsked
<1>1. GoInit => GoInv
  BY NavInit DEF GoInit, GoInv, GoTypeOK, OffsetModes
<1>2. GoInv /\ [FittingGoNext]_<<vars, goVars>> => GoInv' /\ [Lands(asked')]_<<vars, goVars>>
  BY GoStep
<1> QED BY <1>1, <1>2, PTL DEF FittingGoSpec, GoesWhereAsked

-----------------------------------------------------------------------------
(* Bytes of texts                                                          *)

\* Sequences of one type, one after the other, are a sequence of the type.
LEMMA FlattenType ==
  ASSUME NEW T, NEW seqs \in Seq(Seq(T))
  PROVE  FlattenSeq(seqs) \in Seq(T)
<1> DEFINE n == Len(seqs)
<1>1. CASE n = 0
  <2>1. FlattenSeq(seqs) = seqs /\ seqs = <<>>
    BY <1>1 DEF FlattenSeq
  <2> QED BY <2>1
<1>2. CASE n # 0
  <2>1. n \in Nat \ {0} /\ \A i \in 1..n : seqs[i] \in Seq(T)
    BY <1>2
  <2>2. PICK c : Flattens(c, seqs)
    BY <1>2, FlattenIs
  <2> DEFINE Bad == {i \in 1..n : c[i] \notin Seq(T)}
  <2>3. Bad = {}
    <3> SUFFICES ASSUME Bad # {} PROVE FALSE
      OBVIOUS
    <3>1. PICK i \in Bad : \A j \in Bad : i <= j
      <4>1. Bad \in SUBSET Nat
        OBVIOUS
      <4> HIDE DEF Bad
      <4> QED BY <4>1, LeastOf
    <3>2. CASE i = 1
      BY <2>1, <2>2, <3>1, <3>2 DEF Flattens
    <3>3. CASE i # 1
      <4>1. i \in 2..n /\ i - 1 \in 1..n /\ ~(i <= i - 1)
        BY <2>1, <3>1, <3>3
      <4>2. i - 1 \notin Bad
        <5> HIDE DEF Bad
        <5> QED BY <3>1, <4>1
      <4>3. c[i - 1] \in Seq(T) /\ seqs[i] \in Seq(T) /\ c[i] = c[i - 1] \o seqs[i]
        BY <2>1, <2>2, <4>1, <4>2 DEF Flattens
      <4>4. c[i] \in Seq(T)
        BY <4>3, ConcatProperties
      <4> QED BY <3>1, <4>4
    <3> QED BY <3>2, <3>3
  <2>4. c[n] \in Seq(T)
    BY <2>1, <2>3
  <2> QED BY <2>2, <2>4 DEF Flattens
<1> QED BY <1>1, <1>2

LEMMA ReverseType ==
  ASSUME NEW T, NEW seq \in Seq(T)
  PROVE  Reverse(seq) \in Seq(T)
BY DEF Reverse

LEMMA OrderedType ==
  ASSUME NEW bytes \in Seq(Nat), NEW bigEndian
  PROVE  Ordered(bytes, bigEndian) \in Seq(Nat)
BY ReverseType DEF Ordered

\* The powers up to a size: a product of that many factors.
Powers(f, size) ==
  /\ f \in [0..size -> Nat \ {0}]
  /\ f[0] = 1
  /\ \A k \in 1..size : f[k] = ByteValues * f[k - 1]

LEMMA ValuesAre ==
  ASSUME NEW size \in Nat
  PROVE  \E f : Powers(f, size) /\ f[size] = Values(size)
<1> DEFINE S == Nat \ {0}
           c == ByteValues
           one == 1
           F == [k \in 1..size |-> [p \in S |-> c * p]]
           G(product) == [k \in 0..size |-> IF k = 0 THEN one ELSE c * product[k - 1]]
           power == CHOOSE product : product = G(product)
<1>1. c \in S /\ one \in S
  BY RowsAssumption DEF ByteValues
<1>2. Values(size) = power[size]
  BY Zenon DEF Values
<1> HIDE DEF c, one
<1>3. \A p \in S : c * p \in S
  BY <1>1
<1>4. F \in [1..size -> [S -> S]]
  BY <1>3
<1>5. PICK f \in [0..size -> S] : Recurs(f, size, one, F)
  <2> HIDE DEF F, S
  <2> QED BY <1>1, <1>4, RecursionExists
<1>6. f = G(f)
  <2>1. ASSUME NEW k \in 1..size PROVE f[k] = c * f[k - 1]
    <3>1. k - 1 \in 0..size
      BY <2>1
    <3> QED BY <1>5, <2>1, <3>1 DEF Recurs
  <2>2. f[0] = one
    BY <1>5 DEF Recurs
  <2> QED BY <2>1, <2>2
<1>7. power = G(power)
  <2> HIDE DEF G
  <2> QED BY <1>6, Zenon
<1>8. \A k \in 0..size : power[k] = IF k = 0 THEN one ELSE c * power[k - 1]
  <2> HIDE DEF power
  <2> QED BY <1>7
<1> DEFINE Bad == {k \in 0..size : power[k] \notin S}
<1>9. Bad = {}
  <2> HIDE DEF power
  <2> SUFFICES ASSUME Bad # {} PROVE FALSE
    OBVIOUS
  <2>1. PICK k \in Bad : \A j \in Bad : k <= j
    <3>1. Bad \in SUBSET Nat
      OBVIOUS
    <3> HIDE DEF Bad
    <3> QED BY <3>1, LeastOf
  <2>2. k # 0
    BY <1>1, <1>8, <2>1
  <2>3. k - 1 \in 0..size /\ ~(k <= k - 1)
    BY <2>1, <2>2
  <2>4. power[k - 1] \in S
    BY <2>1, <2>3
  <2>5. power[k] \in S
    BY <1>3, <1>8, <2>1, <2>2, <2>4
  <2> QED BY <2>1, <2>5
<1>10. power \in [0..size -> S]
  <2> HIDE DEF power
  <2> QED BY <1>7, <1>9
<1>11. power[0] = one /\ \A k \in 1..size : power[k] = c * power[k - 1]
  <2> HIDE DEF power
  <2> QED BY <1>8
<1> QED BY <1>2, <1>10, <1>11 DEF Powers, c, one

\* Each byte more has all values of a byte for each of the others.
LEMMA ValuesFacts ==
  ASSUME NEW size \in Nat
  PROVE  /\ Values(size) \in Nat \ {0}
         /\ Values(0) = 1
         /\ Values(size + 1) = ByteValues * Values(size)
<1>1. PICK f : Powers(f, size) /\ f[size] = Values(size)
  BY ValuesAre
<1>2. size + 1 \in Nat
  OBVIOUS
<1>3. PICK g : Powers(g, size + 1) /\ g[size + 1] = Values(size + 1)
  BY <1>2, ValuesAre
<1>4. PICK z : Powers(z, 0) /\ z[0] = Values(0)
  BY ValuesAre
<1> DEFINE Bad == {k \in 0..size : g[k] # f[k]}
<1>5. Bad = {}
  <2> SUFFICES ASSUME Bad # {} PROVE FALSE
    OBVIOUS
  <2>1. PICK k \in Bad : \A j \in Bad : k <= j
    <3>1. Bad \in SUBSET Nat
      OBVIOUS
    <3> HIDE DEF Bad
    <3> QED BY <3>1, LeastOf
  <2>2. k # 0
    BY <1>1, <1>3, <2>1 DEF Powers
  <2>3. k \in 1..size /\ k \in 1..size + 1 /\ k - 1 \in 0..size /\ ~(k <= k - 1)
    BY <2>1, <2>2
  <2>4. g[k - 1] = f[k - 1]
    BY <2>1, <2>3
  <2>5. g[k] = f[k]
    BY <1>1, <1>3, <2>3, <2>4 DEF Powers
  <2> QED BY <2>1, <2>5
<1>6. g[size] = f[size] /\ f[size] \in Nat \ {0}
  BY <1>1, <1>5 DEF Powers
<1>7. g[size + 1] = ByteValues * g[size]
  BY <1>3 DEF Powers
<1> QED BY <1>1, <1>3, <1>4, <1>6, <1>7 DEF Powers

\* The version of a GUID is the highest half of two bytes.
LEMMA VersionType == Version \in Nat \ {0}
<1> DEFINE h == HalfValues
           q == h * h * h
<1>1. h \in Nat \ {0}
  BY RowsAssumption
<1>2. Values(1) = ByteValues * 1 /\ Values(1 + 1) = ByteValues * Values(1)
  <2>1. Values(0) = 1 /\ Values(0 + 1) = ByteValues * Values(0)
    BY ValuesFacts
  <2>2. 0 + 1 = 1
    OBVIOUS
  <2> QED BY <2>1, <2>2, ValuesFacts
<1>3. Values(2) = h * q + 0
  <2>1. 1 + 1 = 2
    OBVIOUS
  <2> QED BY <1>1, <1>2, <2>1 DEF ByteValues
<1>4. q \in Nat \ {0} /\ Values(2) \in Nat
  <2>1. h * h \in Nat \ {0}
    BY <1>1
  <2>2. q \in Nat \ {0}
    BY <1>1, <2>1
  <2> QED BY <2>2, ValuesFacts
<1> HIDE DEF q
<1>5. Values(2) \div h = q
  BY <1>1, <1>3, <1>4, QuotientIs
<1> QED BY <1>4, <1>5 DEF Version

\* The weekday is in the three highest bits of four bytes.
LEMMA WeekdayType == Weekday \in Nat \ {0}
<1> DEFINE c == ByteValues
           h == HalfValues
<1>1. h \in Nat /\ h >= 2
  BY RowsAssumption
<1>2. c \in Nat /\ c >= 4
  <2>1. h * 2 <= h * h /\ h * h \in Nat
    BY <1>1, MulMono
  <2> QED BY <1>1, <2>1 DEF ByteValues
<1> HIDE DEF c
<1>3. ASSUME NEW size \in Nat PROVE Values(size + 1) = c * Values(size) /\ Values(size + 1) >= 4 * Values(size)
  <2>1. Values(size) \in Nat /\ Values(size + 1) = c * Values(size)
    BY ValuesFacts DEF c
  <2>2. Values(size) * 4 <= Values(size) * c
    BY <1>2, <2>1, MulMono
  <2> QED BY <1>2, <2>1, <2>2
<1>4. \A size \in Nat : Values(size) \in Nat /\ Values(size) >= 1
  BY ValuesFacts
<1>5. Values(4) \in Nat /\ Values(4) >= 8
  <2>1. Values(2 + 1) >= 4 * Values(2) /\ Values(3 + 1) >= 4 * Values(3) /\ 2 + 1 = 3 /\ 3 + 1 = 4
    BY <1>3
  <2>2. Values(3) \in Nat /\ Values(4) \in Nat /\ Values(2) \in Nat /\ Values(2) >= 1
    BY <1>4
  <2> QED BY <2>1, <2>2
<1> QED BY <1>5 DEF Weekday

LEMMA BytesOfType ==
  ASSUME NEW number \in Int, NEW size \in Nat
  PROVE  BytesOf(number, size) \in Seq(Nat)
<1>1. ByteValues \in Nat \ {0}
  BY RowsAssumption DEF ByteValues
<1>2. ASSUME NEW i \in 1..size PROVE (number \div Values(i - 1)) % ByteValues \in Nat
  <2>1. Values(i - 1) \in Nat \ {0}
    BY ValuesFacts
  <2> QED BY <1>1, <2>1
<1> QED BY <1>2 DEF BytesOf

LEMMA SubSeqType ==
  ASSUME NEW T, NEW seq \in Seq(T), NEW m \in 1..Len(seq) + 1, NEW n \in 0..Len(seq)
  PROVE  SubSeq(seq, m, n) \in Seq(T)
BY SubSeqProperties

\* The year and the month of a SYSTEMTIME, no weekday, and the rest.
LEMMA SystemBytesType ==
  ASSUME NEW text \in Seq(Nat), Len(text) >= 7, NEW bigEndian
  PROVE  SystemBytes(text, bigEndian) \in Seq(Nat)
<1> DEFINE words == <<text[1], text[2], 0>> \o SubSeq(text, 3, 7)
           halves == [i \in 1..8 |-> Ordered(BytesOf(words[i], 2), bigEndian)]
<1>1. text[1] \in Nat /\ text[2] \in Nat
  OBVIOUS
<1>2. SubSeq(text, 3, 7) \in Seq(Nat) /\ Len(SubSeq(text, 3, 7)) = 5
  <2>1. \A i \in 3..7 : text[i] \in Nat
    OBVIOUS
  <2> QED BY <2>1, SubSeqProperties
<1>3. <<text[1], text[2], 0>> \in Seq(Nat) /\ Len(<<text[1], text[2], 0>>) = 3
  BY <1>1
<1>4. words \in Seq(Nat) /\ Len(words) >= 8
  BY <1>2, <1>3, ConcatProperties
<1> HIDE DEF words
<1>5. ASSUME NEW i \in 1..8 PROVE Ordered(BytesOf(words[i], 2), bigEndian) \in Seq(Nat)
  <2>1. words[i] \in Nat
    BY <1>4
  <2> DEFINE word == words[i]
  <2>2. word \in Int /\ 2 \in Nat
    BY <2>1
  <2> HIDE DEF word
  <2>3. BytesOf(word, 2) \in Seq(Nat)
    BY <2>2, BytesOfType
  <2> QED BY <2>3, OrderedType DEF word
<1>6. halves \in Seq(Seq(Nat))
  BY <1>5
<1>7. FlattenSeq(halves) \in Seq(Nat)
  <2> HIDE DEF halves
  <2> QED BY <1>6, FlattenType
<1> QED BY <1>7 DEF SystemBytes, words

LEMMA GuidBytesType ==
  ASSUME NEW guid, NEW bigEndian, SubSeq(guid, 4, 11) \in Seq(Nat),
         guid[1] \in Int, guid[2] \in Int, guid[3] \in Int
  PROVE  GuidBytes(guid, bigEndian) \in Seq(Nat)
<1> DEFINE a == Ordered(BytesOf(guid[1], 4), bigEndian)
           b == Ordered(BytesOf(guid[2], 2), bigEndian)
           c == Ordered(BytesOf(guid[3], 2), bigEndian)
           tail == SubSeq(guid, 4, 11)
<1>1. a \in Seq(Nat)
  BY BytesOfType, OrderedType
<1>2. b \in Seq(Nat)
  BY BytesOfType, OrderedType
<1>3. c \in Seq(Nat)
  BY BytesOfType, OrderedType
<1>4. GuidBytes(guid, bigEndian) = a \o b \o c \o tail /\ tail \in Seq(Nat)
  BY DEF GuidBytes
<1> HIDE DEF a, b, c, tail
<1> QED BY <1>1, <1>2, <1>3, <1>4

\* The last eight of eleven.
LEMMA LastEight ==
  ASSUME NEW T, NEW s \in Seq(T), Len(s) >= 3, Len(s) <= 3, NEW t \in Seq(T), Len(t) >= 8, Len(t) <= 8
  PROVE  /\ SubSeq(s \o t, 4, 11) = t
         /\ (s \o t)[1] = s[1] /\ (s \o t)[2] = s[2] /\ (s \o t)[3] = s[3]
<1> DEFINE st == s \o t
           n == Len(s)
           m == Len(t)
<1>1. n = 3 /\ m = 8
  <2>1. n \in Nat /\ m \in Nat /\ n >= 3 /\ n <= 3 /\ m >= 8 /\ m <= 8
    BY LenProperties
  <2> HIDE DEF n, m
  <2> QED BY <2>1
<1>2. /\ st \in Seq(T) /\ Len(st) = n + m
      /\ \A i \in 1..n + m : st[i] = IF i <= n THEN s[i] ELSE t[i - n]
  BY ConcatProperties
<1> HIDE DEF st, n, m
<1>3. Len(st) >= 11
  BY <1>1, <1>2
<1>4. \A i \in 4..11 : st[i] \in T
  BY <1>2, <1>3
<1>5. /\ SubSeq(st, 4, 11) \in Seq(T) /\ Len(SubSeq(st, 4, 11)) = 8
      /\ \A i \in 1..8 : SubSeq(st, 4, 11)[i] = st[4 + i - 1]
  BY <1>4, SubSeqProperties
<1> DEFINE r == SubSeq(st, 4, 11)
<1>6. ASSUME NEW i \in 1..8 PROVE r[i] = t[i]
  <2>1. 4 + i - 1 \in 1..n + m /\ ~(4 + i - 1 <= n) /\ (4 + i - 1) - n = i
    BY <1>1
  <2> QED BY <1>2, <1>5, <2>1
<1>7. r \in Seq(T) /\ Len(r) = Len(t)
  <2>1. Len(r) = 8 /\ m = 8
    BY <1>1, <1>5
  <2> QED BY <1>5, <2>1 DEF m
<1> HIDE DEF r
<1>8. \A i \in 1..Len(r) : r[i] = t[i]
  BY <1>1, <1>6, <1>7 DEF m
<1>9. r = t
  BY <1>7, <1>8, SeqEqual
<1>10. st[1] = s[1] /\ st[2] = s[2] /\ st[3] = s[3]
  BY <1>1, <1>2
<1> QED BY <1>9, <1>10 DEF st, r

LEMMA GuidTimeBytesType ==
  ASSUME NEW text, Ticks(text) \in Int, NEW bytes \in Seq(Nat), Len(bytes) >= 16, NEW bigEndian
  PROVE  GuidTimeBytes(text, GuidText(bytes, bigEndian), bigEndian) \in Seq(Nat)
<1> DEFINE guid == GuidText(bytes, bigEndian)
           time == Ticks(text) + GuidOffset
           tail == SubSeq(guid, 4, 11)
           u == time % Values(4)
           v == (time \div Values(4)) % Values(2)
           w == Version + ((time \div Values(6)) % Version)
<1>1. tail \in Seq(Nat) /\ Len(tail) >= 8 /\ Len(tail) <= 8
  <2> DEFINE a == NumberAt(bytes, 1, 4, bigEndian)
             b == NumberAt(bytes, 5, 2, bigEndian)
             c == NumberAt(bytes, 7, 2, bigEndian)
             T == {a, b, c} \cup Nat
             last == SubSeq(bytes, 9, 16)
  <2>1. last \in Seq(Nat) /\ Len(last) >= 8 /\ Len(last) <= 8
    <3>1. \A i \in 9..16 : bytes[i] \in Nat
      OBVIOUS
    <3> QED BY <3>1, SubSeqProperties
  <2>2. guid = <<a, b, c>> \o last
    BY DEF GuidText
  <2> HIDE DEF a, b, c, last, guid
  <2>3. <<a, b, c>> \in Seq(T) /\ Len(<<a, b, c>>) >= 3 /\ Len(<<a, b, c>>) <= 3 /\ last \in Seq(T)
    BY <2>1
  <2> HIDE DEF T
  <2> DEFINE three == <<a, b, c>>
  <2> HIDE DEF three
  <2>4. SubSeq(three \o last, 4, 11) = last
    BY <2>1, <2>3, LastEight DEF three
  <2> QED BY <2>1, <2>2, <2>4 DEF three
<1>2. time \in Int /\ Version \in Nat \ {0}
  <2>1. Version \in Nat \ {0}
    BY VersionType
  <2> QED BY <2>1, RowsAssumption
<1>3. u \in Int /\ v \in Int
  <2>1. Values(4) \in Nat \ {0} /\ Values(2) \in Nat \ {0}
    BY ValuesFacts
  <2> HIDE DEF time
  <2> QED BY <1>2, <2>1
<1>4. w \in Int
  <2>1. Values(6) \in Nat \ {0}
    BY ValuesFacts
  <2> HIDE DEF time
  <2> QED BY <1>2, <2>1
<1> HIDE DEF u, v, w, tail, guid
<1> DEFINE three == <<u, v, w>>
           new == three \o tail
<1>5. three \in Seq(Int) /\ Len(three) >= 3 /\ Len(three) <= 3 /\ tail \in Seq(Int)
  BY <1>1, <1>3, <1>4
<1>6. three[1] \in Int /\ three[2] \in Int /\ three[3] \in Int
  BY <1>3, <1>4
<1> HIDE DEF three
<1>7. SubSeq(new, 4, 11) = tail /\ new[1] = three[1] /\ new[2] = three[2] /\ new[3] = three[3]
  BY <1>1, <1>5, LastEight
<1> HIDE DEF new
<1>8. new[1] \in Int /\ new[2] \in Int /\ new[3] \in Int
  BY <1>6, <1>7
<1>9. GuidBytes(new, bigEndian) \in Seq(Nat)
  BY <1>1, <1>7, <1>8, GuidBytesType
<1>10. GuidTimeBytes(text, guid, bigEndian)
         = IF ~IsVersion1(guid) THEN <<>> ELSE GuidBytes(new, bigEndian)
  BY DEF GuidTimeBytes, new, three, u, v, w, tail
<1>11. <<>> \in Seq(Nat)
  OBVIOUS
<1> QED BY <1>9, <1>10, <1>11 DEF guid

LEMMA GuidFields ==
  ASSUME NEW guid \in Seq(Nat), Len(guid) >= 11
  PROVE  /\ guid[1] \in Int /\ guid[2] \in Int /\ guid[3] \in Int
         /\ SubSeq(guid, 4, 11) \in Seq(Nat)
<1>1. guid[1] \in Nat /\ guid[2] \in Nat /\ guid[3] \in Nat
  OBVIOUS
<1>2. \A i \in 4..11 : guid[i] \in Nat
  OBVIOUS
<1>3. SubSeq(guid, 4, 11) \in Seq(Nat)
  BY <1>2, SubSeqProperties
<1>4. guid[1] \in Int /\ guid[2] \in Int /\ guid[3] \in Int
  BY <1>1
<1> QED BY <1>3, <1>4

\* Bytes enough for a GUID.
HasGuid(bytes) == bytes \in Seq(Nat) /\ Len(bytes) >= 16

\* What a row's text is written as are bytes.
LEMMA SetValueType ==
  ASSUME NEW row \in Rows \ {"BINARY"}, NEW text \in Texts[row], NEW bigEndian, NEW bytes,
         row = "GUIDTIME" => HasGuid(bytes)
  PROVE  SetValue(row, text, bytes, bigEndian) \in Seq(Nat)
<1>1. text \in Seq(Nat) /\ Len(text) = (CASE row = "SYSTEMTIME" -> 7 [] row = "GUID" -> 11 [] OTHER -> 1)
  BY EditAssumption
<1>2. text[1] \in Nat /\ Ticks(text) \in Int /\ <<>> \in Seq(Nat)
  <2>1. Len(text) >= 1
    BY <1>1
  <2>2. text[1] \in Nat
    BY <1>1, <2>1
  <2> QED BY <2>2, RowsAssumption DEF Ticks
<1>3. \A number \in Int : \A size \in {2, 4, 8} : BytesOf(number, size) \in Seq(Nat)
  BY BytesOfType
<1>4. CASE row \in {"TIME32T", "TIME64T"}
  <2>1. \A size \in {4, 8} : SecondsBytes(text, size) \in Seq(Nat)
    <3>1. (Ticks(text) - UnixEpoch) \div TicksPerSec \in Int
      BY <1>2, RowsAssumption
    <3> QED BY <1>2, <1>3, <3>1 DEF SecondsBytes
  <2>2. \A size \in {4, 8} : Ordered(SecondsBytes(text, size), bigEndian) \in Seq(Nat)
    BY <2>1, OrderedType
  <2> QED BY <1>4, <2>2 DEF SetValue
<1>5. CASE row = "FILETIME"
  <2>1. Ordered(BytesOf(Ticks(text), 8), bigEndian) \in Seq(Nat)
    BY <1>2, <1>3, OrderedType
  <2> QED BY <1>5, <2>1 DEF SetValue
<1>6. CASE row = "JAVATIME"
  <2> DEFINE diff == Ticks(text) - UnixEpoch
             millis == IF diff >= 0 THEN diff \div TicksPerMS ELSE -((-diff) \div TicksPerMS)
  <2>1. millis \in Int
    BY <1>2, RowsAssumption
  <2>2. millis % Values(8) \in Int
    <3>1. Values(8) \in Nat \ {0}
      BY ValuesFacts
    <3> HIDE DEF millis
    <3> QED BY <2>1, <3>1
  <2>3. JavaBytes(text) \in Seq(Nat)
    BY <1>3, <2>2 DEF JavaBytes
  <2>4. Ordered(JavaBytes(text), bigEndian) \in Seq(Nat)
    BY <2>3, OrderedType
  <2> QED BY <1>6, <2>4 DEF SetValue
<1>7. CASE row = "MSDOSTIME"
  <2>1. (Ticks(text) - DosEpoch) \div DosStep \in Int
    BY <1>2, RowsAssumption DEF DosStep
  <2>2. DosBytes(text) \in Seq(Nat)
    BY <1>2, <1>3, <2>1 DEF DosBytes
  <2> QED BY <1>7, <2>2 DEF SetValue
<1>8. CASE row = "MSDTTMTIME"
  <2>1. text[1] % Weekday \in Int
    BY <1>2, WeekdayType
  <2>2. DttmBytes(text) \in Seq(Nat)
    BY <1>3, <2>1 DEF DttmBytes
  <2> QED BY <1>8, <2>2 DEF SetValue
<1>9. CASE row = "SYSTEMTIME"
  <2>1. Len(text) >= 7
    BY <1>1, <1>9
  <2>2. SystemBytes(text, bigEndian) \in Seq(Nat)
    BY <1>1, <2>1, SystemBytesType
  <2> QED BY <1>9, <2>2 DEF SetValue
<1>10. CASE row = "GUID"
  <2>1. Len(text) >= 11
    BY <1>1, <1>10
  <2>2. /\ text[1] \in Int /\ text[2] \in Int /\ text[3] \in Int
        /\ SubSeq(text, 4, 11) \in Seq(Nat)
    BY <1>1, <2>1, GuidFields
  <2>3. GuidBytes(text, bigEndian) \in Seq(Nat)
    BY <2>2, GuidBytesType
  <2> QED BY <1>10, <2>3 DEF SetValue
<1>11. CASE row = "GUIDTIME"
  <2>1. GuidTimeBytes(text, GuidText(bytes, bigEndian), bigEndian) \in Seq(Nat)
    BY <1>2, <1>11, GuidTimeBytesType DEF HasGuid
  <2> QED BY <1>11, <2>1 DEF SetValue
<1>12. CASE row \in Numbers
  <2> DEFINE size == RowSize[row]
             number == text[1]
             bytesOf == BytesOf(number, size)
  <2>1. size \in Nat
    BY <1>12 DEF Numbers, RowSize
  <2>2. number \in Int
    BY <1>2
  <2> HIDE DEF number
  <2>3. bytesOf \in Seq(Nat)
    <3> HIDE DEF size
    <3> QED BY <2>1, <2>2, BytesOfType
  <2>4. SetValue(row, text, bytes, bigEndian) = Ordered(bytesOf, bigEndian)
    BY <1>12 DEF SetValue, Numbers, number
  <2> HIDE DEF bytesOf
  <2> QED BY <2>3, <2>4, OrderedType
<1> QED BY <1>4, <1>5, <1>6, <1>7, <1>8, <1>9, <1>10, <1>11, <1>12 DEF Rows, Numbers

-----------------------------------------------------------------------------
(* The interpreter over the bytes                                          *)

\* The fields of the interpreter's state.
IsInterp(dlg) ==
  /\ dlg = [visible |-> dlg.visible, offset |-> dlg.offset, rows |-> dlg.rows,
            allowed |-> dlg.allowed, bigEndian |-> dlg.bigEndian, binSize |-> dlg.binSize]
  /\ dlg.visible \in BOOLEAN /\ dlg.offset \in Nat /\ dlg.binSize \in Nat
  /\ dlg.rows = [row \in Rows |-> dlg.rows[row]]

\* Every row of a size of its own shows the bytes at the interpreter's offset
\* if they are there, and can be edited if the data can.
RowsOf(dlg, dat, fMutable) ==
  \A row \in Rows \ {"BINARY"} :
    /\ dlg.rows[row] = RowText(dlg, row, dat, dlg.offset)
    /\ row \in dlg.allowed <=> fMutable /\ dlg.offset + RowSize[row] <= Len(dat)

\* An open interpreter that was told of everything shows the bytes at the
\* caret; while a key is held, those at an earlier place of it.
RowsFollowData ==
  (interp.visible /\ ~behind) =>
    /\ keyDown \/ interp.offset = caretPos
    /\ RowsOf(interp, data, mutable)

LEMMA UpdateFacts ==
  ASSUME NEW dlg, IsInterp(dlg), NEW dat, NEW offset \in Nat, NEW fMutable \in BOOLEAN
  PROVE  LET new == UpdateData(dlg, dat, offset, fMutable)
         IN  /\ IsInterp(new) /\ new.visible = dlg.visible
             /\ dlg.visible => new.offset = offset /\ RowsOf(new, dat, fMutable)
<1> DEFINE new == UpdateData(dlg, dat, offset, fMutable)
           rows == [row \in Rows |-> IF row = "BINARY" /\ dlg.binSize = 16 /\ offset + 16 <= Len(dat)
                                     THEN dlg.rows[row] ELSE RowText(dlg, row, dat, offset)]
           allowed == {row \in Rows : fMutable /\ offset + SizeOf(dlg, row) <= Len(dat)}
<1>1. CASE ~dlg.visible
  BY <1>1 DEF UpdateData
<1>2. CASE dlg.visible
  <2>1. new = [dlg EXCEPT !.offset = offset, !.rows = rows, !.allowed = allowed]
    BY <1>2 DEF UpdateData
  <2> HIDE DEF new
  <2>2. /\ rows = [row \in Rows |-> rows[row]]
        /\ \A row \in Rows \ {"BINARY"} :
             /\ rows[row] = RowText(dlg, row, dat, offset)
             /\ row \in allowed <=> fMutable /\ offset + RowSize[row] <= Len(dat)
    BY DEF SizeOf
  <2> HIDE DEF rows, allowed
  <2>3. new = [visible |-> dlg.visible, offset |-> offset, rows |-> rows, allowed |-> allowed,
               bigEndian |-> dlg.bigEndian, binSize |-> dlg.binSize]
    BY <2>1 DEF IsInterp
  <2>4. /\ new.visible = dlg.visible /\ new.offset = offset /\ new.rows = rows
        /\ new.allowed = allowed /\ new.bigEndian = dlg.bigEndian /\ new.binSize = dlg.binSize
    BY <2>3
  <2>5. IsInterp(new)
    BY <2>2, <2>3, <2>4 DEF IsInterp
  <2>6. \A row \in Rows \ {"BINARY"} : RowText(new, row, dat, offset) = RowText(dlg, row, dat, offset)
    BY <2>4 DEF RowText, SizeOf
  <2> QED BY <2>2, <2>4, <2>5, <2>6 DEF RowsOf, new
<1> QED BY <1>1, <1>2 DEF IsInterp

\* After an update the interpreter follows.
LEMMA UpdateFollows ==
  ASSUME NEW dlg, IsInterp(dlg), NEW dat, dat = data', NEW offset \in Nat,
         offset = caretPos' \/ keyDown', NEW fMutable \in BOOLEAN, fMutable = mutable',
         interp' = UpdateData(dlg, dat, offset, fMutable)
  PROVE  IsInterp(interp)' /\ RowsFollowData'
<1>1. /\ IsInterp(interp') /\ interp'.visible = dlg.visible
      /\ dlg.visible => interp'.offset = offset /\ RowsOf(interp', dat, fMutable)
  BY UpdateFacts
<1>2. IsInterp(interp)'
  BY <1>1
<1>3. RowsFollowData'
  BY <1>1 DEF RowsFollowData
<1> QED BY <1>2, <1>3

\* Nothing new, or what is new is not told.
LEMMA UntoldFollows ==
  ASSUME IsInterp(interp), RowsFollowData, UNCHANGED interp,
         \/ behind'
         \/ UNCHANGED <<behind, data, mutable>> /\ (keyDown' \/ UNCHANGED <<keyDown, caretPos>>)
  PROVE  IsInterp(interp)' /\ RowsFollowData'
<1>1. IsInterp(interp)'
  BY DEF IsInterp
<1>2. RowsFollowData'
  <2>1. CASE behind'
    BY <2>1 DEF RowsFollowData
  <2>2. CASE UNCHANGED <<behind, data, mutable>> /\ (keyDown' \/ UNCHANGED <<keyDown, caretPos>>)
    BY <2>2 DEF RowsFollowData
  <2> QED BY <2>1, <2>2
<1> QED BY <1>1, <1>2

LEMMA UpdatedFollows ==
  ASSUME IsInterp(interp), caretPos' \in Nat, mutable' \in BOOLEAN, Updated
  PROVE  IsInterp(interp)' /\ RowsFollowData'
<1>1. interp' = UpdateData(interp, data', caretPos', mutable')
  BY DEF Updated
<1> QED BY <1>1, UpdateFollows

LEMMA CaretChangeFollows ==
  ASSUME IsInterp(interp), RowsFollowData, caretPos' \in Nat, mutable' \in BOOLEAN,
         UNCHANGED <<data, mutable>>, OnCaretPosChange
  PROVE  IsInterp(interp)' /\ RowsFollowData'
<1>1. CASE keyDown'
  <2>1. UNCHANGED <<interp, behind>>
    BY <1>1 DEF OnCaretPosChange
  <2> QED BY <1>1, <2>1, UntoldFollows
<1>2. CASE ~keyDown'
  BY <1>2, UpdatedFollows DEF OnCaretPosChange
<1> QED BY <1>1, <1>2

-----------------------------------------------------------------------------
(* Typing                                                                  *)

DataOK == data \in Seq(Nat) /\ Len(data) = dataSize

\* A modification of some bytes leaves the others and their number.
LEMMA PutFacts ==
  ASSUME NEW dat \in Seq(Nat), NEW offset \in Nat, NEW bytes \in Seq(Nat)
  PROVE  /\ Put(dat, offset, bytes) \in Seq(Nat)
         /\ Len(Put(dat, offset, bytes)) = Len(dat)
<1>1. ASSUME NEW i \in 1..Len(dat)
      PROVE  (IF i \in offset + 1..offset + Len(bytes) THEN bytes[i - offset] ELSE dat[i]) \in Nat
  <2>1. CASE i \in offset + 1..offset + Len(bytes)
    <3>1. i - offset \in 1..Len(bytes)
      BY <2>1
    <3> QED BY <2>1, <3>1
  <2>2. CASE i \notin offset + 1..offset + Len(bytes)
    BY <2>2
  <2> QED BY <2>1, <2>2
<1> QED BY <1>1 DEF Put

LEMMA PutOne ==
  ASSUME NEW dat \in Seq(Nat), NEW offset \in 0..Len(dat) - 1, NEW byte \in Nat
  PROVE  /\ Put(dat, offset, <<byte>>) \in Seq(Nat)
         /\ Len(Put(dat, offset, <<byte>>)) = Len(dat)
         /\ \A i \in 1..Len(dat) : Put(dat, offset, <<byte>>)[i] = IF i = offset + 1 THEN byte ELSE dat[i]
<1>1. offset \in Nat /\ <<byte>> \in Seq(Nat) /\ Len(<<byte>>) = 1
  OBVIOUS
<1>2. ASSUME NEW i \in 1..Len(dat)
      PROVE  Put(dat, offset, <<byte>>)[i] = IF i = offset + 1 THEN byte ELSE dat[i]
  <2>1. i \in offset + 1..offset + 1 <=> i = offset + 1
    OBVIOUS
  <2>2. i = offset + 1 => <<byte>>[i - offset] = byte
    OBVIOUS
  <2> QED BY <1>1, <2>1, <2>2 DEF Put
<1> QED BY <1>1, <1>2, PutFacts

\* The caret goes on by the place a key takes, as far as the last one.
LEMMA PlaceMoves ==
  ASSUME NavInv, IsDataSet, mutable, CaretMoveRight
  PROVE  /\ UNCHANGED <<dataSize, mutable, textArea>>
         /\ Place \in 0..LastPlace /\ LastPlace \in Nat /\ UNCHANGED LastPlace
         /\ Place' = Least(Place + 1, LastPlace)
<1>1. /\ dataSize \in Nat \ {0} /\ caretPos \in 0..dataSize - 1
      /\ caretHigh \in BOOLEAN /\ textArea \in BOOLEAN /\ mutable = TRUE
  BY NavAssumption DEF NavInv, TypeOK, CursorsInData, IsDataSet
<1>2. UNCHANGED <<dataSize, mutable, textArea>>
  BY DEF CaretMoveRight, caretElse, dataVars
<1>3. LastPlace \in Nat /\ UNCHANGED LastPlace /\ Place \in 0..LastPlace
  BY <1>1, <1>2 DEF LastPlace, Place
<1>4. CASE textArea
  <2>1. caretPos' = Least(caretPos + 1, dataSize - 1)
    BY <1>1, <1>4 DEF CaretMoveRight, WholeBytes, PlaceCaret, Least, IsDataSet
  <2> QED BY <1>1, <1>2, <1>3, <1>4, <2>1 DEF Place, LastPlace
<1>5. CASE ~textArea /\ caretHigh
  <2>1. caretPos' = caretPos /\ caretHigh' = FALSE
    <3>1. Least(caretPos, dataSize - 1) = caretPos /\ caretPos < dataSize
      BY <1>1 DEF Least
    <3>2. PlaceCaret(caretPos, FALSE)
      BY <1>1, <1>5, <3>1 DEF CaretMoveRight, WholeBytes
    <3> QED BY <3>1, <3>2 DEF PlaceCaret, IsDataSet
  <2>2. Place = 2 * caretPos + 0 /\ Place' = 2 * caretPos + 1 /\ LastPlace = 2 * dataSize - 1
    BY <1>2, <1>5, <2>1 DEF Place, LastPlace
  <2> QED BY <1>1, <1>2, <1>3, <2>2 DEF Least
<1>6. CASE ~textArea /\ ~caretHigh
  <2>1. caretPos' = Least(caretPos + 1, dataSize - 1) /\ caretHigh' = (caretPos # dataSize - 1)
    BY <1>1, <1>6 DEF CaretMoveRight, WholeBytes, PlaceCaret, Least, IsDataSet
  <2>2. Place = 2 * caretPos + 1 /\ LastPlace = 2 * dataSize - 1
    BY <1>6 DEF Place, LastPlace
  <2>3. Place' = 2 * caretPos' + (IF caretPos # dataSize - 1 THEN 0 ELSE 1)
    BY <1>2, <1>6, <2>1 DEF Place
  <2>4. CASE caretPos = dataSize - 1
    <3>1. caretPos' = caretPos
      BY <1>1, <2>1, <2>4 DEF Least
    <3> QED BY <1>1, <1>2, <1>3, <2>2, <2>3, <2>4, <3>1 DEF Least
  <2>5. CASE caretPos # dataSize - 1
    <3>1. caretPos' = caretPos + 1
      BY <1>1, <2>1, <2>5 DEF Least
    <3> QED BY <1>1, <1>2, <1>3, <2>2, <2>3, <2>5, <3>1 DEF Least
  <2> QED BY <2>4, <2>5
<1> QED BY <1>1, <1>4, <1>5, <1>6

\* Half a byte replaced is there, and the other half still is.
LEMMA HalfFacts ==
  ASSUME NEW byte \in Nat, NEW half \in 0..HalfValues - 1
  PROVE  /\ LET new == (half * HalfValues) + (byte % HalfValues)
            IN  new \in Nat /\ new \div HalfValues = half /\ new % HalfValues = byte % HalfValues
         /\ LET new == ((byte \div HalfValues) * HalfValues) + half
            IN  new \in Nat /\ new \div HalfValues = byte \div HalfValues /\ new % HalfValues = half
<1> DEFINE h == HalfValues
           q == byte \div h
           r == byte % h
<1>1. h \in Nat \ {0} /\ half \in Nat /\ half \in 0..h - 1
  BY RowsAssumption
<1>2. q \in Nat /\ r \in 0..h - 1
  BY <1>1, ModFacts
<1> HIDE DEF q, r, h
<1>3. half * h + r = h * half + r /\ q * h + half = h * q + half
  BY <1>1, <1>2
<1>4. half * h + r \in Nat /\ q * h + half \in Nat
  BY <1>1, <1>2
<1>5. (half * h + r) \div h = half /\ (half * h + r) % h = r
  BY <1>1, <1>2, <1>3, <1>4, QuotientIs
<1>6. (q * h + half) \div h = q /\ (q * h + half) % h = half
  BY <1>1, <1>2, <1>3, <1>4, QuotientIs
<1> QED BY <1>4, <1>5, <1>6 DEF q, r, h

\* A key stands where it was typed, and nothing else has changed.
LEMMA KeyStands ==
  ASSUME NavInv, DataOK, NEW key \in Nat, NEW r \in BOOLEAN,
         (OnKeyDown(key, r) /\ key \in 0..HalfValues - 1) \/ OnChar(key, r)
  PROVE  /\ IsDataSet /\ mutable /\ CaretMoveRight /\ TypeOne(key) /\ DataOK'
         /\ \A p \in 0..LastPlace : StandsAt(p)' = IF p = Place THEN key ELSE StandsAt(p)
<1>1. /\ IsDataSet /\ mutable /\ CaretMoveRight /\ TypeOne(key)
      /\ textArea' = textArea /\ dataSize' = dataSize
  BY DEF OnKeyDown, OnChar, Store, CaretMoveRight, caretElse, dataVars
<1>2. /\ data \in Seq(Nat) /\ Len(data) = dataSize /\ dataSize \in Nat
      /\ caretPos \in 0..Len(data) - 1
  BY <1>1, NavAssumption DEF NavInv, TypeOK, CursorsInData, IsDataSet, DataOK
<1>3. CASE OnChar(key, r)
  <2>1. data' = Put(data, caretPos, <<key>>) /\ textArea
    BY <1>3 DEF OnChar, Store
  <2>2. DataOK' /\ \A i \in 1..Len(data) : data'[i] = IF i = caretPos + 1 THEN key ELSE data[i]
    BY <1>1, <1>2, <2>1, PutOne DEF DataOK
  <2>3. ASSUME NEW p \in 0..LastPlace PROVE StandsAt(p)' = IF p = Place THEN key ELSE StandsAt(p)
    <3>1. p \in 0..Len(data) - 1 /\ p + 1 \in 1..Len(data) /\ (p + 1 = caretPos + 1 <=> p = Place)
      BY <1>2, <2>1 DEF LastPlace, Place
    <3>2. StandsAt(p)' = data'[p + 1] /\ StandsAt(p) = data[p + 1]
      BY <1>1, <2>1 DEF StandsAt
    <3> QED BY <2>2, <3>1, <3>2
  <2> QED BY <1>1, <2>2, <2>3
<1>4. CASE OnKeyDown(key, r) /\ key \in 0..HalfValues - 1
  <2> DEFINE at == caretPos + 1
             byte == data[at]
             new == WithHalf(key)
  <2>1. data' = Put(data, caretPos, <<new>>) /\ ~textArea
    BY <1>4 DEF OnKeyDown, Store
  <2>2. byte \in Nat
    BY <1>2
  <2>3. /\ new \in Nat
        /\ IF caretHigh THEN new \div HalfValues = key /\ new % HalfValues = byte % HalfValues
           ELSE new \div HalfValues = byte \div HalfValues /\ new % HalfValues = key
    <3>1. new = IF caretHigh THEN (key * HalfValues) + (byte % HalfValues)
                ELSE ((byte \div HalfValues) * HalfValues) + key
      BY DEF WithHalf
    <3> HIDE DEF new, byte
    <3> QED BY <1>4, <2>2, <3>1, HalfFacts
  <2> HIDE DEF new
  <2>4. DataOK' /\ \A i \in 1..Len(data) : data'[i] = IF i = at THEN new ELSE data[i]
    BY <1>1, <1>2, <2>1, <2>3, PutOne DEF DataOK
  <2>5. ASSUME NEW p \in 0..LastPlace PROVE StandsAt(p)' = IF p = Place THEN key ELSE StandsAt(p)
    <3> DEFINE i == p \div 2 + 1
    <3>1. p \in 0..2 * dataSize - 1
      BY <2>1 DEF LastPlace
    <3>2. i \in 1..Len(data)
      BY <1>2, <3>1
    <3>3. p = Place <=> (i = at /\ (caretHigh <=> p % 2 = 0))
      BY <1>2, <2>1, <3>1 DEF Place
    <3> HIDE DEF i
    <3>4. /\ StandsAt(p)' = IF p % 2 = 0 THEN data'[i] \div HalfValues ELSE data'[i] % HalfValues
          /\ StandsAt(p) = IF p % 2 = 0 THEN data[i] \div HalfValues ELSE data[i] % HalfValues
      BY <1>1, <2>1 DEF StandsAt, i
    <3>5. CASE i = at
      BY <2>3, <2>4, <3>2, <3>3, <3>4, <3>5
    <3>6. CASE i # at
      BY <2>4, <3>2, <3>3, <3>4, <3>6
    <3> QED BY <3>5, <3>6
  <2> QED BY <1>1, <2>4, <2>5
<1> QED BY <1>3, <1>4

\* Keys stand one after the other from a place, as far as the last one; what
\* stands at a place is a function of it.
KeysStand(from, keys, last, stands) ==
  LET n == Len(keys)
      at(k) == Least(from + k - 1, last)
  IN  /\ \A k \in 1..n : at(k) # at(n) => stands[at(k)] = keys[k]
      /\ stands[at(n)] = keys[n]

\* One place of those up to last is new.
OneNew(last, place, key, was, is) == \A p \in 0..last : is[p] = IF p = place THEN key ELSE was[p]

\* One key more, at the place after those that stand.
LEMMA OneKeyMore ==
  ASSUME NEW last \in Nat, NEW from \in Nat, NEW keys \in Seq(Nat), keys # <<>>, NEW key \in Nat,
         NEW was, NEW is, KeysStand(from, keys, last, was), NEW place \in 0..last,
         place = Least(Least(from + Len(keys) - 1, last) + 1, last),
         OneNew(last, place, key, was, is)
  PROVE  /\ KeysStand(from, Append(keys, key), last, is)
         /\ place = Least(from + Len(Append(keys, key)) - 1, last)
<1> DEFINE n == Len(keys)
           at(k) == Least(from + k - 1, last)
           more == Append(keys, key)
<1>1. n \in Nat \ {0}
  BY EmptySeq
<1>2. /\ more \in Seq(Nat) /\ Len(more) = n + 1 /\ more[n + 1] = key
      /\ \A k \in 1..n : more[k] = keys[k]
  BY AppendProperties
<1>3. /\ \A k \in 1..n : at(k) # at(n) => was[at(k)] = keys[k]
      /\ was[at(n)] = keys[n]
  BY DEF KeysStand
<1> HIDE DEF n, more
<1>4. \A k \in 1..n + 1 : at(k) \in 0..last
  BY <1>1 DEF Least
<1>5. place = at(n + 1)
  <2>1. place = Least(Least(from + n - 1, last) + 1, last)
    BY DEF n
  <2> QED BY <1>1, <2>1 DEF Least
<1>6. \A k \in 1..n : at(k) = at(n) /\ k # n => at(k) = at(n + 1)
  BY <1>1 DEF Least
<1> HIDE DEF at
<1>7. ASSUME NEW k \in 1..n + 1, at(k) # at(n + 1) PROVE is[at(k)] = more[k]
  <2>1. k \in 1..n /\ at(k) \in 0..last
    BY <1>1, <1>4, <1>7
  <2>2. is[at(k)] = was[at(k)]
    BY <1>5, <1>7, <2>1 DEF OneNew
  <2>3. was[at(k)] = keys[k]
    BY <1>1, <1>3, <1>6, <1>7, <2>1
  <2> QED BY <1>2, <2>1, <2>2, <2>3
<1>8. is[at(n + 1)] = more[n + 1]
  BY <1>2, <1>5 DEF OneNew
<1>9. KeysStand(from, more, last, is)
  BY <1>2, <1>7, <1>8 DEF KeysStand, at
<1>10. place = Least(from + Len(more) - 1, last)
  BY <1>2, <1>5 DEF at
<1> QED BY <1>9, <1>10 DEF more

Standing == [p \in 0..LastPlace |-> StandsAt(p)]

TypedOK == typed \in [from : Nat, keys : Seq(Nat)]

LEMMA StandingFacts ==
  ASSUME TypedOK, LastPlace \in Nat
  PROVE  TypedDigitsStand
           <=> (typed.keys # <<>> =>
                  /\ KeysStand(typed.from, typed.keys, LastPlace, Standing)
                  /\ Place = Least(Least(typed.from + Len(typed.keys) - 1, LastPlace) + 1, LastPlace))
<1> DEFINE n == Len(typed.keys)
           at(k) == Least(typed.from + k - 1, LastPlace)
<1>1. n \in Nat /\ (n > 0 <=> typed.keys # <<>>) /\ typed.from \in Nat
  BY EmptySeq DEF TypedOK
<1> HIDE DEF n
<1>2. \A k \in 1..n : at(k) \in 0..LastPlace
  BY <1>1 DEF Least
<1> HIDE DEF at
<1>3. \A k \in 1..n : Standing[at(k)] = StandsAt(at(k))
  BY <1>2 DEF Standing
<1>4. TypedDigitsStand
        <=> (n > 0 =>
               /\ \A k \in 1..n : at(k) # at(n) => StandsAt(at(k)) = typed.keys[k]
               /\ StandsAt(at(n)) = typed.keys[n]
               /\ Place = Least(at(n) + 1, LastPlace))
  BY DEF TypedDigitsStand, n, at
<1>5. KeysStand(typed.from, typed.keys, LastPlace, Standing)
        <=> /\ \A k \in 1..n : at(k) # at(n) => Standing[at(k)] = typed.keys[k]
            /\ Standing[at(n)] = typed.keys[n]
  BY DEF KeysStand, n, at
<1>6. n > 0 => n \in 1..n
  BY <1>1
<1>7. Least(at(n) + 1, LastPlace) = Least(Least(typed.from + n - 1, LastPlace) + 1, LastPlace)
  BY DEF at
<1> QED BY <1>1, <1>3, <1>4, <1>5, <1>6, <1>7 DEF n

\* Typing goes on where it was, or begins.
LEMMA KeyTyped ==
  ASSUME NavInv, DataOK, TypedOK, TypedDigitsStand, NEW key \in Nat, NEW r \in BOOLEAN,
         (OnKeyDown(key, r) /\ key \in 0..HalfValues - 1) \/ OnChar(key, r)
  PROVE  TypedOK' /\ TypedDigitsStand'
<1>1. /\ IsDataSet /\ mutable /\ CaretMoveRight /\ TypeOne(key)
      /\ \A p \in 0..LastPlace : StandsAt(p)' = IF p = Place THEN key ELSE StandsAt(p)
  BY KeyStands
<1>2. /\ Place \in 0..LastPlace /\ LastPlace \in Nat /\ LastPlace' = LastPlace
      /\ Place' = Least(Place + 1, LastPlace)
  BY <1>1, PlaceMoves
<1>3. \A p \in 0..LastPlace : Standing'[p] = IF p = Place THEN key ELSE Standing[p]
  <2>1. Standing' = [p \in 0..LastPlace' |-> StandsAt(p)']
    BY DEF Standing
  <2>2. \A p \in 0..LastPlace : Standing'[p] = StandsAt(p)' /\ Standing[p] = StandsAt(p)
    BY <1>2, <2>1 DEF Standing
  <2> QED BY <1>1, <2>2
<1>4. typed = [from |-> typed.from, keys |-> typed.keys] /\ typed.from \in Nat /\ typed.keys \in Seq(Nat)
  BY DEF TypedOK
<1>5. /\ TypedOK' /\ typed'.keys # <<>>
      /\ KeysStand(typed'.from, typed'.keys, LastPlace, Standing')
      /\ Place = Least(typed'.from + Len(typed'.keys) - 1, LastPlace)
  <2>1. CASE typed.keys = <<>>
    <3>1. typed' = [from |-> Place, keys |-> <<key>>]
      BY <1>1, <2>1 DEF TypeOne
    <3>2. typed'.from = Place /\ typed'.keys = <<key>> /\ Len(<<key>>) = 1 /\ <<key>>[1] = key
      BY <3>1
    <3>3. TypedOK' /\ typed'.keys # <<>>
      BY <1>2, <3>1, <3>2 DEF TypedOK
    <3>4. Place = Least(Place + 1 - 1, LastPlace)
      BY <1>2 DEF Least
    <3>5. Standing'[Place] = key
      BY <1>2, <1>3
    <3>6. KeysStand(Place, <<key>>, LastPlace, Standing')
      BY <3>2, <3>4, <3>5 DEF KeysStand
    <3> QED BY <3>2, <3>3, <3>4, <3>6
  <2>2. CASE typed.keys # <<>>
    <3>1. typed' = [typed EXCEPT !.keys = Append(typed.keys, key)]
      BY <1>1, <2>2 DEF TypeOne
    <3>2. typed'.from = typed.from /\ typed'.keys = Append(typed.keys, key)
      BY <1>4, <3>1
    <3>3. TypedOK' /\ typed'.keys # <<>>
      <4>1. Append(typed.keys, key) \in Seq(Nat) /\ Len(Append(typed.keys, key)) = Len(typed.keys) + 1
        BY <1>4, AppendProperties
      <4>2. typed' = [from |-> typed.from, keys |-> Append(typed.keys, key)]
        BY <1>4, <3>1
      <4>3. Append(typed.keys, key) # <<>>
        BY <1>4, <4>1, EmptySeq
      <4> QED BY <1>4, <3>2, <4>1, <4>2, <4>3 DEF TypedOK
    <3>4. /\ KeysStand(typed.from, typed.keys, LastPlace, Standing)
          /\ Place = Least(Least(typed.from + Len(typed.keys) - 1, LastPlace) + 1, LastPlace)
      BY <1>2, <2>2, StandingFacts
    <3> DEFINE last == LastPlace
               from == typed.from
               keys == typed.keys
               was == Standing
               is == Standing'
               place == Place
    <3>5. /\ last \in Nat /\ from \in Nat /\ keys \in Seq(Nat) /\ keys # <<>> /\ place \in 0..last
          /\ KeysStand(from, keys, last, was)
          /\ place = Least(Least(from + Len(keys) - 1, last) + 1, last)
          /\ OneNew(last, place, key, was, is)
      BY <1>2, <1>3, <1>4, <2>2, <3>4 DEF OneNew
    <3>6. KeysStand(from, Append(keys, key), last, is) /\ place = Least(from + Len(Append(keys, key)) - 1, last)
      <4> HIDE DEF last, from, keys, was, is, place
      <4> QED BY <3>5, OneKeyMore
    <3> QED BY <3>2, <3>3, <3>6
  <2> QED BY <2>1, <2>2
<1>6. TypedDigitsStand'
  <2>1. TypedOK' /\ LastPlace' \in Nat
    BY <1>2, <1>5
  <2>2. KeysStand(typed'.from, typed'.keys, LastPlace', Standing')
    BY <1>2, <1>5
  <2>3. Place' = Least(Least(typed'.from + Len(typed'.keys) - 1, LastPlace') + 1, LastPlace')
    BY <1>2, <1>5
  <2>4. (TypedOK /\ LastPlace \in Nat
           => (TypedDigitsStand
                 <=> (typed.keys # <<>> =>
                        /\ KeysStand(typed.from, typed.keys, LastPlace, Standing)
                        /\ Place = Least(Least(typed.from + Len(typed.keys) - 1, LastPlace) + 1, LastPlace))))'
    BY StandingFacts, PTL
  <2> QED BY <2>1, <2>2, <2>3, <2>4
<1> QED BY <1>5, <1>6

-----------------------------------------------------------------------------
(* Editing at the caret                                                    *)

\* The inductive invariant: HexNav's, the bytes' and the interpreter's types,
\* what was typed, and what the interpreter shows.
EditOK ==
  /\ DataOK /\ IsInterp(interp) /\ editing \in Rows \cup {"none"}
  /\ TypedOK /\ TypedDigitsStand
  /\ RowsFollowData

EditInv == NavInv /\ EditOK

LEMMA PlacesKnown ==
  ASSUME NavInv
  PROVE  /\ dataSize \in Nat /\ caretPos \in Nat /\ mutable \in BOOLEAN
         /\ IF IsDataSet THEN caretPos < dataSize ELSE caretPos = 0
  BY NavAssumption DEF NavInv, TypeOK, CursorsInData

LEMMA NothingStands ==
  ASSUME typed' = NothingTyped
  PROVE  TypedOK' /\ TypedDigitsStand'
<1>1. typed'.keys = <<>> /\ Len(typed'.keys) = 0 /\ typed'.from = 0
  BY EmptySeq DEF NothingTyped
<1>2. TypedOK'
  BY EmptySeq DEF TypedOK, NothingTyped
<1>3. TypedDigitsStand'
  BY <1>1 DEF TypedDigitsStand
<1> QED BY <1>2, <1>3

\* What the user does with caret, mouse and selection leaves the bytes alone.
LEMMA UserKeepsData ==
  ASSUME \/ CaretNext \/ SelectNext \/ OnLButtonUp
         \/ \E hit \in Hits, shift \in BOOLEAN, alt \in BOOLEAN :
              OnLButtonDown(hit, shift, alt) \/ OnLButtonDblClk(hit, shift, alt)
         \/ \E hit \in Hits : OnMouseMove(hit)
         \/ \E offset \in Nat, high \in BOOLEAN : SetCaretPos(offset, high)
  PROVE  UNCHANGED <<dataSize, mutable>>
<1>1. CASE CaretNext \/ \E offset \in Nat, high \in BOOLEAN : SetCaretPos(offset, high)
  BY <1>1 DEF CaretNext, CaretMoveDown, CaretMoveUp, CaretMoveLeft, CaretMoveRight, CaretToDataBeg,
       CaretToDataEnd, CaretToLineBeg, CaretToLineEnd, CaretToPageBeg, CaretToPageEnd, CaretTo,
       SetCaretPos, caretElse, dataVars
<1>2. CASE SelectNext
  BY <1>2 DEF SelectNext, SelAddDown, SelAddLeft, SelAddRight, SelAddUp, SelAdd, SelAll,
       SelMarkStart, SelMarkEnd, selElse, dataVars
<1>3. CASE \/ OnLButtonUp
           \/ \E hit \in Hits, shift \in BOOLEAN, alt \in BOOLEAN :
                OnLButtonDown(hit, shift, alt) \/ OnLButtonDblClk(hit, shift, alt)
           \/ \E hit \in Hits : OnMouseMove(hit)
  BY <1>3 DEF OnLButtonUp, OnLButtonDown, OnLButtonDblClk, OnMouseMove, dataVars
<1> QED BY <1>1, <1>2, <1>3

\* Clicks and other selections: the caret stays with the latter.
LEMMA OtherSelectionKeepsCaret ==
  ASSUME SelAll \/ SelMarkStart \/ SelMarkEnd \/ OnLButtonUp
           \/ (\E spans \in ClientSels : ClientSelection(spans))
  PROVE  UNCHANGED <<dataSize, mutable, caretPos>>
BY DEF SelAll, SelMarkStart, SelMarkEnd, OnLButtonUp, ClientSelection, selElse, dataVars, caretVars

LEMMA ClientBytes ==
  ASSUME NEW bytes \in Contents \cup Clips
  PROVE  bytes \in Seq(Nat)
<1>1. bytes \in Seq(0..ByteValues - 1)
  BY EditAssumption
<1>2. 0..ByteValues - 1 \subseteq Nat
  OBVIOUS
<1> HIDE DEF ByteValues
<1>3. \A i \in 1..Len(bytes) : bytes[i] \in Nat
  BY <1>1, <1>2, ElementOfSeq
<1>4. bytes = [i \in 1..Len(bytes) |-> bytes[i]] /\ Len(bytes) \in Nat
  BY <1>1, LenProperties
<1> QED BY <1>3, <1>4

\* New data, or none, or a change of what may be done with it: the
\* interpreter is not told.
LEMMA EditContents ==
  ASSUME EditInv, ContentsNext
  PROVE  EditOK'
<1>1. /\ DataOK' /\ behind' = TRUE /\ UNCHANGED <<interp, editing>> /\ typed' = NothingTyped
  <2>1. ASSUME NEW bytes \in Contents, NEW m \in BOOLEAN,
               SetContents(bytes, m) \/ AdjustContents(bytes, m)
        PROVE  /\ DataOK' /\ behind' = TRUE /\ UNCHANGED <<interp, editing>> /\ typed' = NothingTyped
    <3>1. bytes \in Seq(Nat)
      BY ClientBytes
    <3>2. data' = bytes /\ dataSize' = Len(bytes)
      BY <2>1 DEF SetContents, AdjustContents, SetData, AdjustData
    <3> QED BY <2>1, <3>1, <3>2 DEF SetContents, AdjustContents, DataOK, NoChange, Forget
  <2>2. CASE ClearContents
    BY <2>2, EmptySeq DEF ClearContents, ClearData, DataOK, NoChange, Forget
  <2>3. ASSUME NEW m \in BOOLEAN, Protect(m)
        PROVE  /\ DataOK' /\ behind' = TRUE /\ UNCHANGED <<interp, editing>> /\ typed' = NothingTyped
    BY <2>3 DEF Protect, SetMutable, DataOK, EditInv, EditOK, NoChange, Forget
  <2> QED BY <2>1, <2>2, <2>3 DEF ContentsNext
<1>2. IsInterp(interp)' /\ RowsFollowData'
  BY <1>1, UntoldFollows DEF EditInv, EditOK
<1> QED BY <1>1, <1>2, NothingStands DEF EditInv, EditOK

\* The caret moves, and the interpreter is told, or not.
LEMMA EditUser ==
  ASSUME EditInv, NavInv',
         UserNext \/ \E offset \in 0..MaxSize, high \in BOOLEAN : ClientCaret(offset, high)
  PROVE  EditOK'
<1>1. /\ caretPos' \in Nat /\ mutable' \in BOOLEAN
  <2>1. (NavInv => caretPos \in Nat /\ mutable \in BOOLEAN)'
    BY PlacesKnown, PTL
  <2> QED BY <2>1
<1> DEFINE Kept == UNCHANGED <<data, dataSize, mutable>> /\ editing' \in {editing, "none"} /\ typed' = NothingTyped
           InterpTold == IsInterp(interp)' /\ RowsFollowData'
<1>2. ASSUME NEW r \in BOOLEAN, CaretCommand(r) \/ SelectCommand(r)
      PROVE  Kept /\ InterpTold
  <2>1. CaretNext \/ SelectNext
    BY <1>2 DEF CaretCommand, SelectCommand, SelectNext
  <2>2. Kept
    BY <1>2, <2>1, UserKeepsData DEF CaretCommand, SelectCommand, FocusOnHex, NoChange, Forget
  <2>3. InterpTold
    BY <1>1, <1>2, <2>2, CaretChangeFollows DEF CaretCommand, SelectCommand, EditInv, EditOK
  <2> QED BY <2>2, <2>3
<1>3. ASSUME HoldKey PROVE Kept /\ InterpTold
  BY <1>3, UntoldFollows DEF HoldKey, vars, dataVars, FocusOnHex, NoChange, Forget, EditInv, EditOK
<1>4. ASSUME OnKeyUp PROVE Kept /\ InterpTold
  BY <1>1, <1>4, UpdatedFollows DEF OnKeyUp, vars, dataVars, NoChange, Forget, EditInv, EditOK
<1>5. ASSUME OtherSelection PROVE Kept /\ InterpTold
  <2>1. UNCHANGED <<dataSize, mutable, caretPos>>
    BY <1>5, OtherSelectionKeepsCaret DEF OtherSelection
  <2>2. UNCHANGED <<data, keyDown, interp, editing, behind>> /\ NoChange
    BY <1>5 DEF OtherSelection
  <2>3. Kept
    BY <2>1, <2>2 DEF NoChange, Forget
  <2>4. InterpTold
    BY <2>1, <2>2, UntoldFollows DEF EditInv, EditOK
  <2> QED BY <2>3, <2>4
<1>6. ASSUME NEW hit \in Hits, NEW shift \in BOOLEAN, NEW alt \in BOOLEAN,
             Click(hit, shift, alt) \/ DoubleClick(hit, shift, alt)
      PROVE  Kept /\ InterpTold
  <2>1. OnLButtonDown(hit, shift, alt) \/ OnLButtonDblClk(hit, shift, alt)
    BY <1>6 DEF Click, DoubleClick
  <2>2. Kept
    BY <1>6, <2>1, UserKeepsData DEF Click, DoubleClick, FocusOnHex, NoChange, Forget
  <2>3. CASE Click(hit, shift, alt)
    BY <1>1, <2>2, <2>3, CaretChangeFollows DEF Click, EditInv, EditOK
  <2>4. CASE DoubleClick(hit, shift, alt)
    BY <2>2, <2>4, UntoldFollows DEF DoubleClick, EditInv, EditOK
  <2> QED BY <1>6, <2>2, <2>3, <2>4
<1>7. ASSUME NEW hit \in Hits, Drag(hit) PROVE Kept /\ InterpTold
  <2>1. Kept
    BY <1>7, UserKeepsData DEF Drag, NoChange, Forget
  <2>2. InterpTold
    BY <1>7, UntoldFollows DEF Drag, EditInv, EditOK
  <2> QED BY <2>1, <2>2
<1>8. ASSUME NEW offset \in 0..MaxSize, NEW high \in BOOLEAN, ClientCaret(offset, high)
      PROVE  Kept /\ InterpTold
  <2>1. offset \in Nat /\ SetCaretPos(offset, high)
    BY <1>8 DEF ClientCaret
  <2>2. Kept
    BY <1>8, <2>1, UserKeepsData DEF ClientCaret, NoChange, Forget
  <2>3. CASE offset < dataSize
    BY <1>1, <1>8, <2>2, <2>3, CaretChangeFollows DEF ClientCaret, EditInv, EditOK
  <2>4. CASE ~(offset < dataSize)
    <3>1. UNCHANGED <<interp, behind, caretPos, keyDown>>
      BY <1>8, <2>1, <2>4 DEF ClientCaret, SetCaretPos, PlaceCaret
    <3> QED BY <2>2, <3>1, UntoldFollows DEF EditInv, EditOK
  <2> QED BY <2>2, <2>3, <2>4
<1>9. Kept /\ InterpTold
  <2> HIDE DEF Kept, InterpTold
  <2> QED BY <1>2, <1>3, <1>4, <1>5, <1>6, <1>7, <1>8 DEF UserNext
<1> QED BY <1>9, NothingStands DEF EditInv, EditOK, DataOK

\* Clipboard bytes are bytes, and so is what of them fits.
LEMMA PastedType ==
  ASSUME NavInv, NEW bytes \in Clips
  PROVE  Pasted(bytes) \in Seq(Nat)
<1>1. bytes \in Seq(Nat)
  BY ClientBytes
<1>2. CASE caretPos + Len(bytes) > dataSize
  <2>1. 1 \in 1..Len(bytes) + 1 /\ dataSize - caretPos \in 0..Len(bytes)
    BY <1>1, <1>2, PlacesKnown DEF IsDataSet
  <2>2. SubSeq(bytes, 1, dataSize - caretPos) \in Seq(Nat)
    <3> DEFINE rest == dataSize - caretPos
    <3> HIDE DEF rest
    <3>1. SubSeq(bytes, 1, rest) \in Seq(Nat)
      BY <1>1, <2>1, SubSeqType DEF rest
    <3> QED BY <3>1 DEF rest
  <2> QED BY <1>2, <2>2 DEF Pasted
<1> QED BY <1>1, <1>2 DEF Pasted

\* Typing, pasting and filling: the interpreter is told of each.
LEMMA EditModify ==
  ASSUME EditInv, NavInv', ModifyNext
  PROVE  EditOK'
<1>1. /\ caretPos' \in Nat /\ mutable' \in BOOLEAN
  <2>1. (NavInv => caretPos \in Nat /\ mutable \in BOOLEAN)'
    BY PlacesKnown, PTL
  <2> QED BY <2>1
<1>2. /\ caretPos \in Nat /\ mutable \in BOOLEAN /\ dataSize \in Nat
  BY PlacesKnown DEF EditInv
<1> DEFINE Known == DataOK' /\ TypedOK' /\ TypedDigitsStand' /\ editing' \in {editing, "none"}
           InterpTold == IsInterp(interp)' /\ RowsFollowData'
<1>3. ASSUME NEW key \in Nat, NEW r \in BOOLEAN,
             (OnKeyDown(key, r) /\ key \in 0..HalfValues - 1) \/ OnChar(key, r)
      PROVE  Known /\ InterpTold
  <2>1. /\ DataOK' /\ TypedOK' /\ TypedDigitsStand'
    BY <1>3, KeyStands, KeyTyped DEF EditInv, EditOK
  <2>2. PICK byte : Store(byte, r)
    BY <1>3 DEF OnKeyDown, OnChar
  <2>3. editing' = "none" /\ mutable' = mutable
    BY <2>2 DEF Store, FocusOnHex, CaretMoveRight, caretElse, dataVars
  <2> DEFINE new == Put(data, caretPos, <<byte>>)
             stored == UpdateData(interp, new, caretPos, mutable)
  <2>4. /\ data' = new
        /\ interp' = IF keyDown' THEN stored ELSE UpdateData(stored, new, caretPos', mutable)
    BY <2>2 DEF Store
  <2>5. ASSUME keyDown' PROVE InterpTold
    BY <1>2, <2>3, <2>4, <2>5, UpdateFollows DEF EditInv, EditOK
  <2>6. ASSUME ~keyDown' PROVE InterpTold
    <3>1. IsInterp(stored)
      BY <1>2, UpdateFacts DEF EditInv, EditOK
    <3> HIDE DEF stored
    <3>2. interp' = UpdateData(stored, new, caretPos', mutable)
      BY <2>4, <2>6
    <3> HIDE DEF new
    <3> QED BY <1>1, <1>2, <2>3, <2>4, <3>1, <3>2, UpdateFollows
  <2>7. InterpTold
    BY <2>5, <2>6
  <2> QED BY <2>1, <2>3, <2>7
<1>4. ASSUME NEW bytes \in Clips, ClipboardPaste(bytes)
      PROVE  Known /\ InterpTold
  <2>1. DataOK'
    <3>1. Pasted(bytes) \in Seq(Nat)
      BY PastedType DEF EditInv
    <3>2. data' = Put(data, caretPos, Pasted(bytes)) /\ dataSize' = dataSize
      BY <1>4 DEF ClipboardPaste, vars, dataVars
    <3> QED BY <1>2, <3>1, <3>2, PutFacts DEF DataOK, EditInv, EditOK
  <2>2. InterpTold
    BY <1>1, <1>4, UpdatedFollows DEF ClipboardPaste, EditInv, EditOK
  <2> QED BY <1>4, <2>1, <2>2, NothingStands DEF ClipboardPaste, FocusAnywhere, Change, Forget
<1>5. ASSUME FillWithZeros PROVE Known /\ InterpTold
  <2>1. DataOK'
    <3>1. data' = [i \in 1..dataSize |-> IF i - 1 \in Covered(sel) THEN 0 ELSE data[i]] /\ dataSize' = dataSize
      BY <1>5 DEF FillWithZeros, vars, dataVars
    <3>2. \A i \in 1..dataSize : (IF i - 1 \in Covered(sel) THEN 0 ELSE data[i]) \in Nat
      BY DEF DataOK, EditInv, EditOK
    <3> QED BY <1>2, <3>1, <3>2 DEF DataOK
  <2>2. InterpTold
    BY <1>1, <1>5, UpdatedFollows DEF FillWithZeros, EditInv, EditOK
  <2> QED BY <1>5, <2>1, <2>2, NothingStands DEF FillWithZeros, FocusAnywhere, Change, Forget
<1>6. Known /\ InterpTold
  <2>1. 0..HalfValues - 1 \subseteq Nat /\ 0..ByteValues - 1 \subseteq Nat
    OBVIOUS
  <2> HIDE DEF Known, InterpTold
  <2> QED BY <1>3, <1>4, <1>5, <2>1 DEF ModifyNext
<1> QED BY <1>6 DEF EditInv, EditOK

\* What a user enters in a row is written where the interpreter is, if it
\* fits.
LEMMA EntryFits ==
  ASSUME EditInv, NEW text \in TextsOf(editing), OnNotifyListSetData(text)
  PROVE  /\ DataOK' /\ editing' = "none" /\ typed' = NothingTyped
         /\ UNCHANGED vars /\ interp' = UpdateData(interp, data', caretPos, mutable)
<1> DEFINE row == editing
           size == IF row = "BINARY" THEN interp.binSize ELSE RowSize[row]
           there == At(data, interp.offset, size)
           bytes == IF row = "BINARY"
                    THEN IF size = 16 THEN <<>> ELSE Ordered(BytesOf(text[1], size), interp.bigEndian)
                    ELSE SetValue(row, text, there, interp.bigEndian)
           new == IF interp.offset + Len(bytes) <= dataSize THEN Put(data, interp.offset, bytes) ELSE data
<1>1. /\ row # "none" /\ (row = "GUIDTIME" => interp.offset + 16 <= dataSize)
      /\ data' = new /\ interp' = UpdateData(interp, new, caretPos, mutable)
      /\ editing' = "none" /\ typed' = NothingTyped /\ UNCHANGED vars
  BY DEF OnNotifyListSetData
<1>2. row \in Rows /\ text \in Texts[row]
  BY <1>1 DEF EditInv, EditOK, TextsOf
<1>3. /\ interp.offset \in Nat /\ interp.binSize \in Nat
      /\ data \in Seq(Nat) /\ Len(data) = dataSize /\ dataSize \in Nat
  BY PlacesKnown DEF EditInv, EditOK, IsInterp, DataOK
<1>4. bytes \in Seq(Nat)
  <2>1. CASE row = "BINARY"
    <3>1. text[1] \in Int
      <4>1. text \in Seq(Nat) /\ Len(text) = (CASE row = "SYSTEMTIME" -> 7 [] row = "GUID" -> 11 [] OTHER -> 1)
        BY <1>2, EditAssumption
      <4> QED BY <2>1, <4>1
    <3> DEFINE number == text[1]
               count == interp.binSize
    <3> HIDE DEF number, count
    <3>2. Ordered(BytesOf(number, count), interp.bigEndian) \in Seq(Nat)
      BY <1>3, <3>1, BytesOfType, OrderedType DEF number, count
    <3>3. <<>> \in Seq(Nat)
      OBVIOUS
    <3> QED BY <2>1, <3>2, <3>3 DEF number, count
  <2>2. CASE row # "BINARY"
    <3>1. row = "GUIDTIME" => HasGuid(there)
      <4> SUFFICES ASSUME row = "GUIDTIME" PROVE HasGuid(there)
        OBVIOUS
      <4>1. size = 16 /\ there = SubSeq(data, interp.offset + 1, interp.offset + 16)
        BY DEF RowSize, At
      <4>2. \A i \in interp.offset + 1..interp.offset + 16 : data[i] \in Nat
        BY <1>1, <1>3
      <4> DEFINE from == interp.offset + 1
                 to == interp.offset + 16
      <4>3. from \in Int /\ to \in Int /\ to - from + 1 = 16 /\ from <= to
        BY <1>3
      <4> HIDE DEF from, to
      <4>4. SubSeq(data, from, to) \in Seq(Nat) /\ Len(SubSeq(data, from, to)) >= 16
        BY <4>2, <4>3, SubSeqProperties DEF from, to
      <4> QED BY <4>1, <4>4 DEF HasGuid, from, to
    <3> HIDE DEF there
    <3>2. SetValue(row, text, there, interp.bigEndian) \in Seq(Nat)
      BY <1>2, <2>2, <3>1, SetValueType
    <3> QED BY <2>2, <3>2
  <2> QED BY <2>1, <2>2
<1> HIDE DEF bytes
<1>5. new \in Seq(Nat) /\ Len(new) = Len(data)
  BY <1>3, <1>4, PutFacts
<1>6. dataSize' = dataSize
  BY <1>1 DEF vars, dataVars
<1> HIDE DEF new
<1> QED BY <1>1, <1>3, <1>5, <1>6 DEF DataOK

\* The data interpreter's own handlers.
LEMMA EditInterp ==
  ASSUME EditInv, InterpNext
  PROVE  EditOK'
<1>1. /\ caretPos \in Nat /\ mutable \in BOOLEAN
      /\ DataOK /\ IsInterp(interp) /\ editing \in Rows \cup {"none"} /\ RowsFollowData
  BY PlacesKnown DEF EditInv, EditOK
<1> DEFINE Known == DataOK' /\ typed' = NothingTyped /\ editing' \in Rows \cup {"none"}
           InterpTold == IsInterp(interp)' /\ RowsFollowData'
           Same == UNCHANGED <<data, dataSize, mutable, caretPos>>
<1>2. ASSUME UNCHANGED vars PROVE UNCHANGED <<dataSize, mutable, caretPos>>
  BY <1>2 DEF vars, dataVars, caretVars
<1>3. ASSUME OpenInterp PROVE Known /\ InterpTold
  <2> DEFINE dlg == [interp EXCEPT !.visible = TRUE]
  <2>1. IsInterp(dlg)
    <3>1. dlg = [visible |-> TRUE, offset |-> interp.offset, rows |-> interp.rows, allowed |-> interp.allowed,
                 bigEndian |-> interp.bigEndian, binSize |-> interp.binSize]
      <4>1. interp = [visible |-> interp.visible, offset |-> interp.offset, rows |-> interp.rows,
                      allowed |-> interp.allowed, bigEndian |-> interp.bigEndian, binSize |-> interp.binSize]
        BY <1>1 DEF IsInterp
      <4> DEFINE open == TRUE
      <4> HIDE DEF open
      <4>2. [interp EXCEPT !.visible = open]
              = [visible |-> open, offset |-> interp.offset, rows |-> interp.rows, allowed |-> interp.allowed,
                 bigEndian |-> interp.bigEndian, binSize |-> interp.binSize]
        BY <4>1
      <4> QED BY <4>2 DEF open
    <3> HIDE DEF dlg
    <3> QED BY <1>1, <3>1 DEF IsInterp
  <2>2. Same /\ editing' \in {editing, "none"} /\ typed' = NothingTyped
    BY <1>2, <1>3 DEF OpenInterp, FocusAnywhere, NoChange, Forget
  <2>3. interp' = UpdateData(dlg, data, caretPos, mutable)
    BY <1>3 DEF OpenInterp
  <2> HIDE DEF dlg
  <2>4. InterpTold
    BY <1>1, <2>1, <2>2, <2>3, UpdateFollows
  <2> QED BY <1>1, <2>2, <2>4 DEF DataOK
<1>4. ASSUME CloseInterp PROVE Known /\ InterpTold
  <2>1. interp' = [interp EXCEPT !.visible = FALSE] /\ interp'.visible = FALSE
    BY <1>1, <1>4 DEF CloseInterp, IsInterp
  <2>2. InterpTold
    BY <1>1, <2>1 DEF IsInterp, RowsFollowData
  <2> QED BY <1>1, <1>2, <1>4, <2>2 DEF CloseInterp, FocusOnHex, NoChange, Forget, DataOK
<1>5. ASSUME OnActivate PROVE Known /\ InterpTold
  <2>1. Same /\ editing' = editing /\ typed' = NothingTyped /\ Updated
    BY <1>2, <1>5 DEF OnActivate, NoChange, Forget
  <2>2. InterpTold
    BY <1>1, <2>1, UpdatedFollows
  <2> QED BY <1>1, <2>1, <2>2 DEF DataOK
<1>6. ASSUME OnCheckBigEndian PROVE Known /\ InterpTold
  <2> DEFINE dlg == [interp EXCEPT !.bigEndian = ~@]
  <2>1. IsInterp(dlg)
    BY <1>1 DEF IsInterp
  <2>2. Same /\ editing' = "none" /\ typed' = NothingTyped
    BY <1>2, <1>6 DEF OnCheckBigEndian, FocusOnHex, NoChange, Forget
  <2>3. interp' = UpdateData(dlg, data, caretPos, mutable)
    BY <1>6 DEF OnCheckBigEndian
  <2> HIDE DEF dlg
  <2>4. InterpTold
    BY <1>1, <2>1, <2>2, <2>3, UpdateFollows
  <2> QED BY <1>1, <2>2, <2>4 DEF DataOK
<1>7. ASSUME NEW row \in Rows, OnNotifyListItemChanged(row) PROVE Known /\ InterpTold
  <2>1. Same /\ editing' = "none" /\ typed' = NothingTyped /\ row # "BINARY" /\ UNCHANGED <<keyDown, behind>>
    BY <1>2, <1>7 DEF OnNotifyListItemChanged, FocusOnHex, NoChange, Forget
  <2>2. RowSize[row] \in Nat
    BY <2>1 DEF Rows, Numbers, RowSize
  <2> DEFINE fits == interp.offset + RowSize[row] <= dataSize /\ RowSize[row] # 16
             shown == IF fits THEN <<Number(At(data, interp.offset, RowSize[row]))>> ELSE NoText
             allowed == IF fits THEN interp.allowed \cup {"BINARY"} ELSE interp.allowed \ {"BINARY"}
  <2>3. interp' = [interp EXCEPT !.binSize = RowSize[row], !.rows["BINARY"] = shown, !.allowed = allowed]
    BY <1>7 DEF OnNotifyListItemChanged
  <2>4. \A other \in Rows \ {"BINARY"} : other \in allowed <=> other \in interp.allowed
    OBVIOUS
  <2> HIDE DEF fits, shown, allowed
  <2>5. /\ interp'.visible = interp.visible /\ interp'.offset = interp.offset
        /\ interp'.bigEndian = interp.bigEndian /\ interp'.binSize = RowSize[row]
        /\ interp'.allowed = allowed /\ interp'.rows = [interp.rows EXCEPT !["BINARY"] = shown]
        /\ interp' = [visible |-> interp'.visible, offset |-> interp'.offset, rows |-> interp'.rows,
                      allowed |-> interp'.allowed, bigEndian |-> interp'.bigEndian, binSize |-> interp'.binSize]
    BY <1>1, <2>3 DEF IsInterp
  <2>6. /\ interp'.rows = [other \in Rows |-> interp'.rows[other]]
        /\ \A other \in Rows \ {"BINARY"} : interp'.rows[other] = interp.rows[other]
    <3>1. interp.rows = [other \in Rows |-> interp.rows[other]]
      BY <1>1 DEF IsInterp
    <3> QED BY <2>5, <3>1
  <2>7. IsInterp(interp)'
    BY <1>1, <2>2, <2>5, <2>6 DEF IsInterp
  <2>8. RowsFollowData'
    <3>1. \A other \in Rows \ {"BINARY"} :
            RowText(interp', other, data, interp.offset) = RowText(interp, other, data, interp.offset)
      BY <2>5 DEF RowText, SizeOf
    <3>2. RowsOf(interp, data, mutable) => RowsOf(interp', data, mutable)
      BY <2>4, <2>5, <2>6, <3>1 DEF RowsOf
    <3> QED BY <1>1, <2>1, <2>5, <3>2 DEF RowsFollowData
  <2> QED BY <1>1, <2>1, <2>7, <2>8 DEF DataOK
<1>8. ASSUME NEW row \in Rows, OnNotifyListEditBegin(row) PROVE Known /\ InterpTold
  <2>1. Same /\ editing' = row /\ typed' = NothingTyped /\ UNCHANGED <<interp, behind, keyDown>>
    BY <1>2, <1>8 DEF OnNotifyListEditBegin, NoChange, Forget
  <2>2. InterpTold
    BY <1>1, <2>1, UntoldFollows
  <2> QED BY <1>1, <2>1, <2>2 DEF DataOK
<1>9. ASSUME NEW text \in TextsOf(editing), OnNotifyListSetData(text) PROVE Known /\ InterpTold
  <2>1. /\ DataOK' /\ editing' = "none" /\ typed' = NothingTyped
        /\ UNCHANGED vars /\ interp' = UpdateData(interp, data', caretPos, mutable)
    BY <1>9, EntryFits
  <2>2. UNCHANGED <<dataSize, mutable, caretPos>>
    BY <1>2, <2>1
  <2>3. InterpTold
    BY <1>1, <2>1, <2>2, UpdateFollows
  <2> QED BY <2>1, <2>3
<1>10. Known /\ InterpTold
  <2> HIDE DEF Known, InterpTold
  <2> QED BY <1>3, <1>4, <1>5, <1>6, <1>7, <1>8, <1>9 DEF InterpNext
<1> QED BY <1>10, NothingStands DEF EditOK

LEMMA EditInitially == EditInit => EditInv
<1> SUFFICES ASSUME EditInit PROVE EditInv
  OBVIOUS
<1>1. NavInv /\ dataSize = 0
  BY NavInit DEF EditInit, Init
<1>2. DataOK
  BY <1>1, EmptySeq DEF EditInit, DataOK
<1>3. IsInterp(interp) /\ interp.visible = FALSE
  <2> DEFINE rows == [row \in Rows |-> NoText]
             all == Rows
             closed == FALSE
  <2>1. rows = [row \in Rows |-> rows[row]]
    OBVIOUS
  <2>2. interp = [visible |-> closed, offset |-> 0, rows |-> rows, allowed |-> all, bigEndian |-> closed, binSize |-> 1]
    BY DEF EditInit
  <2>3. closed \in BOOLEAN
    OBVIOUS
  <2> HIDE DEF rows, all, closed
  <2>4. /\ interp.visible = closed /\ interp.offset = 0 /\ interp.rows = rows /\ interp.allowed = all
        /\ interp.bigEndian = closed /\ interp.binSize = 1
    BY <2>2
  <2>5. IsInterp(interp)
    BY <2>1, <2>2, <2>3, <2>4 DEF IsInterp
  <2> QED BY <2>4, <2>5 DEF closed
<1>4. TypedOK /\ TypedDigitsStand
  <2>1. typed.keys = <<>> /\ Len(typed.keys) = 0
    BY EmptySeq DEF EditInit, NothingTyped
  <2> QED BY <2>1, EmptySeq DEF EditInit, NothingTyped, TypedOK, TypedDigitsStand
<1>5. RowsFollowData
  BY <1>3 DEF RowsFollowData
<1> QED BY <1>1, <1>2, <1>3, <1>4, <1>5 DEF EditInit, EditInv, EditOK

LEMMA EditStep == EditInv /\ [EditNext /\ [FittingNext]_vars]_<<vars, editVars>> => EditInv'
<1> SUFFICES ASSUME EditInv, [EditNext /\ [FittingNext]_vars]_<<vars, editVars>> PROVE EditInv'
  OBVIOUS
<1>1. NavInv'
  BY NavStep DEF EditInv
<1>2. CASE EditNext
  BY <1>1, <1>2, EditContents, EditUser, EditModify, EditInterp DEF EditNext, EditInv
<1>3. CASE UNCHANGED <<vars, editVars>>
  <2>1. UNCHANGED <<dataSize, mutable, caretPos, caretHigh, textArea, data, keyDown, interp, editing, behind, typed>>
    BY <1>3 DEF vars, dataVars, caretVars, editVars, historyVars
  <2>2. IsInterp(interp)' /\ RowsFollowData'
    BY <2>1, UntoldFollows DEF EditInv, EditOK
  <2>3. DataOK' /\ TypedOK'
    BY <2>1 DEF DataOK, TypedOK, EditInv, EditOK
  <2>4. TypedDigitsStand'
    BY <2>1 DEF EditInv, EditOK, TypedDigitsStand, LastPlace, Place, StandsAt
  <2> QED BY <1>1, <2>1, <2>2, <2>3, <2>4 DEF EditInv, EditOK
<1> QED BY <1>2, <1>3

\* Keys typed one after the other stand one after the other from the place the
\* first was typed at, held or not, in either area and up to the data's last
\* place, whatever the interpreter shows and its user enters meanwhile
\* (OnKeyDown, OnChar, CaretMoveRight, ModifyData).
THEOREM TypedDigitsAlwaysStand == FittingEditSpec => []TypedDigitsStand
<1>1. EditInv => TypedDigitsStand
  BY DEF EditInv, EditOK
<1> QED BY <1>1, EditInitially, EditStep, PTL DEF FittingEditSpec

\* An open interpreter that was told of everything is at the caret, or while a
\* key is held at an earlier place of it; each of its rows shows the bytes
\* there in the byte order that is ticked, is empty if they are not all there,
\* and can be edited exactly if they are and the data can (UpdateData,
\* OnCaretPosChange, OnModifyData, OnKeyUp).
THEOREM InterpFollowsData == FittingEditSpec => []RowsFollowData
<1>1. EditInv => RowsFollowData
  BY DEF EditInv, EditOK
<1> QED BY <1>1, EditInitially, EditStep, PTL DEF FittingEditSpec

-----------------------------------------------------------------------------
(* Commands: what a configuration binds                                    *)

\* A command and a text of its.
Given == Commands \X Seq(STRING)

Keys == [key : {NoKey} \cup KeyWords \cup Wheel, ctrl : BOOLEAN, shift : BOOLEAN, alt : BOOLEAN]
Bindings == Seq([cmd : Commands, keys : Keys])

\* The first of some places of a sequence, or 0.
LEMMA FirstFacts ==
  ASSUME NEW n \in Nat, NEW I \in SUBSET (1..n)
  PROVE  LET at == IF I # {} THEN Min(I) ELSE 0
         IN  /\ at \in 0..n
             /\ I = {} <=> at = 0
             /\ at # 0 => at \in I /\ \A j \in I : at <= j
<1>1. CASE I = {}
  BY <1>1
<1>2. CASE I # {}
  <2>1. PICK x \in I : \A y \in I : x <= y
    <3>1. I \in SUBSET Nat
      OBVIOUS
    <3> QED BY <1>2, <3>1, LeastOf
  <2>2. Min(I) \in I /\ \A y \in I : Min(I) <= y
    BY <2>1 DEF Min
  <2>3. Min(I) \in 1..n
    BY <2>2
  <2> HIDE DEF Min
  <2> QED BY <1>2, <2>2, <2>3
<1> QED BY <1>1, <1>2

LEMMA LastFacts ==
  ASSUME NEW n \in Nat, NEW I \in SUBSET (1..n), I # {}
  PROVE  Max(I) \in I
<1> DEFINE J == {m \in 0..n : n - m \in I}
<1>1. PICK x \in J : \A y \in J : x <= y
  <2>1. PICK i \in I : TRUE
    OBVIOUS
  <2>2. n - i \in 0..n /\ n - (n - i) = i
    OBVIOUS
  <2>3. J \in SUBSET Nat /\ n - i \in J
    BY <2>2
  <2> HIDE DEF J
  <2> QED BY <2>3, LeastOf
<1>2. n - x \in I /\ x \in 0..n
  BY <1>1
<1>3. ASSUME NEW y \in I PROVE n - x >= y
  <2>1. n - y \in 0..n /\ n - (n - y) = y
    OBVIOUS
  <2>2. x <= n - y
    BY <1>1, <2>1
  <2> QED BY <1>2, <2>2
<1> QED BY <1>2, <1>3 DEF Max

\* An empty text names no key.
LEMMA ParseType ==
  ASSUME NEW text \in Seq(STRING)
  PROVE  ParseStr(text) \in Keys /\ (text = <<>> => ParseStr(text).key = NoKey)
<1> DEFINE named == {i \in DOMAIN text : text[i] \in KeyWords \cup Wheel}
           key == IF named = {} THEN NoKey ELSE text[Max(named)]
           names(word) == word \in ToSet(text)
<1>1. Len(text) \in Nat /\ DOMAIN text = 1..Len(text)
  OBVIOUS
<1>2. key \in {NoKey} \cup KeyWords \cup Wheel
  <2>1. CASE named = {}
    BY <2>1
  <2>2. CASE named # {}
    <3>1. named \in SUBSET (1..Len(text))
      BY <1>1
    <3>2. Max(named) \in named
      <4> HIDE DEF named
      <4> QED BY <1>1, <2>2, <3>1, LastFacts
    <3>3. text[Max(named)] \in KeyWords \cup Wheel
      BY <3>2
    <3> QED BY <2>2, <3>3
  <2> QED BY <2>1, <2>2
<1>3. text = <<>> => key = NoKey
  BY <1>1
<1> HIDE DEF key
<1>4. ParseStr(text) = [key |-> key, ctrl |-> names("ctrl"), shift |-> names("shift"), alt |-> names("alt")]
  BY DEF ParseStr, KeyText, key
<1>5. names("ctrl") \in BOOLEAN /\ names("shift") \in BOOLEAN /\ names("alt") \in BOOLEAN
  OBVIOUS
<1> HIDE DEF names
<1> QED BY <1>2, <1>3, <1>4, <1>5 DEF Keys

LEMMA TextsType ==
  ASSUME NEW config \in Configs \cup {Default}
  PROVE  KeyTexts(config) \in Seq(Given)
<1>1. config \in Seq([cmd : STRING, texts : Seq(Seq(STRING))])
  BY CommandAssumption
<1> DEFINE textsOf(member) == [i \in DOMAIN member.texts |-> <<member.cmd, member.texts[i]>>]
           seqs == [i \in DOMAIN config |-> IF config[i].cmd \in Commands THEN textsOf(config[i]) ELSE <<>>]
<1>2. ASSUME NEW i \in 1..Len(config) PROVE seqs[i] \in Seq(Given)
  <2>1. config[i].texts \in Seq(Seq(STRING)) /\ DOMAIN config = 1..Len(config)
    <3>1. config[i] \in [cmd : STRING, texts : Seq(Seq(STRING))]
      BY <1>1, ElementOfSeq
    <3> QED BY <1>1, <3>1
  <2>2. CASE config[i].cmd \in Commands
    <3> DEFINE cmd == config[i].cmd
               texts == config[i].texts
               pairs == [k \in DOMAIN texts |-> <<cmd, texts[k]>>]
    <3>1. seqs[i] = pairs
      <4>1. seqs[i] = textsOf(config[i])
        BY <2>1, <2>2
      <4>2. textsOf(config[i]) = pairs
        OBVIOUS
      <4> QED BY <4>1, <4>2
    <3> HIDE DEF cmd, texts
    <3>2. \A k \in 1..Len(texts) : <<cmd, texts[k]>> \in Given
      BY <2>1, <2>2 DEF Given, cmd, texts
    <3>3. Len(texts) \in Nat /\ DOMAIN texts = 1..Len(texts)
      BY <2>1 DEF texts
    <3>4. pairs \in Seq(Given)
      BY <3>2, <3>3
    <3> QED BY <3>1, <3>4
  <2>3. CASE config[i].cmd \notin Commands
    BY <1>1, <2>3
  <2> QED BY <2>2, <2>3
<1>3. seqs \in Seq(Seq(Given))
  <2>1. Len(config) \in Nat /\ DOMAIN config = 1..Len(config)
    BY <1>1
  <2>2. seqs = [i \in 1..Len(config) |-> seqs[i]]
    BY <2>1
  <2> HIDE DEF seqs
  <2> QED BY <1>2, <2>1, <2>2
<1>4. FlattenSeq(seqs) \in Seq(Given)
  <2> HIDE DEF seqs
  <2> QED BY <1>3, FlattenType
<1> QED BY <1>4 DEF KeyTexts

FirstOf(b, cmd) == SelectInSeq(b, LAMBDA x : x.cmd = cmd)
FirstWith(b, k) == SelectInSeq(b, LAMBDA x : x.keys = k)

LEMMA FirstOfFacts ==
  ASSUME NEW b \in Bindings, NEW cmd
  PROVE  /\ FirstOf(b, cmd) \in 0..Len(b)
         /\ FirstOf(b, cmd) = 0 <=> \A j \in 1..Len(b) : b[j].cmd # cmd
         /\ FirstOf(b, cmd) # 0
              => /\ b[FirstOf(b, cmd)].cmd = cmd
                 /\ \A j \in 1..Len(b) : b[j].cmd = cmd => FirstOf(b, cmd) <= j
<1> DEFINE I == {i \in 1..Len(b) : b[i].cmd = cmd}
           n == Len(b)
<1>1. n \in Nat /\ I \in SUBSET (1..n)
  BY DEF Bindings
<1>2. FirstOf(b, cmd) = IF I # {} THEN Min(I) ELSE 0
  BY DEF FirstOf, SelectInSeq
<1>3. /\ FirstOf(b, cmd) \in 0..n
      /\ I = {} <=> FirstOf(b, cmd) = 0
      /\ FirstOf(b, cmd) # 0 => FirstOf(b, cmd) \in I /\ \A j \in I : FirstOf(b, cmd) <= j
  <2> HIDE DEF I, n
  <2> QED BY <1>1, <1>2, FirstFacts
<1> QED BY <1>3

LEMMA FirstWithFacts ==
  ASSUME NEW b \in Bindings, NEW k
  PROVE  /\ FirstWith(b, k) \in 0..Len(b)
         /\ FirstWith(b, k) = 0 <=> \A j \in 1..Len(b) : b[j].keys # k
         /\ FirstWith(b, k) # 0 => b[FirstWith(b, k)].keys = k
<1> DEFINE I == {i \in 1..Len(b) : b[i].keys = k}
           n == Len(b)
<1>1. n \in Nat /\ I \in SUBSET (1..n)
  BY DEF Bindings
<1>2. FirstWith(b, k) = IF I # {} THEN Min(I) ELSE 0
  BY DEF FirstWith, SelectInSeq
<1>3. /\ FirstWith(b, k) \in 0..n
      /\ I = {} <=> FirstWith(b, k) = 0
      /\ FirstWith(b, k) # 0 => FirstWith(b, k) \in I
  <2> HIDE DEF I, n
  <2> QED BY <1>1, <1>2, FirstFacts
<1> QED BY <1>3

\* A command keeps its first place when bindings change their keys or more come.
LEMMA FirstSame ==
  ASSUME NEW b \in Bindings, NEW more \in Bindings, Len(b) <= Len(more),
         \A i \in 1..Len(b) : more[i].cmd = b[i].cmd,
         NEW cmd, FirstOf(b, cmd) # 0
  PROVE  FirstOf(more, cmd) = FirstOf(b, cmd)
<1> DEFINE at == FirstOf(b, cmd)
           to == FirstOf(more, cmd)
<1>1. Len(b) \in Nat /\ Len(more) \in Nat
  BY DEF Bindings
<1>2. at \in 1..Len(b) /\ b[at].cmd = cmd /\ \A j \in 1..Len(b) : b[j].cmd = cmd => at <= j
  BY <1>1, FirstOfFacts
<1>3. at \in 1..Len(more) /\ more[at].cmd = cmd
  BY <1>1, <1>2
<1>4. to # 0
  BY <1>3, FirstOfFacts
<1>5. to \in 1..Len(more) /\ more[to].cmd = cmd /\ to <= at
  BY <1>1, <1>3, <1>4, FirstOfFacts
<1>6. to \in 1..Len(b) /\ b[to].cmd = cmd
  BY <1>1, <1>2, <1>5
<1>7. at <= to
  BY <1>2, <1>6
<1> QED BY <1>2, <1>5, <1>7

\* Where the first n texts give a command a key.
GivenTo(texts, n, cmd) ==
  {j \in 1..n : texts[j][1] = cmd /\ ParseStr(texts[j][2]).key # NoKey}

IsFirst(j, J) == j \in J /\ \A l \in J : j <= l

\* Each command has a place, with the first key it is given; its other keys
\* are bound as well, and there is no key of which the texts say nothing.
KeysBound(b, texts, n) ==
  /\ b \in Bindings
  /\ \A cmd \in Commands :
       /\ FirstOf(b, cmd) # 0
       /\ GivenTo(texts, n, cmd) = {} => b[FirstOf(b, cmd)].keys.key = NoKey
       /\ GivenTo(texts, n, cmd) # {} =>
            \E j \in GivenTo(texts, n, cmd) :
              /\ IsFirst(j, GivenTo(texts, n, cmd))
              /\ b[FirstOf(b, cmd)].keys = ParseStr(texts[j][2])
       /\ \A j \in GivenTo(texts, n, cmd) :
            \E at \in 1..Len(b) : b[at].cmd = cmd /\ b[at].keys = ParseStr(texts[j][2])
  /\ \A at \in 1..Len(b) :
       b[at].keys.key # NoKey =>
         \E j \in GivenTo(texts, n, b[at].cmd) : b[at].keys = ParseStr(texts[j][2])

\* One text more.
LEMMA OneTextMore ==
  ASSUME NEW texts \in Seq(Given), NEW n \in Nat, n < Len(texts), NEW b, KeysBound(b, texts, n)
  PROVE  KeysBound(Bound(b, texts[n + 1][1], texts[n + 1][2]), texts, n + 1)
<1> DEFINE cmd == texts[n + 1][1]
           text == texts[n + 1][2]
           keys == ParseStr(text)
           at == FirstOf(b, cmd)
           new == [cmd |-> cmd, keys |-> keys]
           is == Bound(b, cmd, text)
           was(c) == GivenTo(texts, n, c)
           given(c) == GivenTo(texts, n + 1, c)
<1>1. n + 1 \in 1..Len(texts) /\ texts[n + 1] \in Given
  <2>1. n + 1 \in 1..Len(texts)
    OBVIOUS
  <2> QED BY <2>1, ElementOfSeq
<1>2. cmd \in Commands /\ text \in Seq(STRING)
  BY <1>1 DEF Given
<1>3. keys \in Keys /\ (text = <<>> => keys.key = NoKey)
  BY <1>2, ParseType
<1>4. /\ b \in Bindings /\ Len(b) \in Nat
      /\ \A c \in Commands :
           /\ FirstOf(b, c) # 0
           /\ was(c) = {} => b[FirstOf(b, c)].keys.key = NoKey
           /\ was(c) # {} => \E j \in was(c) : IsFirst(j, was(c)) /\ b[FirstOf(b, c)].keys = ParseStr(texts[j][2])
           /\ \A j \in was(c) : \E i \in 1..Len(b) : b[i].cmd = c /\ b[i].keys = ParseStr(texts[j][2])
      /\ \A i \in 1..Len(b) : b[i].keys.key # NoKey =>
           \E j \in was(b[i].cmd) : b[i].keys = ParseStr(texts[j][2])
  BY DEF KeysBound, Bindings
<1>5. /\ \A c : given(c) = was(c) \cup {j \in {n + 1} : cmd = c /\ keys.key # NoKey}
      /\ \A c : \A j \in was(c) : j <= n + 1
  <2>1. 1..n + 1 = 1..n \cup {n + 1}
    OBVIOUS
  <2> QED BY <2>1 DEF GivenTo
<1>6. \A c : was(c) # {} => \A j : IsFirst(j, was(c)) => IsFirst(j, given(c))
  BY <1>5 DEF IsFirst
<1>7. at \in 1..Len(b) /\ b[at].cmd = cmd
  BY <1>2, <1>4, FirstOfFacts
<1>8. is = IF text = <<>> THEN b
           ELSE IF b[at].keys.key = NoKey THEN [b EXCEPT ![at] = new]
           ELSE Append(b, new)
  BY DEF Bound, FirstOf
<1>9. new \in [cmd : Commands, keys : Keys] /\ new.cmd = cmd /\ new.keys = keys
  BY <1>2, <1>3
<1> HIDE DEF cmd, text, keys, at, new, is, was, given
<1>10. ASSUME text = <<>> PROVE KeysBound(is, texts, n + 1)
  <2>1. is = b /\ \A c : given(c) = was(c)
    BY <1>3, <1>5, <1>8, <1>10
  <2> QED BY <1>4, <2>1 DEF KeysBound, given
<1>11. ASSUME text # <<>>, b[at].keys.key = NoKey PROVE KeysBound(is, texts, n + 1)
  <2>1. is = [b EXCEPT ![at] = new]
    BY <1>8, <1>11
  <2>2. /\ is \in Bindings /\ Len(is) = Len(b)
        /\ \A i \in 1..Len(b) : is[i] = IF i = at THEN new ELSE b[i]
    BY <1>4, <1>7, <1>9, <2>1 DEF Bindings
  <2>3. \A i \in 1..Len(b) : is[i].cmd = b[i].cmd
    BY <1>7, <1>9, <2>2
  <2>4. \A c \in Commands : FirstOf(is, c) = FirstOf(b, c) /\ FirstOf(b, c) \in 1..Len(b)
    <3>1. ASSUME NEW c \in Commands PROVE FirstOf(is, c) = FirstOf(b, c) /\ FirstOf(b, c) \in 1..Len(b)
      <4>1. FirstOf(b, c) # 0
        BY <1>4
      <4>2. FirstOf(is, c) = FirstOf(b, c)
        BY <1>4, <2>2, <2>3, <4>1, FirstSame
      <4> QED BY <1>4, <4>1, <4>2, FirstOfFacts
    <3> QED BY <3>1
  <2>5. was(cmd) = {}
    <3>1. \A j \in was(cmd) : ParseStr(texts[j][2]).key # NoKey
      BY DEF was, GivenTo
    <3> QED BY <1>2, <1>4, <1>11, <3>1 DEF at
  <2>6. given(cmd) = IF keys.key # NoKey THEN {n + 1} ELSE {}
    BY <1>5, <2>5
  <2>7. ASSUME NEW c \in Commands
        PROVE  /\ FirstOf(is, c) # 0
               /\ given(c) = {} => is[FirstOf(is, c)].keys.key = NoKey
               /\ given(c) # {} =>
                    \E j \in given(c) : IsFirst(j, given(c)) /\ is[FirstOf(is, c)].keys = ParseStr(texts[j][2])
               /\ \A j \in given(c) :
                    \E i \in 1..Len(is) : is[i].cmd = c /\ is[i].keys = ParseStr(texts[j][2])
    <3>1. CASE c = cmd
      <4>1. FirstOf(is, c) = at /\ is[at] = new /\ at \in 1..Len(is)
        BY <1>7, <2>2, <2>4, <3>1 DEF at
      <4>2. CASE keys.key = NoKey
        BY <1>7, <1>9, <2>6, <3>1, <4>1, <4>2
      <4>3. CASE keys.key # NoKey
        <5>1. given(c) = {n + 1} /\ IsFirst(n + 1, given(c)) /\ keys = ParseStr(texts[n + 1][2])
          BY <2>6, <3>1, <4>3 DEF IsFirst, keys, text
        <5> QED BY <1>7, <1>9, <3>1, <4>1, <5>1
      <4> QED BY <4>2, <4>3
    <3>2. CASE c # cmd
      <4>1. given(c) = was(c)
        BY <1>5, <3>2
      <4>2. FirstOf(is, c) = FirstOf(b, c) /\ FirstOf(b, c) # at /\ FirstOf(b, c) # 0
        BY <1>4, <1>7, <2>4, <3>2, FirstOfFacts
      <4>3. is[FirstOf(is, c)] = b[FirstOf(b, c)]
        BY <2>2, <2>4, <4>2
      <4>4. \A i \in 1..Len(b) : b[i].cmd = c => is[i] = b[i]
        BY <1>7, <2>2, <3>2
      <4> QED BY <1>4, <2>2, <4>1, <4>2, <4>3, <4>4
    <3> QED BY <3>1, <3>2
  <2>8. ASSUME NEW i \in 1..Len(is), is[i].keys.key # NoKey
        PROVE  \E j \in given(is[i].cmd) : is[i].keys = ParseStr(texts[j][2])
    <3>1. CASE i = at
      <4>1. is[i] = new
        BY <2>2, <3>1
      <4>2. n + 1 \in given(cmd) /\ keys = ParseStr(texts[n + 1][2])
        BY <1>9, <2>6, <2>8, <4>1 DEF keys, text
      <4> QED BY <1>9, <4>1, <4>2
    <3>2. CASE i # at
      <4>1. is[i] = b[i] /\ i \in 1..Len(b)
        BY <2>2, <3>2
      <4> QED BY <1>4, <1>5, <2>8, <4>1
    <3> QED BY <3>1, <3>2
  <2> QED BY <2>2, <2>7, <2>8 DEF KeysBound, given
<1>12. ASSUME text # <<>>, b[at].keys.key # NoKey PROVE KeysBound(is, texts, n + 1)
  <2>1. is = Append(b, new)
    BY <1>8, <1>12
  <2>2. /\ is \in Bindings /\ Len(is) = Len(b) + 1 /\ is[Len(b) + 1] = new
        /\ \A i \in 1..Len(b) : is[i] = b[i]
    BY <1>4, <1>9, <2>1, AppendProperties DEF Bindings
  <2>3. \A c \in Commands : FirstOf(is, c) = FirstOf(b, c) /\ FirstOf(b, c) \in 1..Len(b)
    <3>1. ASSUME NEW c \in Commands PROVE FirstOf(is, c) = FirstOf(b, c) /\ FirstOf(b, c) \in 1..Len(b)
      <4>1. FirstOf(b, c) # 0
        BY <1>4
      <4>2. FirstOf(is, c) = FirstOf(b, c)
        BY <1>4, <2>2, <4>1, FirstSame
      <4> QED BY <1>4, <4>1, <4>2, FirstOfFacts
    <3> QED BY <3>1
  <2>4. was(cmd) # {}
    BY <1>2, <1>4, <1>12 DEF at
  <2>5. ASSUME NEW c \in Commands
        PROVE  /\ FirstOf(is, c) # 0
               /\ given(c) = {} => is[FirstOf(is, c)].keys.key = NoKey
               /\ given(c) # {} =>
                    \E j \in given(c) : IsFirst(j, given(c)) /\ is[FirstOf(is, c)].keys = ParseStr(texts[j][2])
               /\ \A j \in given(c) :
                    \E i \in 1..Len(is) : is[i].cmd = c /\ is[i].keys = ParseStr(texts[j][2])
    <3>1. is[FirstOf(is, c)] = b[FirstOf(b, c)] /\ FirstOf(is, c) # 0
      BY <2>2, <2>3
    <3>2. given(c) = {} => was(c) = {}
      BY <1>5
    <3>3. given(c) # {} => was(c) # {}
      BY <1>5, <2>4
    <3>4. given(c) # {} =>
            \E j \in given(c) : IsFirst(j, given(c)) /\ is[FirstOf(is, c)].keys = ParseStr(texts[j][2])
      BY <1>4, <1>6, <3>1, <3>3 DEF IsFirst
    <3>5. ASSUME NEW j \in given(c)
          PROVE  \E i \in 1..Len(is) : is[i].cmd = c /\ is[i].keys = ParseStr(texts[j][2])
      <4>1. CASE j \in was(c)
        <5>1. PICK i \in 1..Len(b) : b[i].cmd = c /\ b[i].keys = ParseStr(texts[j][2])
          BY <1>4, <4>1
        <5> QED BY <1>4, <2>2, <5>1
      <4>2. CASE j \notin was(c)
        <5>1. j = n + 1 /\ cmd = c /\ keys = ParseStr(texts[n + 1][2])
          BY <1>5, <3>5, <4>2 DEF keys, text
        <5>2. Len(b) + 1 \in 1..Len(is)
          BY <1>4, <2>2
        <5> QED BY <1>9, <2>2, <5>1, <5>2
      <4> QED BY <4>1, <4>2
    <3> QED BY <1>4, <3>1, <3>2, <3>4, <3>5
  <2>6. ASSUME NEW i \in 1..Len(is), is[i].keys.key # NoKey
        PROVE  \E j \in given(is[i].cmd) : is[i].keys = ParseStr(texts[j][2])
    <3>1. CASE i = Len(b) + 1
      <4>1. n + 1 \in given(cmd) /\ keys = ParseStr(texts[n + 1][2])
        BY <1>5, <1>9, <2>2, <2>6, <3>1 DEF keys, text
      <4> QED BY <1>9, <2>2, <3>1, <4>1
    <3>2. CASE i # Len(b) + 1
      <4>1. is[i] = b[i] /\ i \in 1..Len(b)
        BY <1>4, <2>2, <3>2
      <4> QED BY <1>4, <1>5, <2>6, <4>1
    <3> QED BY <3>1, <3>2
  <2> QED BY <2>2, <2>5, <2>6 DEF KeysBound, given
<1> QED BY <1>10, <1>11, <1>12 DEF is, cmd, text

LEMMA BoundType ==
  ASSUME NEW b \in Bindings, NEW pair \in Given
  PROVE  Bound(b, pair[1], pair[2]) \in Bindings
<1> DEFINE cmd == pair[1]
           text == pair[2]
           at == FirstOf(b, cmd)
           new == [cmd |-> cmd, keys |-> ParseStr(text)]
<1>1. cmd \in Commands /\ text \in Seq(STRING)
  BY DEF Given
<1>2. new \in [cmd : Commands, keys : Keys]
  BY <1>1, ParseType
<1>3. Bound(b, cmd, text) = IF text = <<>> THEN b
                            ELSE IF b[at].keys.key = NoKey THEN [b EXCEPT ![at] = new]
                            ELSE Append(b, new)
  BY DEF Bound, FirstOf
<1> HIDE DEF cmd, text, at, new
<1>4. [b EXCEPT ![at] = new] \in Bindings
  <2>1. Len(b) \in Nat /\ b \in [1..Len(b) -> [cmd : Commands, keys : Keys]]
    BY LenProperties DEF Bindings
  <2>2. [b EXCEPT ![at] = new] \in [1..Len(b) -> [cmd : Commands, keys : Keys]]
    BY <1>2, <2>1
  <2> QED BY <2>1, <2>2 DEF Bindings
<1>5. Append(b, new) \in Bindings
  BY <1>2, AppendProperties DEF Bindings
<1>6. Bound(b, cmd, text) \in Bindings
  BY <1>3, <1>4, <1>5
<1> QED BY <1>6 DEF cmd, text

\* Before the first text each command has its place, and none has a key.
LEMMA NothingBound ==
  ASSUME NEW places \in Places, NEW texts
  PROVE  KeysBound(places, texts, 0)
<1>1. PICK order \in Orders : places = [i \in DOMAIN order |-> [cmd |-> order[i], keys |-> Unbound]]
  BY DEF Places
<1> DEFINE n == Cardinality(Commands)
<1>2. order \in [1..n -> Commands] /\ ToSet(order) = Commands
  BY DEF Orders
<1>3. Unbound \in Keys /\ Unbound.key = NoKey
  BY DEF Unbound, KeyText, Keys
<1>4. places = [i \in 1..n |-> [cmd |-> order[i], keys |-> Unbound]]
  BY <1>1, <1>2
<1> HIDE DEF n
<1>5. n \in Nat
  BY CommandAssumption, FS_CardinalityType DEF n
<1>6. /\ places \in Bindings /\ Len(places) = n
      /\ \A i \in 1..n : places[i].cmd = order[i] /\ places[i].keys = Unbound
  BY <1>2, <1>3, <1>4, <1>5 DEF Bindings
<1>7. ASSUME NEW cmd \in Commands
      PROVE  FirstOf(places, cmd) # 0 /\ places[FirstOf(places, cmd)].keys.key = NoKey
  <2>1. PICK i \in 1..n : order[i] = cmd
    BY <1>2 DEF ToSet
  <2>2. FirstOf(places, cmd) # 0 /\ FirstOf(places, cmd) \in 0..n
    BY <1>6, <2>1, FirstOfFacts
  <2>3. FirstOf(places, cmd) \in 1..n
    BY <1>5, <2>2
  <2> QED BY <1>3, <1>6, <2>2, <2>3
<1>8. \A cmd : GivenTo(texts, 0, cmd) = {}
  BY DEF GivenTo
<1> QED BY <1>3, <1>6, <1>7, <1>8 DEF KeysBound

\* All texts of a configuration.
LEMMA AllBound ==
  ASSUME NEW places \in Places, NEW config \in Configs \cup {Default}
  PROVE  KeysBound(BoundAll(places, config), KeyTexts(config), Len(KeyTexts(config)))
<1> DEFINE texts == KeyTexts(config)
           n == Len(texts)
           F == [k \in 1..n |-> [b \in Bindings |-> Bound(b, texts[k][1], texts[k][2])]]
           G(bound) == [i \in 0..n |-> IF i = 0 THEN places
                                       ELSE Bound(bound[i - 1], texts[i][1], texts[i][2])]
           upTo == CHOOSE bound : bound = G(bound)
<1>1. texts \in Seq(Given)
  BY TextsType
<1>2. BoundAll(places, config) = upTo[n]
  BY Zenon DEF BoundAll
<1>3. KeysBound(places, texts, 0)
  BY NothingBound
<1> HIDE DEF texts
<1>4. places \in Bindings /\ n \in Nat
  BY <1>1, <1>3 DEF KeysBound
<1>5. \A k \in 1..n : \A b \in Bindings : Bound(b, texts[k][1], texts[k][2]) \in Bindings
  <2>1. \A k \in 1..n : texts[k] \in Given
    BY <1>1, ElementOfSeq
  <2> QED BY <2>1, BoundType
<1>6. F \in [1..n -> [Bindings -> Bindings]]
  BY <1>5
<1>7. PICK f \in [0..n -> Bindings] : Recurs(f, n, places, F)
  <2> HIDE DEF F, n
  <2> QED BY <1>4, <1>6, RecursionExists
<1> HIDE DEF n
<1>8. f = G(f)
  <2>1. ASSUME NEW k \in 1..n PROVE f[k] = Bound(f[k - 1], texts[k][1], texts[k][2])
    <3>1. k - 1 \in 0..n
      BY <1>4, <2>1
    <3> QED BY <1>7, <2>1, <3>1 DEF Recurs
  <2>2. f[0] = places
    BY <1>7 DEF Recurs
  <2> QED BY <1>4, <2>1, <2>2
<1>9. upTo = G(upTo)
  <2> HIDE DEF G
  <2> QED BY <1>8, Zenon
<1>10. \A i \in 0..n : upTo[i] = IF i = 0 THEN places ELSE Bound(upTo[i - 1], texts[i][1], texts[i][2])
  <2> HIDE DEF upTo
  <2> QED BY <1>9
<1> HIDE DEF upTo
<1> DEFINE Bad == {k \in 0..n : ~KeysBound(upTo[k], texts, k)}
<1>11. Bad = {}
  <2> SUFFICES ASSUME Bad # {} PROVE FALSE
    OBVIOUS
  <2>1. PICK k \in Bad : \A j \in Bad : k <= j
    <3>1. Bad \in SUBSET Nat
      BY <1>4
    <3> HIDE DEF Bad
    <3> QED BY <3>1, LeastOf
  <2>2. k # 0
    BY <1>3, <1>4, <1>10, <2>1
  <2>3. k - 1 \in Nat /\ k - 1 \in 0..n /\ ~(k <= k - 1) /\ k - 1 < n /\ k - 1 + 1 = k
    BY <1>4, <2>1, <2>2
  <2>4. KeysBound(upTo[k - 1], texts, k - 1)
    BY <2>1, <2>3
  <2>5. KeysBound(Bound(upTo[k - 1], texts[k - 1 + 1][1], texts[k - 1 + 1][2]), texts, k - 1 + 1)
    BY <1>1, <2>3, <2>4, OneTextMore DEF n
  <2>6. upTo[k] = Bound(upTo[k - 1], texts[k][1], texts[k][2])
    BY <1>10, <2>1, <2>2
  <2> QED BY <2>1, <2>3, <2>5, <2>6
<1>12. KeysBound(upTo[n], texts, n)
  BY <1>4, <1>11
<1> QED BY <1>2, <1>12 DEF texts, n

-----------------------------------------------------------------------------
(* Commands: keys, the wheel and the menu                                  *)

\* The bindings are those of the configuration read last, and each item that has
\* a key shows its first binding.
BindingsHold ==
  /\ configured \in Configs \cup {Default}
  /\ KeysBound(keyBind, KeyTexts(configured), Len(KeyTexts(configured)))

ItemsShow ==
  \A item \in Items :
    LET keys == keyBind[FirstOf(keyBind, item)].keys
    IN  keys.key # NoKey => menuKey[item] = keys

\* The inductive invariant.
CmdInv == created => BindingsHold /\ ItemsShow

LEMMA ConfigSet ==
  ASSUME NEW config \in Configs \cup {Default}, NEW shown, SetConfig(config, shown)
  PROVE  BindingsHold' /\ ItemsShow'
<1>1. PICK places \in Places :
        /\ keyBind' = BoundAll(places, config) /\ configured' = config
        /\ menuKey' = [item \in Items |->
                         LET keys == keyBind'[FirstOf(keyBind', item)].keys
                         IN  IF keys.key = NoKey THEN shown[item] ELSE keys]
  BY DEF SetConfig, FirstOf
<1>2. BindingsHold'
  BY <1>1, AllBound DEF BindingsHold
<1>3. ItemsShow'
  BY <1>1 DEF ItemsShow
<1> QED BY <1>2, <1>3

LEMMA CmdStep ==
  ASSUME CmdInv, [CmdNext]_cmdVars
  PROVE  CmdInv'
<1>1. CASE UNCHANGED cmdVars
  BY <1>1 DEF CmdInv, BindingsHold, ItemsShow, cmdVars
<1>2. CASE Create
  BY <1>2, ConfigSet DEF Create, CmdInv
<1>3. CASE CmdDestroy
  BY <1>3 DEF CmdDestroy, CmdInv
<1>4. ASSUME NEW config \in Configs, Configure(config) PROVE CmdInv'
  <2>1. SetConfig(config, menuKey)
    BY <1>4 DEF Configure
  <2> QED BY <2>1, ConfigSet DEF CmdInv
<1>5. ASSUME UNCHANGED <<created, keyBind, menuKey, configured>> PROVE CmdInv'
  BY <1>5 DEF CmdInv, BindingsHold, ItemsShow
<1>6. ASSUME NEW k \in Presses, CmdKeyDown(k) \/ OnSysKeyDown(k) \/ OnMouseWheel(k) PROVE CmdInv'
  BY <1>5, <1>6 DEF CmdKeyDown, OnSysKeyDown, OnMouseWheel
<1>7. ASSUME NEW cmds \in SubMenus, OnInitMenuPopup(cmds) PROVE CmdInv'
  BY <1>5, <1>7 DEF OnInitMenuPopup
<1>8. ASSUME NEW item \in Items, ClickItem(item) PROVE CmdInv'
  BY <1>5, <1>8 DEF ClickItem
<1>9. ASSUME NEW new \in FactSets, ChangeFacts(new) PROVE CmdInv'
  BY <1>5, <1>9 DEF ChangeFacts
<1> QED BY <1>1, <1>2, <1>3, <1>4, <1>6, <1>7, <1>8, <1>9 DEF CmdNext

\* What MenuKeysWork says of a command is what the texts give it.
LEMMA PlacesGiven ==
  ASSUME NEW config \in Configs \cup {Default}, NEW cmd
  PROVE  /\ KeyPlaces(config, cmd) = GivenTo(KeyTexts(config), Len(KeyTexts(config)), cmd)
         /\ \A i : KeyAt(config, i) = ParseStr(KeyTexts(config)[i][2])
<1>1. KeyTexts(config) \in Seq(Given)
  BY TextsType
<1>2. DOMAIN KeyTexts(config) = 1..Len(KeyTexts(config))
  BY <1>1
<1> QED BY <1>2 DEF KeyPlaces, KeyAt, GivenTo

LEMMA MinIs ==
  ASSUME NEW J \in SUBSET Nat, NEW j, IsFirst(j, J)
  PROVE  Min(J) = j
<1>1. j \in J /\ \A l \in J : j <= l
  BY DEF IsFirst
<1>2. \A x \in J : (\A l \in J : x <= l) => x = j
  <2>1. ASSUME NEW x \in J, \A l \in J : x <= l PROVE x = j
    BY <1>1, <2>1
  <2> QED BY <2>1
<1> QED BY <1>1, <1>2 DEF Min

\* What is bound to a key, of all bindings that hold.
LEMMA BoundFacts ==
  ASSUME BindingsHold
  PROVE  /\ keyBind \in Bindings
         /\ \A cmd \in Commands :
              /\ FirstOf(keyBind, cmd) \in 1..Len(keyBind)
              /\ keyBind[FirstOf(keyBind, cmd)].cmd = cmd
              /\ KeyPlaces(configured, cmd) # {} =>
                   \E j \in KeyPlaces(configured, cmd) :
                     /\ IsFirst(j, KeyPlaces(configured, cmd))
                     /\ keyBind[FirstOf(keyBind, cmd)].keys = KeyAt(configured, j)
              /\ \A k \in KeysOf(configured, cmd) :
                   k.key # NoKey /\ \E at \in 1..Len(keyBind) : keyBind[at].keys = k
         /\ \A at \in 1..Len(keyBind) :
              /\ keyBind[at].cmd \in Commands /\ keyBind[at].keys \in Keys
              /\ keyBind[at].keys.key # NoKey => keyBind[at].keys \in KeysOf(configured, keyBind[at].cmd)
<1> DEFINE texts == KeyTexts(configured)
           n == Len(texts)
<1>1. /\ configured \in Configs \cup {Default} /\ KeysBound(keyBind, texts, n)
      /\ keyBind \in Bindings
  BY DEF BindingsHold, KeysBound
<1>2. /\ \A cmd : KeyPlaces(configured, cmd) = GivenTo(texts, n, cmd)
      /\ \A i : KeyAt(configured, i) = ParseStr(texts[i][2])
  BY <1>1, PlacesGiven
<1> HIDE DEF texts, n
<1>3. \A cmd \in Commands : FirstOf(keyBind, cmd) # 0
  BY <1>1 DEF KeysBound
<1>4. Len(keyBind) \in Nat
  BY <1>1 DEF Bindings
<1>5. \A cmd \in Commands :
        FirstOf(keyBind, cmd) \in 1..Len(keyBind) /\ keyBind[FirstOf(keyBind, cmd)].cmd = cmd
  <2>1. ASSUME NEW cmd \in Commands
        PROVE  FirstOf(keyBind, cmd) \in 1..Len(keyBind) /\ keyBind[FirstOf(keyBind, cmd)].cmd = cmd
    <3>1. FirstOf(keyBind, cmd) # 0
      BY <1>3
    <3>2. FirstOf(keyBind, cmd) \in 0..Len(keyBind) /\ keyBind[FirstOf(keyBind, cmd)].cmd = cmd
      BY <1>1, <3>1, FirstOfFacts
    <3> QED BY <1>4, <3>1, <3>2
  <2> QED BY <2>1
<1>6. ASSUME NEW cmd \in Commands, KeyPlaces(configured, cmd) # {}
      PROVE  \E j \in KeyPlaces(configured, cmd) :
               /\ IsFirst(j, KeyPlaces(configured, cmd))
               /\ keyBind[FirstOf(keyBind, cmd)].keys = KeyAt(configured, j)
  <2>1. GivenTo(texts, n, cmd) # {}
    BY <1>2, <1>6
  <2>2. PICK j \in GivenTo(texts, n, cmd) :
          /\ IsFirst(j, GivenTo(texts, n, cmd))
          /\ keyBind[FirstOf(keyBind, cmd)].keys = ParseStr(texts[j][2])
    BY <1>1, <2>1 DEF KeysBound
  <2>3. /\ j \in KeyPlaces(configured, cmd) /\ IsFirst(j, KeyPlaces(configured, cmd))
        /\ keyBind[FirstOf(keyBind, cmd)].keys = KeyAt(configured, j)
    BY <1>2, <2>2
  <2> QED BY <2>3
<1>7. ASSUME NEW cmd \in Commands, NEW k \in KeysOf(configured, cmd)
      PROVE  k.key # NoKey /\ \E at \in 1..Len(keyBind) : keyBind[at].keys = k
  <2>1. PICK i \in KeyPlaces(configured, cmd) : k = KeyAt(configured, i)
    BY DEF KeysOf
  <2>2. i \in GivenTo(texts, n, cmd) /\ k = ParseStr(texts[i][2])
    BY <1>2, <2>1
  <2>3. k.key # NoKey
    BY <2>2 DEF GivenTo
  <2>4. \E at \in 1..Len(keyBind) : keyBind[at].cmd = cmd /\ keyBind[at].keys = ParseStr(texts[i][2])
    BY <1>1, <2>2 DEF KeysBound
  <2> QED BY <2>2, <2>3, <2>4
<1>8. ASSUME NEW at \in 1..Len(keyBind)
      PROVE  /\ keyBind[at].cmd \in Commands /\ keyBind[at].keys \in Keys
             /\ keyBind[at].keys.key # NoKey =>
                  keyBind[at].keys \in KeysOf(configured, keyBind[at].cmd)
  <2>1. keyBind[at] \in [cmd : Commands, keys : Keys]
    BY <1>1, ElementOfSeq DEF Bindings
  <2>2. ASSUME keyBind[at].keys.key # NoKey
        PROVE  keyBind[at].keys \in KeysOf(configured, keyBind[at].cmd)
    <3>1. PICK j \in GivenTo(texts, n, keyBind[at].cmd) : keyBind[at].keys = ParseStr(texts[j][2])
      BY <1>1, <2>2 DEF KeysBound
    <3>2. j \in KeyPlaces(configured, keyBind[at].cmd) /\ keyBind[at].keys = KeyAt(configured, j)
      BY <1>2, <3>1
    <3> QED BY <3>2 DEF KeysOf
  <2> QED BY <2>1, <2>2
<1> QED BY <1>1, <1>5, <1>6, <1>7, <1>8

LEMMA PlacesNat ==
  ASSUME NEW config, NEW cmd, config \in Configs \cup {Default}
  PROVE  KeyPlaces(config, cmd) \in SUBSET Nat
<1>1. KeyTexts(config) \in Seq(Given)
  BY TextsType
<1>2. DOMAIN KeyTexts(config) \in SUBSET Nat
  BY <1>1
<1> QED BY <1>2 DEF KeyPlaces

LEMMA InvMenu == CmdInv => MenuKeysWork
<1> SUFFICES ASSUME CmdInv, created, NEW cmd \in Commands
             PROVE  /\ (cmd \in Items /\ KeyPlaces(configured, cmd) # {}) =>
                         menuKey[cmd] = KeyAt(configured, Min(KeyPlaces(configured, cmd)))
                    /\ \A k \in KeysOf(configured, cmd) :
                         /\ BoundTo(k) # 0
                         /\ \/ keyBind[BoundTo(k)].cmd = cmd
                            \/ \E other \in Commands \ {cmd} : k \in KeysOf(configured, other)
  BY DEF MenuKeysWork
<1>1. BindingsHold /\ ItemsShow
  BY DEF CmdInv
<1>2. ASSUME cmd \in Items, KeyPlaces(configured, cmd) # {}
      PROVE  menuKey[cmd] = KeyAt(configured, Min(KeyPlaces(configured, cmd)))
  <2>1. PICK j \in KeyPlaces(configured, cmd) :
          /\ IsFirst(j, KeyPlaces(configured, cmd))
          /\ keyBind[FirstOf(keyBind, cmd)].keys = KeyAt(configured, j)
    BY <1>1, <1>2, BoundFacts
  <2>2. KeyAt(configured, j).key # NoKey
    BY <2>1 DEF KeyPlaces
  <2>3. menuKey[cmd] = KeyAt(configured, j)
    BY <1>1, <1>2, <2>1, <2>2 DEF ItemsShow
  <2>4. Min(KeyPlaces(configured, cmd)) = j
    BY <1>1, <2>1, PlacesNat, MinIs DEF BindingsHold
  <2> QED BY <2>3, <2>4
<1>3. ASSUME NEW k \in KeysOf(configured, cmd)
      PROVE  /\ BoundTo(k) # 0
             /\ \/ keyBind[BoundTo(k)].cmd = cmd
                \/ \E other \in Commands \ {cmd} : k \in KeysOf(configured, other)
  <2>1. keyBind \in Bindings /\ k.key # NoKey /\ \E at \in 1..Len(keyBind) : keyBind[at].keys = k
    BY <1>1, BoundFacts
  <2>2. BoundTo(k) = FirstWith(keyBind, k)
    BY DEF BoundTo, FirstWith
  <2>3. BoundTo(k) # 0 /\ BoundTo(k) \in 0..Len(keyBind) /\ keyBind[BoundTo(k)].keys = k
    BY <2>1, <2>2, FirstWithFacts
  <2>4. Len(keyBind) \in Nat
    BY <2>1 DEF Bindings
  <2>5. BoundTo(k) \in 1..Len(keyBind)
    BY <2>3, <2>4
  <2>6. keyBind[BoundTo(k)].cmd \in Commands /\ k \in KeysOf(configured, keyBind[BoundTo(k)].cmd)
    BY <1>1, <2>1, <2>3, <2>5, BoundFacts
  <2> QED BY <2>3, <2>6
<1> QED BY <1>2, <1>3

\* A binding that is found and run.
LEMMA RunFacts ==
  ASSUME BindingsHold, NEW keys, NEW by, keys.key # NoKey, Run(BoundTo(keys), by), ran' # ran
  PROVE  ran'.by = by /\ CmdAvail(ran'.cmd) /\ keys \in KeysOf(configured, ran'.cmd)
<1> DEFINE at == BoundTo(keys)
<1>1. at # 0 /\ CmdAvail(keyBind[at].cmd) /\ ran' = [cmd |-> keyBind[at].cmd, by |-> by]
  BY DEF Run
<1>2. keyBind \in Bindings
  BY BoundFacts
<1>3. at = FirstWith(keyBind, keys) /\ Len(keyBind) \in Nat
  BY <1>2 DEF BoundTo, FirstWith, Bindings
<1>4. at \in 0..Len(keyBind) /\ keyBind[at].keys = keys
  BY <1>1, <1>2, <1>3, FirstWithFacts
<1> HIDE DEF at
<1>5. at \in 1..Len(keyBind)
  BY <1>1, <1>3, <1>4
<1>6. keyBind[at].keys \in KeysOf(configured, keyBind[at].cmd)
  BY <1>4, <1>5, BoundFacts
<1> QED BY <1>1, <1>4, <1>6

LEMMA RunsStep ==
  ASSUME CmdInv, [CmdNext]_cmdVars
  PROVE  AsAsked
<1> SUFFICES ASSUME ran' # ran PROVE AsAsked
  BY DEF AsAsked
<1>1. ASSUME NEW k \in Presses
      PROVE  /\ k \in [key : KeyWords \cup Wheel, ctrl : BOOLEAN, shift : BOOLEAN, alt : BOOLEAN]
             /\ k.key # NoKey /\ "f10" \notin Wheel
  BY CommandAssumption DEF Wheel, NoKey
<1>2. ASSUME NEW k \in Presses, CmdKeyDown(k) PROVE AsAsked
  <2>1. BindingsHold /\ Run(BoundTo(k), k) /\ k.key \notin Wheel /\ ~IsSysKey(k)
    BY <1>2 DEF CmdKeyDown, CmdInv
  <2>2. ran'.by = k /\ CmdAvail(ran'.cmd) /\ k \in KeysOf(configured, ran'.cmd)
    BY <1>1, <2>1, RunFacts
  <2>3. Told(k)
    BY <2>1 DEF Told, IsSysKey
  <2> QED BY <2>2, <2>3 DEF AsAsked
<1>3. ASSUME NEW k \in Presses, OnSysKeyDown(k) PROVE AsAsked
  <2> DEFINE held == [k EXCEPT !.alt = TRUE]
  <2>1. BindingsHold /\ Run(BoundTo(held), k) /\ k.key \notin Wheel /\ IsSysKey(k)
    BY <1>3 DEF OnSysKeyDown, CmdInv
  <2>2. held.key # NoKey
    BY <1>1
  <2>3. ran'.by = k /\ CmdAvail(ran'.cmd) /\ held \in KeysOf(configured, ran'.cmd)
    <3> HIDE DEF held
    <3> QED BY <2>1, <2>2, RunFacts
  <2>4. held = [k EXCEPT !.alt = (k.key \notin Wheel)]
    BY <2>1
  <2>5. Told(k) => k = held
    BY <1>1, <2>1 DEF Told, IsSysKey
  <2> HIDE DEF held
  <2> QED BY <2>3, <2>4, <2>5 DEF AsAsked
<1>4. ASSUME NEW k \in Presses, OnMouseWheel(k) PROVE AsAsked
  <2> DEFINE held == [k EXCEPT !.alt = FALSE]
  <2>1. BindingsHold /\ Run(BoundTo(held), k) /\ k.key \in Wheel
    BY <1>4 DEF OnMouseWheel, CmdInv
  <2>2. held.key # NoKey
    BY <1>1
  <2>3. ran'.by = k /\ CmdAvail(ran'.cmd) /\ held \in KeysOf(configured, ran'.cmd)
    <3> HIDE DEF held
    <3> QED BY <2>1, <2>2, RunFacts
  <2>4. held = [k EXCEPT !.alt = (k.key \notin Wheel)]
    BY <2>1
  <2>5. Told(k) => k = held
    BY <1>1, <2>1 DEF Told
  <2> HIDE DEF held
  <2> QED BY <2>3, <2>4, <2>5 DEF AsAsked
<1>5. ASSUME NEW item \in Items, ClickItem(item) PROVE AsAsked
  <2>1. BindingsHold /\ Run(OfItem(item), KeyText(item, FALSE, FALSE, FALSE)) /\ item \in Commands
    BY <1>5 DEF ClickItem, CmdInv, Items
  <2>2. OfItem(item) = FirstOf(keyBind, item)
    BY DEF OfItem, FirstOf
  <2>3. keyBind[OfItem(item)].cmd = item
    BY <2>1, <2>2, BoundFacts
  <2>4. CmdAvail(item) /\ ran' = [cmd |-> item, by |-> KeyText(item, FALSE, FALSE, FALSE)]
    BY <2>1, <2>3 DEF Run
  <2> QED BY <2>4 DEF AsAsked, KeyText
<1>6. ASSUME UNCHANGED ran PROVE FALSE
  BY <1>6
<1> QED BY <1>2, <1>3, <1>4, <1>5, <1>6 DEF CmdNext, Create, CmdDestroy, Configure,
     OnInitMenuPopup, ChangeFacts, cmdVars

\* However many keys a configuration gives a command, in whatever order its
\* members stand, and whichever it was before: an item shows the first key of its
\* command, each key finds a command it was given to, and what runs is available
\* then and was asked for by its own item or by a key of the last configuration.
THEOREM KeysAlwaysRunAsAsked == CmdSpec => KeysRunAsAsked
<1>1. CmdInit => CmdInv
  BY DEF CmdInit, CmdInv
<1>2. CmdInv /\ [CmdNext]_cmdVars => CmdInv'
  BY CmdStep
<1>3. CmdInv => MenuKeysWork
  BY InvMenu
<1>4. CmdInv /\ [CmdNext]_cmdVars => [AsAsked]_cmdVars
  BY RunsStep
<1> QED BY <1>1, <1>2, <1>3, <1>4, PTL DEF CmdSpec, KeysRunAsAsked, RunsAsAsked

=============================================================================
