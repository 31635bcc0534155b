------------------------------ MODULE HexShow -------------------------------
(***************************************************************************)
(* What is drawn: OnPaint draws the lines in sight in layers, one over the *)
(* other: the bytes in their colours, templates, bookmarks, the selection, *)
(* the caret and the interpreter's bytes.  A layer puts the bytes of a     *)
(* line that belong to one item together in one string, with the spaces    *)
(* between them, and draws it from the place of its first byte on.         *)
(* Print draws pages of lines in the same way.                             *)
(***************************************************************************)
EXTENDS HexView, Sequences, SequencesExt

CONSTANTS
  Items,      \* bookmarks, fields or colours
  LastSpan,   \* bound: the first bytes of the data, which are selected
  MaxSpans,   \* bound: spans in a selection of a client or of a list
  PageLines,  \* iLinesInPage, for different printers
  MaxPage,    \* bound: the last page a user asks for
  DataPages   \* page sizes, SetPageSize

\* A printer's page has room for a line, and characters have a width.
ASSUME ShowAssumption ==
  /\ PageLines \subseteq Nat \ {0} /\ MaxPage \in Nat
  /\ DataPages \subseteq Nat \ {0} /\ LastSpan \in Nat /\ MaxSpans \in Nat
  /\ CharWidth \in Nat \ {0}

VARIABLES
  items,     \* the item at each offset, or NoItem: of one of the layers that
             \* have items (HitTest of bookmarks and templates, OnHexGetColor)
  spans,     \* the spans of the selection, or of its highlight
  selBlock   \* m_fSelectionBlock

showVars == <<items, spans, selBlock>>

NoItem  == "none"
Plain == "plain"        \* the colour of bytes that have none of their own
Gap   == [offset |-> -1]
NoRun == [item |-> NoItem]

LineOf(l, o) == o \div l.capacity
ColumnOf(l, o) == o % l.capacity

-----------------------------------------------------------------------------
(* Layers: what is drawn at each offset, or NoItem                           *)

Selected(o) == \E k \in 1..Len(spans) : o \in spans[k].offset..spans[k].offset + spans[k].size - 1

Colours   == [o \in 0..dataSize - 1 |-> IF items[o] = NoItem THEN Plain ELSE items[o]]
Selection == [o \in 0..dataSize - 1 |-> IF Selected(o) THEN "selected" ELSE NoItem]
Interpreted(size) ==
  [o \in 0..dataSize - 1 |->
     IF caretPos + size <= dataSize /\ o \in caretPos..caretPos + size - 1
     THEN "interpreted" ELSE NoItem]

-----------------------------------------------------------------------------
(* One line of one layer                                                   *)

\* The two digits of a byte.
Digits2(o) == <<[offset |-> o, high |-> TRUE], [offset |-> o, high |-> FALSE]>>

\* Mutant: the space between the halves comes one column late.
SpacesLate(l, column) ==
  (IF column % l.group = 0 THEN <<Gap>> ELSE <<>>)
    \o (IF l.group = 1 /\ column = l.capacity \div 2 + 1 THEN <<Gap, Gap>> ELSE <<>>)

\* lmbHexSpaces: what comes before the byte of a column that is not the first.
Spaces(l, column) ==
  (IF column % l.group = 0 THEN <<Gap>> ELSE <<>>)
    \o (IF l.group = 1 /\ column = l.capacity \div 2 THEN <<Gap, Gap>> ELSE <<>>)

\* lmbPoly: the string so far is to be drawn.
Ended(s, spaces) ==
  IF s.run = NoRun THEN s.done ELSE Append(s.done, [s.run EXCEPT !.hex = @ \o spaces])

\* The byte o of a line, in a column: it goes on with its item's string, or
\* ends another item's and begins its own, or belongs to none.
DrawByte(l, layer, s, o, column) ==
  IF layer[o] = NoItem
  THEN [done |-> Ended(s, <<>>), run |-> NoRun]
  ELSE IF s.run.item = layer[o]
  THEN [s EXCEPT !.run.hex = @ \o Spaces(l, column) \o Digits2(o),
                 !.run.text = Append(@, o)]
  ELSE [done |-> Ended(s, Spaces(l, column)),
        run |-> [item |-> layer[o], from |-> o, hex |-> Digits2(o), text |-> <<o>>]]

\* BuildDataToDraw: how many bytes there are for n lines from a line on.
BytesToDraw(l, line, n) == Least(n * l.capacity, dataSize - line * l.capacity)

LineRuns(l, layer, line) ==
  LET from  == line * l.capacity
      count == BytesToDraw(l, line, 1)
      upTo[n \in 0..count] ==
        IF n = 0 THEN [done |-> <<>>, run |-> NoRun]
        ELSE DrawByte(l, layer, upTo[n - 1], from + n - 1, n - 1)
  IN  Ended(upTo[count], <<>>)

DrawHexText(l, line)      == LineRuns(l, Colours, line)
DrawTemplates(l, line)    == LineRuns(l, items, line)
DrawBookmarks(l, line)    == LineRuns(l, items, line)
DrawSelection(l, line)    == LineRuns(l, Selection, line)
DrawSelHighlight(l, line) == LineRuns(l, Selection, line)
DrawDataInterp(l, line, size) == LineRuns(l, Interpreted(size), line)

\* Where the characters of a string come to stand.
HexAt(l, v, run, k) == HexChunkX(l, v, run.from) + (k - 1) * ExtraWidth
TextAt(l, v, run, k) == TextChunkX(l, v, run.from) + (k - 1) * ExtraWidth

\* The line drawn n lines below the first (iterLines).
LineY(l, n) == StartY(l) + n * l.cy

\* FillCapacityString: the columns' numbers above the bytes.
Caption(l) ==
  FlattenSeq([n \in 1..l.capacity |->
    Digits2(n - 1)
      \o (IF n % l.group = 0 /\ n < l.capacity THEN <<Gap>> ELSE <<>>)
      \o (IF l.group = 1 /\ n = l.capacity \div 2 THEN <<Gap, Gap>> ELSE <<>>)])

-----------------------------------------------------------------------------
(* OnPaint                                                                 *)

\* Nothing is drawn in a window that has no room below the captions.
HasRoom(l, v) == v.client["H"] > 0 /\ v.client["V"] > StartY(l) + BottomOff(l)

\* Mutant: the last line is forgotten.
LinesButLast(l, v) == TopLine(l, v)..BottomLine(l, v, dataSize) - 1

\* The lines drawn, of which the last is drawn only if it is counted.
PaintedLines(l, v) == TopLine(l, v)..BottomLine(l, v, dataSize)

\* DrawCaret: one digit, of the high or low half of the byte.
CaretX(l, v, high) == HexChunkX(l, v, caretPos) + (IF high THEN 0 ELSE ExtraWidth)

\* DrawOffsets: an offset is drawn selected if the line has selected bytes
\* (HitTestRange).
OffsetSelected(l, line) ==
  LET first == line * l.capacity
      end   == first + l.capacity
  IN  \E k \in 1..Len(spans) :
        LET from == spans[k].offset
            to   == from + spans[k].size
        IN  \/ from <= first /\ first < to
            \/ first <= from /\ from < end
            \/ from < end /\ end <= to

\* DrawOffsets: each line's offset, and where it is drawn.
DrawOffsets(l, v) ==
  LET top == TopLine(l, v)
  IN  [line \in PaintedLines(l, v) |->
         [offset |-> line * l.capacity, y |-> LineY(l, line - top),
          selected |-> OffsetSelected(l, line)]]

IsPageVisible(l, size) == size > 0 /\ size % l.capacity = 0 /\ size >= l.capacity

\* DrawPageLines: where a line ends a page, for pages of a size.
DrawPageLines(l, v, size) ==
  IF IsPageVisible(l, size)
  THEN {LineY(l, n) : n \in {n \in 1..BottomLine(l, v, dataSize) - TopLine(l, v) :
                               ((TopLine(l, v) + n) * l.capacity) % size = 0}}
  ELSE {}

\* DrawWindow: the lines between the columns, and above and below the rows.
VertLines(l, v) ==
  [k \in 1..4 |-> <<0, SecondLine, ThirdLine(l), FourthLine(l)>>[k] - v.pos["H"]]
HorzLines(l, v) ==
  LET third == v.client["V"] - BottomOff(l)
  IN  <<0, StartY(l) - 1, third, third + (IF l.infoBar THEN InfoHeight ELSE 0)>>

-----------------------------------------------------------------------------
(* Print: the lines of each page, n lines to a page                        *)

TotalLines(l) == dataSize \div l.capacity   \* full ones
TotalPages(l, n) == TotalLines(l) \div n + 1

\* Mutant: a page that ends with the last full line takes the rest with it.
LastLineTaken(l, from, n) ==
  LET end == from + n
  IN  from..(IF end >= TotalLines(l)
             THEN TotalLines(l) + (IF dataSize % l.capacity = 0 THEN 0 ELSE 1) ELSE end) - 1

\* The lines of a page that begins with the line from.
PageFrom(l, from, n) ==
  LET end == from + n
  IN  from..(IF end > TotalLines(l)
             THEN TotalLines(l) + (IF dataSize % l.capacity = 0 THEN 0 ELSE 1) ELSE end) - 1

\* All pages, or those of a range (ppr.nFromPage, ppr.nToPage).
PrintAll(l, n) == [k \in 1..TotalPages(l, n) |-> PageFrom(l, (k - 1) * n, n)]

PrintRange(l, n, from, to) ==
  LET first == from - 1
      count == IF first > TotalPages(l, n) THEN 0
               ELSE Least(to, TotalPages(l, n)) - first
  IN  [k \in 1..count |-> PageFrom(l, (first + k - 1) * n, n)]

-----------------------------------------------------------------------------
(* The specification: HexView's, with what is selected and marked          *)

\* What other commands mark or select; HexNav, HexBkm and HexTempl say how.
SetItems(new) ==
  /\ items' = new
  /\ UNCHANGED <<vars, spans, selBlock>>

SetSpans(new, block) ==
  /\ spans' = new
  /\ selBlock' = block
  /\ UNCHANGED <<vars, items>>

Unmarked(size) == items' = [o \in 0..size - 1 |-> NoItem] /\ spans' = <<>> /\ selBlock' = FALSE

ShowInit ==
  /\ Init
  /\ items = [o \in 0..dataSize - 1 |-> NoItem]
  /\ spans = <<>>
  /\ selBlock = FALSE

\* A selection from first to last, or the rectangle between them.
SpanFrom(first, last) == <<[offset |-> first, size |-> last - first + 1]>>
BlockFrom(l, first, last) ==
  [k \in 1..LineOf(l, last) - LineOf(l, first) + 1 |->
     [offset |-> first + (k - 1) * l.capacity,
      size |-> ColumnOf(l, last) - ColumnOf(l, first) + 1]]

\* Spans in any order, of any sizes, apart or not: a client's, and those of the
\* rows selected in the list of the search.
ClientSpans ==
  LET size  == Least(dataSize, LastSpan)
      Spans == {span \in [offset : 0..size - 1, size : 1..size] : span.offset + span.size <= size}
  IN  UNION {[1..n -> Spans] : n \in 0..MaxSpans}

\* The mouse says with Alt whether a selection is a block: a drag makes one, a
\* click with Shift selects a run in either case.  All else that selects leaves
\* m_fSelectionBlock as the last click had it.
SelectNext ==
  \/ \E last \in 0..Least(dataSize, LastSpan) - 1 : \E first \in 0..last :
       \/ \E block \in BOOLEAN : SetSpans(SpanFrom(first, last), block)
       \/ /\ ColumnOf(layout, first) <= ColumnOf(layout, last)
          /\ SetSpans(BlockFrom(layout, first, last), TRUE)
  \/ \E new \in ClientSpans : SetSpans(new, selBlock)

\* Views change in HexView; new data has no marks.
ViewNext == Next /\ IF dataSize' = dataSize THEN UNCHANGED showVars ELSE Unmarked(dataSize')

ShowNext ==
  \/ ViewNext
  \/ SelectNext
  \/ \E new \in [0..dataSize - 1 -> Items \cup {NoItem}] : SetItems(new)

ShowSpec == ShowInit /\ [][ShowNext]_<<vars, showVars>>

-----------------------------------------------------------------------------
(* Properties                                                              *)

Hits(x, y) == HitTest(layout, view, dataSize, x, y)

\* A string of a line: each digit and each character stands where a click on
\* it hits its byte, and a space between two bytes is hit as the byte before
\* it, of the same item; the widths given to the system are enough, and each
\* string stays between the lines of its column.
RunInPlace(layer, run, y) ==
  /\ Len(run.hex) <= 3 * layout.capacity + 1
  /\ LET lines == VertLines(layout, view)
     IN  /\ lines[2] < HexAt(layout, view, run, 1)
         /\ HexAt(layout, view, run, Len(run.hex) + 1) < lines[3]
         /\ lines[3] < TextAt(layout, view, run, 1)
         /\ TextAt(layout, view, run, Len(run.text) + 1) < lines[4]
  /\ \A k \in 1..Len(run.hex) :
       LET cell == run.hex[k]
           x    == HexAt(layout, view, run, k)
       IN  IF cell = Gap
           THEN \E o \in Hits(x, y) : layer[o] = run.item
           ELSE /\ Hits(x, y) = {cell.offset}
                /\ x = HexChunkX(layout, view, cell.offset) + (IF cell.high THEN 0 ELSE ExtraWidth)
  /\ \A k \in 1..Len(run.text) : Hits(TextAt(layout, view, run, k), y) = {run.text[k]}

\* What is to be drawn by each layer in a line, and the strings it draws.
Drawn(line) ==
  LET l == layout
  IN  {<<Colours, DrawHexText(l, line)>>, <<items, DrawTemplates(l, line)>>,
       <<items, DrawBookmarks(l, line)>>, <<Selection, DrawSelection(l, line)>>,
       <<Selection, DrawSelHighlight(l, line)>>}
        \cup {<<Interpreted(size), DrawDataInterp(l, line, size)>> : size \in {1, 4}}

\* Lines of one page stand together, with a line after each page but none
\* within one, and none above the first row.
PagesApart(lines, size) ==
  LET pageOf(line) == (line * layout.capacity) \div size
      yOf(line)    == LineY(layout, line - TopLine(layout, view))
  IN  \A line \in lines :
        yOf(line) \in DrawPageLines(layout, view, size) <=>
          /\ line - 1 \in lines
          /\ size % layout.capacity = 0
          /\ pageOf(line - 1) # pageOf(line)

DrawnBy(runs) == UNION {ToSet(runs[k].text) : k \in 1..Len(runs)}

InSight == PaintedLines(layout, view)

\* All lines in sight are drawn, also those that only a click shows to be.
LinesComplete ==
  /\ InSight # {}
  /\ \A o \in 0..dataSize - 1 :
       (Hits(HexChunkX(layout, view, o), ChunkY(layout, view, o)) = {o}
         /\ ChunkY(layout, view, o) < EndWork(layout, view)) => LineOf(layout, o) \in InSight

\* A line is of the data, between the window's lines, its row's offset on its
\* left, which is marked if bytes of the row are selected.
RowInPlace(line) ==
  LET cap  == layout.capacity
      top  == TopLine(layout, view)
      row  == DrawOffsets(layout, view)[line]
      last == BytesToDraw(layout, top, line - top + 1) - 1
  IN  /\ line * cap < dataSize
      /\ row.selected <=> \E o \in line * cap..line * cap + cap - 1 : Selected(o)
      /\ row.y = ChunkY(layout, view, row.offset)
      /\ LineOf(layout, top * cap + last) = line
      /\ HorzLines(layout, view)[2] < row.y
      /\ row.y < EndWork(layout, view) => row.y + layout.cy <= HorzLines(layout, view)[3]

\* What a layer draws in a line is what it is to draw there, in its place.
LayerInPlace(layer, runs, line) ==
  /\ DrawnBy(runs) = {o \in DOMAIN layer : LineOf(layout, o) = line /\ layer[o] # NoItem}
  /\ \A k \in 1..Len(runs) :
       RunInPlace(layer, runs[k], LineY(layout, line - TopLine(layout, view)))

CaretInPlace ==
  VertVisible(layout, view, dataSize, caretPos) =>
    /\ LineOf(layout, caretPos) \in InSight
    /\ \A high \in BOOLEAN :
         Hits(CaretX(layout, view, high), ChunkY(layout, view, caretPos)) = {caretPos}

\* A column's number stands over its bytes.
CaptionInPlace ==
  LET caption == Caption(layout)
  IN  \A k \in 1..Len(caption) :
        caption[k] # Gap =>
          FirstHex + (k - 1) * ExtraWidth - view.pos["H"]
            = HexChunkX(layout, view, caption[k].offset)
                + (IF caption[k].high THEN 0 ELSE ExtraWidth)

\* Whatever is scrolled, resized, laid out, marked and selected: every layer
\* draws exactly its bytes in the lines in sight, each where a click hits it,
\* in its column and under its number, its row's offset on its left; all lines
\* in sight are drawn, those a click can hit between the window's lines, with
\* the lines of the pages between them, and the caret where its byte is.
PaintedInPlace ==
  (dataSize > 0 /\ HasRoom(layout, view)) =>
    /\ LinesComplete
    /\ \A line \in InSight :
         RowInPlace(line) /\ \A d \in Drawn(line) : LayerInPlace(d[1], d[2], line)
    /\ \A size \in DataPages : PagesApart(InSight, size)
    /\ CaretInPlace
    /\ CaptionInPlace

\* Print fills page after page with n lines, for every number of lines a page
\* has: each line of the data is on one page, in order, no page has too many,
\* and the last may be empty; a range of pages prints what these pages have
\* when all are printed.
PrintedOnce ==
  dataSize > 0 =>
    \A n \in PageLines :
      LET pages == PrintAll(layout, n)
      IN  /\ UNION ToSet(pages) = 0..Lines(layout, dataSize) - 1
          /\ \A k \in 1..Len(pages) :
               pages[k] = {line \in 0..Lines(layout, dataSize) - 1 : line \div n = k - 1}
          /\ \A to \in 1..MaxPage : \A from \in 1..to :
               PrintRange(layout, n, from, to) = SubSeq(pages, from, Least(to, Len(pages)))

=============================================================================
