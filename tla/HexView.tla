------------------------------ MODULE HexView -------------------------------
(***************************************************************************)
(* What of the data is in sight: the geometry of the rows (RecalcAll and   *)
(* the functions between offsets and points), the two scroll bars          *)
(* (CHexScroll.ixx), which take their room from the window they scroll,    *)
(* and the commands that scroll so that an offset is shown.  Lengths are   *)
(* in pixels.  A window's size is given without its borders.               *)
(***************************************************************************)
EXTENDS Integers

CONSTANTS
  Sizes,       \* sizes of the data a client sets
  Capacities,  \* capacities, each a whole number of groups (SetCapacity)
  Groups,      \* group sizes
  Fonts,       \* line heights of fonts
  Widths, Heights,  \* of windows
  CharWidth,   \* GetCharWidthNative
  ExtraWidth,  \* GetCharWidthExtras
  Digits,      \* GetDigitsOffset
  InfoHeight,  \* height of the info bar
  BarSize,     \* m_uiScrollBarSizeWH
  ThumbMin,    \* 15 in GetThumbSizeWH
  Modulus      \* 2^64, the modulus of ULONGLONG

ASSUME ViewAssumption ==
  /\ Sizes \subseteq Nat \ {0} /\ Fonts \subseteq Nat \ {0}
  /\ Capacities \subseteq Nat \ {0} /\ Groups \subseteq Nat \ {0}
  /\ \A c \in Capacities, g \in Groups : c % g = 0
  /\ {CharWidth, Digits, InfoHeight, BarSize, ThumbMin} \subseteq Nat
  /\ ExtraWidth \in Nat \ {0} /\ Modulus \in Nat \ {0}

\* A window has room for the scroll bars: the extents left are UINTs.
ASSUME RoomForBars ==
  /\ Widths \subseteq Nat /\ \A w \in Widths : w >= BarSize
  /\ Heights \subseteq Nat /\ \A h \in Heights : h >= 2 * BarSize

Bars == {"H", "V"}
Other(b) == IF b = "H" THEN "V" ELSE "H"

VARIABLES
  dataSize,  \* GetDataSize(), 0 without data
  layout,    \* m_dwCapacity, m_dwGroupSize, m_sizeFontMain.cy, m_fInfoBar
  caretPos,  \* m_ullCaretPos
  view       \* the window's extents, those of its client area, and of each
             \* bar m_ullScrollPosCur, m_ullScrollSizeMax, m_fVisible

vars == <<dataSize, layout, caretPos, view>>

Least(a, b) == IF a <= b THEN a ELSE b
Greatest(a, b) == IF a >= b THEN a ELSE b
Round(a, b) == (2 * a + b) \div (2 * b)   \* lround(a / b)

-----------------------------------------------------------------------------
(* Geometry of a layout l                                                  *)

HexByte == 2 * ExtraWidth
SecondLine == (Digits + 2) * CharWidth
FirstHex == SecondLine + CharWidth
BetweenBlocks(l) == IF l.group = 1 /\ l.capacity > 1 THEN 2 * ExtraWidth ELSE 0
GroupedChunk(l) == HexByte * l.group + ExtraWidth
ThirdLine(l) == SecondLine + GroupedChunk(l) * (l.capacity \div l.group)
                + CharWidth + BetweenBlocks(l)
IndentText(l) == ThirdLine(l) + CharWidth
FourthLine(l) == IndentText(l) + ExtraWidth * l.capacity + CharWidth
StartY(l) == Round(3 * l.cy, 2)
BottomOff(l) == 1 + (IF l.infoBar THEN InfoHeight ELSE 0)

Lines(l, size) == size \div l.capacity + (IF size % l.capacity = 0 THEN 0 ELSE 1)

\* Mutant: a last line that is not full has no room.
MaxVOfFullLines(l, size) == StartY(l) + BottomOff(l) + l.cy * (size \div l.capacity + 1)

MaxV(l, size) == StartY(l) + BottomOff(l) + l.cy * (Lines(l, size) + 1)
MaxH(l) == FourthLine(l) + 1

\* m_iEndWorkAreaPx and m_iHeightWorkAreaPx: whole lines only.
Room(l, v) == v.client["V"] - StartY(l) - BottomOff(l)
WorkHeight(l, v) == Room(l, v) - (Room(l, v) % l.cy)
EndWork(l, v) == StartY(l) + WorkHeight(l, v)

-----------------------------------------------------------------------------
(* CHexScroll: operators on a view v and a bar b                           *)

MaxPos(v, b) == IF v.client[b] > v.max[b] THEN 0 ELSE v.max[b] - v.client[b]

SetScrollPos(v, b, new) ==
  [v EXCEPT !.pos[b] = IF @ = new THEN @ ELSE Least(new, MaxPos(v, b))]

ScrollBack(v, b, by) == SetScrollPos(v, b, IF by > v.pos[b] THEN 0 ELSE v.pos[b] - by)
ScrollOn(v, b, by) == SetScrollPos(v, b, v.pos[b] + by)

\* Mutant: a larger window leaves the view where it was.
CalcBarUnclamped(v, b, extent) ==
  LET size == IF v.vis[Other(b)] THEN extent - BarSize ELSE extent
  IN  IF size < v.max[b] THEN [v EXCEPT !.vis[b] = TRUE]
      ELSE [SetScrollPos(v, b, 0) EXCEPT !.vis[b] = FALSE]

\* CHexScroll::OnNCCalcSize: whether the bar is shown in a window of this
\* extent, judged by what is known of its sibling so far.
CalcBar(v, b, extent) ==
  LET size == IF v.vis[Other(b)] THEN extent - BarSize ELSE extent
  IN  IF size < v.max[b]
      THEN [(IF v.pos[b] + size > v.max[b] THEN SetScrollPos(v, b, v.max[b] - size) ELSE v)
              EXCEPT !.vis[b] = TRUE]
      ELSE [SetScrollPos(v, b, 0) EXCEPT !.vis[b] = FALSE]

\* CHexCtrl::OnNCCalcSize: H, then V.  The client area changes at the end.
OnNCCalcSize(v, win) ==
  LET h      == CalcBar(v, "H", win["H"])
      height == win["V"] - (IF h.vis["H"] THEN BarSize ELSE 0)
      hv     == CalcBar(h, "V", height)
      width  == win["H"] - (IF hv.vis["V"] THEN BarSize ELSE 0)
  IN  [hv EXCEPT !.win = win, !.client = [H |-> width, V |-> height]]

\* Every change of the limit recalculates the frame.
SetScrollSizes(v, b, max) == OnNCCalcSize([v EXCEPT !.max[b] = max], v.win)

\* The thumb, where there is something to scroll.
Channel(v, b) == v.client[b] - 2 * BarSize
ThumbSize(v, b) == Greatest(ThumbMin, Round(Channel(v, b) * v.client[b], v.max[b]))
ThumbRoom(v, b) == Channel(v, b) - ThumbSize(v, b)
CanScroll(v, b) == v.vis[b] /\ MaxPos(v, b) > 0 /\ ThumbRoom(v, b) > 0
ThumbPos(v, b) ==
  IF v.pos[b] * ThumbRoom(v, b) < MaxPos(v, b) THEN 0
  ELSE Round(v.pos[b] * ThumbRoom(v, b), MaxPos(v, b))

\* Mutant: the scroll position of a thumb is rounded down to whole lines.
SetThumbPosInLines(v, b, thumb) ==
  LET new == IF thumb < 0 THEN 0
             ELSE Round(Least(thumb, ThumbRoom(v, b)) * MaxPos(v, b), ThumbRoom(v, b))
  IN  SetScrollPos(v, b, new - (new % layout.cy))

\* A thumb dragged beyond the channel's end goes to the end.
SetThumbPos(v, b, thumb) ==
  IF thumb = ThumbPos(v, b) THEN v
  ELSE SetScrollPos(v, b,
         IF thumb < 0 THEN 0
         ELSE Round(Least(thumb, ThumbRoom(v, b)) * MaxPos(v, b), ThumbRoom(v, b)))

-----------------------------------------------------------------------------
(* Lines, offsets and points                                               *)

TopLine(l, v) == v.pos["V"] \div l.cy

BottomLine(l, v, size) ==
  LET shown == WorkHeight(l, v) \div l.cy
      end   == TopLine(l, v) + (IF shown > 0 THEN shown - 1 ELSE 0)
      total == size \div l.capacity
  IN  IF end >= total THEN total - (IF size % l.capacity = 0 THEN 1 ELSE 0) ELSE end

ChunkY(l, v, offset) ==
  StartY(l) + (offset \div l.capacity) * l.cy - (v.pos["V"] - (v.pos["V"] % l.cy))

HexChunkX(l, v, offset) ==
  LET mod == offset % l.capacity
  IN  FirstHex + (IF mod >= l.capacity \div 2 THEN BetweenBlocks(l) ELSE 0)
      + mod * HexByte + (mod \div l.group) * ExtraWidth - v.pos["H"]

TextChunkX(l, v, offset) ==
  IndentText(l) + (offset % l.capacity) * ExtraWidth - v.pos["H"]

InWorkLines(l, v, y) == y >= StartY(l) /\ y <= EndWork(l, v)
LineAt(l, v, y) == (y - StartY(l)) \div l.cy + TopLine(l, v)

\* Where the chunk of a column ends in HitTest: the gaps behind it are its own.
ChunkEnd(l, column) ==
  FirstHex + HexByte * (column + 1)
  + ((column + 1) \div l.group) * ExtraWidth
  + (IF l.group = 1 /\ column + 1 >= l.capacity \div 2 THEN BetweenBlocks(l) ELSE 0)

\* The offsets hit at a point: none, or one.
HitTest(l, v, size, px, y) ==
  LET x == px + v.pos["H"]
      columns ==
        IF ~InWorkLines(l, v, y) THEN {}
        ELSE IF x >= FirstHex /\ x < ThirdLine(l)
        THEN {c \in 0..(l.capacity - 1) :
                x < ChunkEnd(l, c) /\ \A d \in 0..(c - 1) : x >= ChunkEnd(l, d)}
        ELSE IF x >= IndentText(l) /\ x < IndentText(l) + ExtraWidth * l.capacity
        THEN {(x - IndentText(l)) \div ExtraWidth}
        ELSE {}
  IN  {o \in {c + LineAt(l, v, y) * l.capacity : c \in columns} : o < size}

VertVisible(l, v, size, offset) ==
  /\ offset >= TopLine(l, v) * l.capacity
  /\ offset < BottomLine(l, v, size) * l.capacity + l.capacity

LastHexX(v) == v.client["H"] - HexByte
HorzVisible(l, v, offset) ==
  HexChunkX(l, v, offset) >= 0 /\ HexChunkX(l, v, offset) < LastHexX(v)

IsOffsetVisible(l, v, size, offset) ==
  VertVisible(l, v, size, offset) /\ HorzVisible(l, v, offset)

-----------------------------------------------------------------------------
(* The client's calls and the window                                       *)

\* The view of a new layout or new data: the line on top stays there.
RecalcAll(l, size, v) ==
  LET sized == SetScrollSizes(SetScrollSizes(v, "V", MaxV(l, size)), "H", MaxH(l))
  IN  SetScrollPos(sized, "V", TopLine(layout, v) * l.cy)

Relayout(l) ==
  /\ layout' = l
  /\ view' = RecalcAll(l, dataSize, view)
  /\ UNCHANGED <<dataSize, caretPos>>

SetFont(cy) == Relayout([layout EXCEPT !.cy = cy])
SetCapacity(cap) == Relayout([layout EXCEPT !.capacity = cap])
SetGroupSize(group) == group # layout.group /\ Relayout([layout EXCEPT !.group = group])
ShowInfoBar(show) == Relayout([layout EXCEPT !.infoBar = show])

\* The horizontal bar keeps its limit.
Cleared(v) ==
  SetScrollSizes(SetScrollPos(SetScrollPos(v, "V", 0), "H", 0), "V", 0)

ClearData ==
  /\ dataSize' = 0
  /\ caretPos' = 0
  /\ view' = Cleared(view)
  /\ UNCHANGED layout

SetData(size) ==
  /\ dataSize' = size
  /\ caretPos' = 0
  /\ view' = RecalcAll(layout, size, Cleared(view))
  /\ UNCHANGED layout

Resize(width, height) ==
  /\ view' = OnNCCalcSize(view, [H |-> width, V |-> height])
  /\ UNCHANGED <<dataSize, layout, caretPos>>

\* Each bar has the frame recalculated.
OnNCActivate ==
  /\ view' = OnNCCalcSize(OnNCCalcSize(view, view.win), view.win)
  /\ UNCHANGED <<dataSize, layout, caretPos>>

-----------------------------------------------------------------------------
(* The scroll bars                                                         *)

Scrolled(v) == view' = v /\ UNCHANGED <<dataSize, layout, caretPos>>

\* The vertical bar's sizes are 0 without data.  The width a horizontal page
\* has is that of the client area before its frame was last recalculated.
LineSize(b) == IF b = "H" THEN ExtraWidth ELSE IF dataSize = 0 THEN 0 ELSE layout.cy
PageSizes(b) ==
  IF b = "H" THEN {view.win["H"] - BarSize, view.win["H"]}
  ELSE {Greatest(layout.cy, WorkHeight(layout, view))}

\* A click on an arrow, each repeat while it is held, or a drag of a selection
\* beyond the client area.
ScrollLine(b) ==
  /\ view.vis[b]
  /\ \/ Scrolled(ScrollBack(view, b, LineSize(b)))
     \/ Scrolled(ScrollOn(view, b, LineSize(b)))

\* A click on a channel and its repeats; vertically also the commands, which
\* the mouse wheel gives.
ScrollPage(b) ==
  /\ b = "V" \/ view.vis[b]
  /\ \E page \in PageSizes(b) :
       \/ Scrolled(ScrollBack(view, b, page))
       \/ Scrolled(ScrollOn(view, b, page))

\* The mouse moves while it holds the thumb.
DragThumb(b, thumb) ==
  /\ CanScroll(view, b)
  /\ Scrolled(SetThumbPos(view, b, thumb))

-----------------------------------------------------------------------------
(* Going to an offset, and the caret                                       *)

\* Mutant: in the centre of the client area, not of its lines.
LineInClient(l, v, size, line, iPosAt) ==
  CASE iPosAt = -1 -> line
    [] iPosAt = 0 -> IF line > v.client["V"] \div 2 THEN line - (v.client["V"] \div 2) ELSE 0
    [] iPosAt = 1 -> (line - (BottomLine(l, v, size) - TopLine(l, v)) * l.cy) % Modulus

\* Where the vertical bar goes for a line to be on top, in the centre or at
\* the bottom.
LineAtPos(l, v, size, line, iPosAt) ==
  LET above == line - (WorkHeight(l, v) \div 2)
  IN  CASE iPosAt = -1 -> line
        [] iPosAt = 0 -> IF line > WorkHeight(l, v) \div 2 THEN above - (above % l.cy) ELSE 0
        [] iPosAt = 1 -> (line - (BottomLine(l, v, size) - TopLine(l, v)) * l.cy) % Modulus

GoTo(v, offset, iPosAt, textArea) ==
  LET l == layout
      down == SetScrollPos(v, "V", LineAtPos(l, v, dataSize, (offset \div l.capacity) * l.cy, iPosAt))
      x == (offset % l.capacity) * HexByte
  IN  IF v.vis["H"] /\ ~textArea
      THEN SetScrollPos(down, "H", x + (x \div GroupedChunk(l)) * ExtraWidth)
      ELSE down

GoToOffset(offset, iPosAt, textArea) ==
  /\ offset < dataSize
  /\ Scrolled(GoTo(view, offset, iPosAt, textArea))

\* The caret's jumps go to where it is if that is out of sight.
CaretTo(offset, always, textArea) ==
  /\ offset \in 0..(dataSize - 1)
  /\ caretPos' = offset
  /\ view' = IF always \/ ~IsOffsetVisible(layout, view, dataSize, offset)
             THEN GoTo(view, offset, 0, textArea) ELSE view
  /\ UNCHANGED <<dataSize, layout>>

CaretToDataBeg(textArea) == CaretTo(0, TRUE, textArea)
CaretToDataEnd(textArea) == dataSize > 0 /\ CaretTo(dataSize - 1, TRUE, textArea)
CaretToLineBeg(textArea) == CaretTo(caretPos - (caretPos % layout.capacity), FALSE, textArea)
CaretToLineEnd(textArea) ==
  CaretTo(Least(caretPos - (caretPos % layout.capacity) + layout.capacity, dataSize) - 1, FALSE, textArea)

ScrollOffsetH(v, offset) ==
  LET x == HexChunkX(layout, v, offset)
      beyond == IF x >= LastHexX(v) THEN x - LastHexX(v) + (HexByte \div 2)
                ELSE IF x < 0 THEN x - (HexByte \div 2) ELSE 0
  IN  IF v.vis["H"] THEN SetScrollPos(v, "H", (v.pos["H"] + beyond) % Modulus) ELSE v

\* Mutant: lines are scrolled at the bottom only.
LeavesAtBottom(new) == /\ VertVisible(layout, view, dataSize, caretPos)
                       /\ ~VertVisible(layout, view, dataSize, new)
                       /\ new > caretPos

LeavesLines(new) == /\ VertVisible(layout, view, dataSize, caretPos)
                    /\ ~VertVisible(layout, view, dataSize, new)

\* One line where the caret leaves those in sight; sideways otherwise.
Arrow(new, v, horz) ==
  /\ caretPos' = new
  /\ view' = IF LeavesLines(new) THEN v
             ELSE IF horz /\ ~HorzVisible(layout, view, new) THEN ScrollOffsetH(view, new)
             ELSE view
  /\ UNCHANGED <<dataSize, layout>>

LineUp == ScrollBack(view, "V", layout.cy)
LineDown == ScrollOn(view, "V", layout.cy)

\* Mutant: from the last line the caret goes on.
CaretMoveDownUnbounded ==
  /\ dataSize > 0
  /\ Arrow(caretPos + layout.capacity, LineDown, FALSE)

CaretMoveDown ==
  /\ dataSize > 0
  /\ Arrow(IF caretPos + layout.capacity >= dataSize THEN caretPos
           ELSE caretPos + layout.capacity, LineDown, FALSE)
CaretMoveUp ==
  /\ dataSize > 0
  /\ Arrow(IF caretPos >= layout.capacity THEN caretPos - layout.capacity
           ELSE caretPos, LineUp, FALSE)

\* By a byte, or by a digit within it.
CaretMoveLeft(digit, textArea) ==
  /\ dataSize > 0
  /\ digit => ~textArea
  /\ caretPos > 0 \/ digit
  /\ Arrow(IF digit THEN caretPos ELSE caretPos - 1, LineUp, ~textArea)
CaretMoveRight(digit, textArea) ==
  /\ dataSize > 0
  /\ digit => ~textArea
  /\ Arrow(IF digit THEN caretPos ELSE Least(caretPos + 1, dataSize - 1), LineDown, ~textArea)

-----------------------------------------------------------------------------
Init ==
  \E c \in Capacities, g \in Groups, cy \in Fonts, w \in Widths, h \in Heights :
    LET new == [pos |-> [b \in Bars |-> 0], max |-> [b \in Bars |-> 0],
                vis |-> [b \in Bars |-> FALSE],
                win |-> [H |-> w, V |-> h], client |-> [H |-> w, V |-> h]]
        l == [capacity |-> c, group |-> g, cy |-> cy, infoBar |-> TRUE]
    IN  /\ layout = l
        /\ dataSize = 0
        /\ caretPos = 0
        /\ view = SetScrollSizes(SetScrollSizes(new, "V", MaxV(l, 0)), "H", MaxH(l))

ClientNext ==
  \/ ClearData
  \/ \E size \in Sizes : SetData(size)
  \/ \E cy \in Fonts : SetFont(cy)
  \/ \E cap \in Capacities : SetCapacity(cap)
  \/ \E group \in Groups : SetGroupSize(group)
  \/ \E show \in BOOLEAN : ShowInfoBar(show)
  \/ \E width \in Widths, height \in Heights : Resize(width, height)
  \/ OnNCActivate

BarNext ==
  \E b \in Bars :
    \/ ScrollLine(b)
    \/ ScrollPage(b)
    \/ \E thumb \in -1..(Channel(view, b) + 1) : DragThumb(b, thumb)

CaretNext ==
  \E textArea \in BOOLEAN :
    \/ \E offset \in 0..(dataSize - 1), iPosAt \in -1..1 : GoToOffset(offset, iPosAt, textArea)
    \/ CaretToDataBeg(textArea)
    \/ CaretToDataEnd(textArea)
    \/ CaretToLineBeg(textArea)
    \/ CaretToLineEnd(textArea)
    \/ \E digit \in BOOLEAN : CaretMoveLeft(digit, textArea) \/ CaretMoveRight(digit, textArea)

Next ==
  \/ ClientNext
  \/ BarNext
  \/ CaretNext
  \/ CaretMoveDown
  \/ CaretMoveUp

Spec == Init /\ [][Next]_vars

-----------------------------------------------------------------------------
(* Properties                                                              *)

Layouts == [capacity : Capacities, group : Groups, cy : Fonts, infoBar : BOOLEAN]

TypeOK ==
  /\ dataSize \in Sizes \cup {0}
  /\ caretPos \in 0..Greatest(dataSize - 1, 0)
  /\ layout \in Layouts
  /\ \A b \in Bars : view.pos[b] \in Nat /\ view.vis[b] \in BOOLEAN

\* No window, font, capacity or data leaves the view scrolled beyond its end.
\* A bar is judged by the frame before, in which the other bar may have been
\* shown or not: the room of one bar is all it may be wrong by.
NeverBeyondEnd == \A b \in Bars : view.pos[b] <= MaxPos(view, b) + BarSize

\* A bar is hidden only where everything fits, and then nothing is scrolled
\* away; sideways it may be wrong by the room of the vertical bar.
HiddenBarsFit ==
  \A b \in Bars : ~view.vis[b] =>
    /\ view.max[b] <= view.client[b] + (IF b = "H" THEN BarSize ELSE 0)
    /\ view.pos[b] = 0

\* What is shown is the data's, whatever the bars were shown and hidden for.
ViewInData == TypeOK /\ NeverBeyondEnd /\ HiddenBarsFit

\* Windows with room for two lines, and for a bar beside one, under the headers.
RoomForLines ==
  \A h \in Heights, cy \in Fonts :
    LET room == h - BarSize - Round(3 * cy, 2) - 1 - InfoHeight
    IN  room >= 2 * cy /\ room > cy + BarSize

\* Windows with room for a byte where GoTo takes it: the place it computes for a
\* column leaves out the header, the gap of the blocks and some of those of groups.
RoomForColumns ==
  \A w \in Widths, l \in Layouts :
    /\ BarSize <= 2 * CharWidth + ExtraWidth * (l.capacity + 1)
    /\ \A column \in 0..(l.capacity - 1) :
         LET short == column \div l.group - (column * HexByte) \div GroupedChunk(l)
         IN  FirstHex + BetweenBlocks(l) + short * ExtraWidth + HexByte < w - BarSize

\* Scrolled to the end, the last line of the data is in sight.
EndShowsLastLine ==
  dataSize > 0 /\ view.pos["V"] >= MaxPos(view, "V") =>
    VertVisible(layout, view, dataSize, dataSize - 1)

\* An offset gone to is in sight (GoToOffset at the top and in the centre),
\* and the end of the data is where the scroll bar ends.
GoneToIsVisible ==
  /\ EndShowsLastLine
  /\ \A o \in 0..(dataSize - 1), iPosAt \in -1..0 :
       IsOffsetVisible(layout, GoTo(view, o, iPosAt, FALSE), dataSize, o)

\* An arrow never moves a caret in sight off the lines in sight.
ArrowsKeepCaretVisible ==
  [][VertVisible(layout, view, dataSize, caretPos) /\ dataSize > 0
     /\ (CaretMoveDown \/ CaretMoveUp
         \/ \E d \in BOOLEAN, t \in BOOLEAN : CaretMoveLeft(d, t) \/ CaretMoveRight(d, t))
     => VertVisible(layout', view', dataSize', caretPos')]_vars

\* The thumb follows the mouse exactly, but for its first pixel, whose
\* position may be rounded down to less than GetThumbPos shows (SetThumbPos).
ThumbFollowsMouse ==
  \A b \in Bars : CanScroll(view, b) =>
    \A thumb \in 0..ThumbRoom(view, b) :
      ThumbPos(SetThumbPos(view, b, thumb), b)
        \in {thumb} \cup (IF thumb = 1 THEN {0} ELSE {})

=============================================================================
