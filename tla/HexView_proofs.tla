--------------------------- MODULE HexView_proofs ---------------------------
(***************************************************************************)
(* Theorems about the view (HexView): it stays inside the data, but for    *)
(* the room of one scroll bar, the thumb follows the mouse, an arrow takes *)
(* the lines along and an offset gone to is in sight, for every window,    *)
(* font, layout and size of data.  Then theorems about the tooltip over it *)
(* (HexTooltip), for all bookmarks and fields, and about what is printed   *)
(* and painted (HexShow), for all printers, marks and selections.          *)
(***************************************************************************)
EXTENDS HexShow, HexTooltip, HexArith, SequenceTheorems

\* The types of a window's extents, of the view and of a layout.
Windows == {win \in [Bars -> Nat] : win["H"] \in Widths /\ win["V"] \in Heights}
ViewRec ==
  [pos : [Bars -> Nat], max : [Bars -> Nat], vis : [Bars -> BOOLEAN],
   win : Windows, client : [Bars -> Nat]]

\* What the properties say of a view v: no bar is beyond its end by more than a
\* bar's room, and a hidden one is at its start and nearly fits.
Within(v, b) == v.pos[b] <= MaxPos(v, b) + BarSize
Fits(v, b) ==
  v.vis[b] = FALSE =>
    /\ v.max[b] <= v.client[b] + (IF b = "H" THEN BarSize ELSE 0)
    /\ v.pos[b] = 0

\* The client area is the window's but for at most the room of a bar, and a
\* vertical bar that is shown leaves the window full, but for as much.
Framed(v) ==
  /\ \A b \in Bars : v.client[b] <= v.win[b] /\ v.win[b] <= v.client[b] + BarSize
  /\ v.vis["V"] = TRUE => v.pos["V"] + v.client["V"] <= v.max["V"] + BarSize

Seen(v) == v \in ViewRec /\ (\A b \in Bars : Within(v, b) /\ Fits(v, b)) /\ Framed(v)

\* The inductive invariant.  The bars' limits are those of the layout and data.
ViewInv ==
  /\ Seen(view)
  /\ view.max["H"] = MaxH(layout)
  /\ dataSize > 0 => view.max["V"] = MaxV(layout, dataSize)
  /\ layout \in Layouts
  /\ dataSize \in Sizes \cup {0}
  /\ caretPos \in 0..Greatest(dataSize - 1, 0)

-----------------------------------------------------------------------------
(* One scroll bar                                                          *)

\* The largest position is an offset of pixels.
LEMMA MaxPosFacts ==
  ASSUME NEW v \in ViewRec, NEW b \in Bars
  PROVE  MaxPos(v, b) \in Nat
<1>1. v.client[b] \in Int /\ v.max[b] \in Int
  BY DEF ViewRec
<1> QED BY <1>1 DEF MaxPos

\* SetScrollPos changes the position of its bar, and never beyond the end.
LEMMA SetPosFacts ==
  ASSUME NEW v \in ViewRec, NEW b \in Bars, NEW new \in Nat
  PROVE  LET w == SetScrollPos(v, b, new)
         IN  /\ w \in ViewRec
             /\ w.max = v.max /\ w.vis = v.vis /\ w.win = v.win /\ w.client = v.client
             /\ \A c \in Bars : c # b => w.pos[c] = v.pos[c]
             /\ w.pos[b] <= new
             /\ w.pos[b] = v.pos[b] \/ w.pos[b] <= MaxPos(v, b)
             /\ new <= MaxPos(v, b) => w.pos[b] = new
<1> DEFINE at == IF v.pos[b] = new THEN v.pos[b] ELSE Least(new, MaxPos(v, b))
           w == [v EXCEPT !.pos[b] = at]
<1>1. MaxPos(v, b) \in Nat
  BY MaxPosFacts
<1>2. v.pos[b] \in Nat
  BY DEF ViewRec
<1>3. /\ at \in Nat /\ at <= new
      /\ at = v.pos[b] \/ at <= MaxPos(v, b)
      /\ new <= MaxPos(v, b) => at = new
  BY <1>1, <1>2 DEF Least
<1>4. SetScrollPos(v, b, new) = w
  BY DEF SetScrollPos, ViewRec
<1> HIDE DEF at
<1>5. /\ w \in ViewRec /\ w.pos[b] = at
      /\ w.max = v.max /\ w.vis = v.vis /\ w.win = v.win /\ w.client = v.client
      /\ \A c \in Bars : c # b => w.pos[c] = v.pos[c]
  BY <1>3 DEF ViewRec
<1> HIDE DEF w
<1> QED BY <1>3, <1>4, <1>5

\* It keeps what the properties say, of a bar that is shown, of the vertical
\* one, and where it goes to the start.
LEMMA SetPosSeen ==
  ASSUME NEW v, Seen(v), NEW b \in Bars, NEW new \in Nat,
         b = "V" \/ v.vis[b] = TRUE \/ new = 0
  PROVE  Seen(SetScrollPos(v, b, new))
<1> DEFINE w == SetScrollPos(v, b, new)
<1>1. v \in ViewRec
  BY DEF Seen
<1>2. /\ w \in ViewRec
      /\ w.max = v.max /\ w.vis = v.vis /\ w.win = v.win /\ w.client = v.client
      /\ \A c \in Bars : c # b => w.pos[c] = v.pos[c]
      /\ w.pos[b] <= new
      /\ w.pos[b] = v.pos[b] \/ w.pos[b] <= MaxPos(v, b)
  BY <1>1, SetPosFacts
<1> HIDE DEF w
<1>3. BarSize \in Nat
  BY ViewAssumption
<1>4. ASSUME NEW c \in Bars
      PROVE  /\ v.client[c] \in Int /\ v.max[c] \in Int /\ v.pos[c] \in Nat /\ w.pos[c] \in Nat
             /\ MaxPos(v, c) \in Nat /\ MaxPos(w, c) = MaxPos(v, c)
  <2>1. MaxPos(w, c) = MaxPos(v, c)
    BY <1>2 DEF MaxPos
  <2> QED BY <1>1, <1>2, <2>1, MaxPosFacts DEF ViewRec
<1>5. ASSUME NEW c \in Bars PROVE Within(w, c)
  <2>1. v.pos[c] <= MaxPos(v, c) + BarSize
    BY DEF Seen, Within
  <2>2. CASE c = b
    BY <1>2, <1>3, <1>4, <2>1, <2>2 DEF Within
  <2>3. CASE c # b
    BY <1>2, <1>4, <2>1, <2>3 DEF Within
  <2> QED BY <2>2, <2>3
<1>6. ASSUME NEW c \in Bars, w.vis[c] = FALSE
      PROVE  w.max[c] <= w.client[c] + (IF c = "H" THEN BarSize ELSE 0) /\ w.pos[c] = 0
  <2>1. v.max[c] <= v.client[c] + (IF c = "H" THEN BarSize ELSE 0) /\ v.pos[c] = 0
    BY <1>2, <1>6 DEF Seen, Fits
  <2>2. CASE c # b
    BY <1>2, <2>1, <2>2
  <2>3. CASE c = b /\ new = 0
    BY <1>2, <1>4, <2>1, <2>3
  <2>4. CASE c = b /\ b = "V"
    <3>1. v.max[c] <= v.client[c]
      BY <1>4, <2>1, <2>4
    <3>2. MaxPos(v, c) = 0
      BY <1>4, <3>1 DEF MaxPos
    <3> QED BY <1>2, <1>4, <2>1, <2>4, <3>2
  <2> QED BY <1>2, <1>6, <2>2, <2>3, <2>4
<1>7. Framed(w)
  <2>1. Framed(v) /\ v.vis["V"] \in BOOLEAN /\ "V" \in Bars
    BY <1>1 DEF Seen, ViewRec, Bars
  <2>2. CASE w.vis["V"] = TRUE
    <3>1. v.pos["V"] + v.client["V"] <= v.max["V"] + BarSize
      BY <1>2, <2>1, <2>2 DEF Framed
    <3>2. w.pos["V"] = v.pos["V"] \/ w.pos["V"] <= MaxPos(v, "V")
      BY <1>2, <2>1
    <3>3. w.pos["V"] + v.client["V"] <= v.max["V"] + BarSize
      BY <1>3, <1>4, <2>1, <3>1, <3>2 DEF MaxPos
    <3> QED BY <1>2, <2>1, <3>3 DEF Framed
  <2>3. CASE w.vis["V"] # TRUE
    BY <1>2, <2>1, <2>3 DEF Framed
  <2> QED BY <2>2, <2>3
<1>8. Seen(w)
  BY <1>2, <1>5, <1>6, <1>7 DEF Seen, Fits
<1> QED BY <1>8 DEF w

\* A bar is shown where its contents do not fit, and then its position leaves
\* the window full; it is hidden where they do.
LEMMA CalcBarFacts ==
  ASSUME NEW v \in ViewRec, NEW b \in Bars, NEW extent \in Int
  PROVE  LET w    == CalcBar(v, b, extent)
             size == IF v.vis[Other(b)] THEN extent - BarSize ELSE extent
         IN  /\ w \in ViewRec /\ w.max = v.max /\ w.win = v.win /\ w.client = v.client
             /\ \A c \in Bars : c # b => w.pos[c] = v.pos[c] /\ w.vis[c] = v.vis[c]
             /\ w.vis[b] = TRUE => w.pos[b] <= w.max[b] - size /\ size < w.max[b]
             /\ w.vis[b] = FALSE => w.pos[b] = 0 /\ w.max[b] <= size
<1> DEFINE size == IF v.vis[Other(b)] THEN extent - BarSize ELSE extent
           w == CalcBar(v, b, extent)
<1>1. size \in Int /\ v.max[b] \in Int /\ v.pos[b] \in Nat /\ MaxPos(v, b) \in Nat
  BY ViewAssumption, MaxPosFacts DEF ViewRec
<1>2. CASE size < v.max[b]
  <2> DEFINE moved == IF v.pos[b] + size > v.max[b] THEN SetScrollPos(v, b, v.max[b] - size) ELSE v
  <2>1. w = [moved EXCEPT !.vis[b] = TRUE]
    BY <1>2 DEF CalcBar
  <2>2. /\ moved \in ViewRec
        /\ moved.max = v.max /\ moved.win = v.win /\ moved.client = v.client /\ moved.vis = v.vis
        /\ \A c \in Bars : c # b => moved.pos[c] = v.pos[c]
        /\ moved.pos[b] <= v.max[b] - size
    <3>1. v.max[b] - size \in Nat
      BY <1>1, <1>2
    <3> DEFINE set == SetScrollPos(v, b, v.max[b] - size)
    <3>2. /\ set \in ViewRec
          /\ set.max = v.max /\ set.vis = v.vis /\ set.win = v.win /\ set.client = v.client
          /\ \A c \in Bars : c # b => set.pos[c] = v.pos[c]
          /\ set.pos[b] <= v.max[b] - size
      BY <3>1, SetPosFacts
    <3> HIDE DEF set, size
    <3>3. CASE v.pos[b] + size > v.max[b]
      BY <3>2, <3>3 DEF set
    <3>4. CASE ~(v.pos[b] + size > v.max[b])
      BY <1>1, <3>4
    <3> QED BY <3>3, <3>4
  <2> HIDE DEF moved, size
  <2> DEFINE shown == [moved EXCEPT !.vis[b] = TRUE]
  <2>3. /\ shown \in ViewRec /\ shown.pos = moved.pos /\ shown.max = moved.max
        /\ shown.win = moved.win /\ shown.client = moved.client
        /\ shown.vis[b] = TRUE /\ \A c \in Bars : c # b => shown.vis[c] = moved.vis[c]
    BY <2>2 DEF ViewRec
  <2>4. w = shown
    BY <2>1
  <2> HIDE DEF shown, w
  <2> QED BY <1>2, <2>2, <2>3, <2>4 DEF w, size
<1>3. CASE ~(size < v.max[b])
  <2> DEFINE set == SetScrollPos(v, b, 0)
             hidden == [set EXCEPT !.vis[b] = FALSE]
  <2>1. w = hidden
    BY <1>3 DEF CalcBar
  <2>2. /\ set \in ViewRec
        /\ set.max = v.max /\ set.vis = v.vis /\ set.win = v.win /\ set.client = v.client
        /\ \A c \in Bars : c # b => set.pos[c] = v.pos[c]
        /\ set.pos[b] <= 0
    BY SetPosFacts
  <2> HIDE DEF set, size
  <2>3. /\ hidden \in ViewRec /\ hidden.pos = set.pos /\ hidden.max = set.max
        /\ hidden.win = set.win /\ hidden.client = set.client
        /\ hidden.vis[b] = FALSE /\ \A c \in Bars : c # b => hidden.vis[c] = set.vis[c]
    BY <2>2 DEF ViewRec
  <2>4. set.pos[b] = 0
    BY <2>2 DEF ViewRec
  <2>5. v.max[b] <= size
    BY <1>1, <1>3
  <2> HIDE DEF hidden, w
  <2> QED BY <2>1, <2>2, <2>3, <2>4, <2>5 DEF w, size
<1> QED BY <1>2, <1>3

-----------------------------------------------------------------------------
(* The frame                                                               *)

\* Both bars.
LEMMA BarsAre == /\ "H" \in Bars /\ "V" \in Bars /\ "H" # "V"
                 /\ Other("H") = "V" /\ Other("V") = "H"
                 /\ \A b \in Bars : b = "H" \/ b = "V"
BY DEF Bars, Other

\* Whatever the view was, recalculating the frame brings it inside the data.
LEMMA FrameFacts ==
  ASSUME NEW v \in ViewRec, NEW win \in Windows
  PROVE  LET w == OnNCCalcSize(v, win)
         IN  Seen(w) /\ w.max = v.max /\ w.win = win
<1> DEFINE h == CalcBar(v, "H", win["H"])
           height == win["V"] - (IF h.vis["H"] THEN BarSize ELSE 0)
           hv == CalcBar(h, "V", height)
           width == win["H"] - (IF hv.vis["V"] THEN BarSize ELSE 0)
           client == [H |-> width, V |-> height]
           sizeH == IF v.vis["V"] THEN win["H"] - BarSize ELSE win["H"]
           sizeV == IF h.vis["H"] THEN height - BarSize ELSE height
           w == [hv EXCEPT !.win = win, !.client = client]
<1>1. /\ win["H"] \in Nat /\ win["V"] \in Nat /\ BarSize \in Nat
      /\ win["H"] >= BarSize /\ win["V"] >= 2 * BarSize
  BY BarsAre, ViewAssumption, RoomForBars DEF Windows
<1>2. OnNCCalcSize(v, win) = w
  BY DEF OnNCCalcSize
<1>3. /\ h \in ViewRec /\ h.max = v.max
      /\ h.vis["H"] = TRUE => h.pos["H"] <= h.max["H"] - sizeH
      /\ h.vis["H"] = FALSE => h.pos["H"] = 0 /\ h.max["H"] <= sizeH
  <2> DEFINE size == IF v.vis[Other("H")] THEN win["H"] - BarSize ELSE win["H"]
  <2>1. size = sizeH
    BY BarsAre
  <2>2. /\ h \in ViewRec /\ h.max = v.max
        /\ h.vis["H"] = TRUE => h.pos["H"] <= h.max["H"] - size
        /\ h.vis["H"] = FALSE => h.pos["H"] = 0 /\ h.max["H"] <= size
    <3>1. win["H"] \in Int /\ "H" \in Bars
      BY <1>1, BarsAre
    <3> QED BY <3>1, CalcBarFacts, Zenon
  <2> HIDE DEF size, sizeH, h
  <2> QED BY <2>1, <2>2
<1> HIDE DEF h
<1>4. h.vis["H"] \in BOOLEAN /\ v.vis["V"] \in BOOLEAN /\ height \in Nat
  BY <1>1, <1>3, BarsAre DEF ViewRec
<1>5. sizeH \in Int /\ sizeH <= win["H"] /\ win["H"] <= sizeH + BarSize
  BY <1>1
<1>6. sizeV \in Int /\ sizeV <= height /\ height <= sizeV + BarSize
  BY <1>1, <1>4
<1> HIDE DEF height, sizeH
<1>7. /\ hv \in ViewRec /\ hv.max = h.max
      /\ hv.pos["H"] = h.pos["H"] /\ hv.vis["H"] = h.vis["H"]
      /\ hv.vis["V"] = TRUE => hv.pos["V"] <= hv.max["V"] - sizeV
      /\ hv.vis["V"] = FALSE => hv.pos["V"] = 0 /\ hv.max["V"] <= sizeV
  <2> DEFINE size == IF h.vis[Other("V")] THEN height - BarSize ELSE height
  <2>1. size = sizeV
    BY BarsAre
  <2>2. /\ hv \in ViewRec /\ hv.max = h.max
        /\ hv.pos["H"] = h.pos["H"] /\ hv.vis["H"] = h.vis["H"]
        /\ hv.vis["V"] = TRUE => hv.pos["V"] <= hv.max["V"] - size
        /\ hv.vis["V"] = FALSE => hv.pos["V"] = 0 /\ hv.max["V"] <= size
    <3>1. height \in Int /\ "V" \in Bars /\ "H" \in Bars /\ "H" # "V"
      BY <1>4, BarsAre
    <3> QED BY <1>3, <3>1, CalcBarFacts, Zenon
  <2> HIDE DEF size, sizeV, hv
  <2> QED BY <2>1, <2>2
<1> HIDE DEF hv, sizeV
<1>8. hv.vis["V"] \in BOOLEAN /\ hv.vis["H"] \in BOOLEAN
  BY <1>7, BarsAre DEF ViewRec
<1>9. width \in Nat /\ width <= win["H"] /\ win["H"] <= width + BarSize
  BY <1>1, <1>8
<1> HIDE DEF width
<1>10. client \in [Bars -> Nat] /\ client["H"] = width /\ client["V"] = height
  BY <1>4, <1>9 DEF Bars
<1> HIDE DEF client
<1>11. /\ w \in ViewRec /\ w.pos = hv.pos /\ w.max = hv.max /\ w.vis = hv.vis
       /\ w.win = win /\ w.client = client
  BY <1>7, <1>10 DEF ViewRec
<1> HIDE DEF w
<1>12. /\ w.max["H"] \in Int /\ w.max["V"] \in Int
       /\ w.pos["H"] \in Nat /\ w.pos["V"] \in Nat
  BY <1>11, BarsAre DEF ViewRec
<1>13. /\ w.vis["H"] = TRUE => w.pos["H"] <= w.max["H"] - sizeH
       /\ w.vis["H"] = FALSE => w.pos["H"] = 0 /\ w.max["H"] <= sizeH
  BY <1>3, <1>7, <1>11
<1>14. /\ w.vis["V"] = TRUE => w.pos["V"] <= w.max["V"] - sizeV
       /\ w.vis["V"] = FALSE => w.pos["V"] = 0 /\ w.max["V"] <= sizeV
  BY <1>7, <1>11
<1>15. Within(w, "H") /\ Fits(w, "H")
  <2>1. CASE w.vis["H"] = TRUE
    BY <1>1, <1>5, <1>9, <1>10, <1>11, <1>12, <1>13, <2>1 DEF Within, Fits, MaxPos
  <2>2. CASE w.vis["H"] = FALSE
    BY <1>1, <1>5, <1>9, <1>10, <1>11, <1>12, <1>13, <2>2 DEF Within, Fits, MaxPos
  <2> QED BY <1>8, <1>11, <2>1, <2>2
<1>16. Within(w, "V") /\ Fits(w, "V")
  <2>1. CASE w.vis["V"] = TRUE
    BY <1>1, <1>4, <1>6, <1>10, <1>11, <1>12, <1>14, <2>1 DEF Within, Fits, MaxPos
  <2>2. CASE w.vis["V"] = FALSE
    BY <1>1, <1>4, <1>6, <1>10, <1>11, <1>12, <1>14, <2>2 DEF Within, Fits, MaxPos
  <2> QED BY <1>8, <1>11, <2>1, <2>2
<1>17. Framed(w)
  <2>1. w.client["H"] <= w.win["H"] /\ w.win["H"] <= w.client["H"] + BarSize
    BY <1>9, <1>10, <1>11
  <2>2. height <= win["V"] /\ win["V"] <= height + BarSize
    BY <1>1, <1>4 DEF height
  <2>3. w.client["V"] <= w.win["V"] /\ w.win["V"] <= w.client["V"] + BarSize
    BY <1>10, <1>11, <2>2
  <2>4. w.vis["V"] = TRUE => w.pos["V"] + w.client["V"] <= w.max["V"] + BarSize
    BY <1>1, <1>4, <1>6, <1>10, <1>11, <1>12, <1>14
  <2> QED BY <2>1, <2>3, <2>4, BarsAre DEF Framed
<1>18. Seen(w)
  BY <1>11, <1>15, <1>16, <1>17, BarsAre DEF Seen
<1> QED BY <1>2, <1>3, <1>7, <1>11, <1>18

\* So does a new limit of a bar.
LEMMA SetSizesFacts ==
  ASSUME NEW v \in ViewRec, NEW b \in Bars, NEW max \in Nat
  PROVE  LET w == SetScrollSizes(v, b, max)
         IN  Seen(w) /\ w.win = v.win /\ w.max = [v.max EXCEPT ![b] = max]
<1> DEFINE u == [v EXCEPT !.max[b] = max]
<1>1. u \in ViewRec /\ u.win = v.win /\ u.max = [v.max EXCEPT ![b] = max]
  BY DEF ViewRec
<1> HIDE DEF u
<1>2. v.win \in Windows
  BY DEF ViewRec
<1>3. SetScrollSizes(v, b, max) = OnNCCalcSize(u, v.win)
  BY DEF SetScrollSizes, u
<1> QED BY <1>1, <1>2, <1>3, FrameFacts

-----------------------------------------------------------------------------
(* The geometry's types                                                    *)

\* A layout's numbers.
LEMMA LayoutFacts ==
  ASSUME NEW l \in Layouts
  PROVE  /\ l.cy \in Nat \ {0} /\ l.capacity \in Nat \ {0} /\ l.group \in Nat \ {0}
         /\ l.infoBar \in BOOLEAN
BY ViewAssumption DEF Layouts

\* The limits of both bars.
LEMMA LimitFacts ==
  ASSUME NEW l \in Layouts, NEW size \in Nat
  PROVE  StartY(l) \in Nat /\ BottomOff(l) \in Nat /\ MaxV(l, size) \in Nat /\ MaxH(l) \in Nat
<1>1. /\ l.cy \in Nat \ {0} /\ l.capacity \in Nat \ {0} /\ l.group \in Nat \ {0}
      /\ l.infoBar \in BOOLEAN
      /\ CharWidth \in Nat /\ ExtraWidth \in Nat /\ Digits \in Nat /\ InfoHeight \in Nat
  BY LayoutFacts, ViewAssumption
<1>2. StartY(l) \in Nat
  BY <1>1 DEF StartY, Round
<1>3. BottomOff(l) \in Nat
  BY <1>1 DEF BottomOff
<1>4. Lines(l, size) \in Nat
  <2>1. size \div l.capacity \in Nat
    BY <1>1, ModFacts
  <2> QED BY <2>1 DEF Lines
<1>5. MaxV(l, size) \in Nat
  <2>1. l.cy * (Lines(l, size) + 1) \in Nat
    BY <1>1, <1>4
  <2> QED BY <1>2, <1>3, <2>1 DEF MaxV
<1>6. SecondLine \in Nat /\ HexByte \in Nat /\ BetweenBlocks(l) \in Nat
  <2>1. (Digits + 2) * CharWidth \in Nat
    BY <1>1
  <2> QED BY <1>1, <2>1 DEF SecondLine, HexByte, BetweenBlocks
<1>7. GroupedChunk(l) \in Nat
  <2>1. HexByte * l.group \in Nat
    BY <1>1, <1>6
  <2> QED BY <1>1, <2>1 DEF GroupedChunk
<1>8. ThirdLine(l) \in Nat
  <2>1. l.capacity \div l.group \in Nat
    BY <1>1, ModFacts
  <2> DEFINE d == l.capacity \div l.group
  <2> HIDE DEF d
  <2>2. GroupedChunk(l) * d \in Nat
    BY <1>7, <2>1 DEF d
  <2> QED BY <1>1, <1>6, <2>2 DEF ThirdLine, d
<1>9. MaxH(l) \in Nat
  <2>1. ExtraWidth * l.capacity \in Nat
    BY <1>1
  <2> QED BY <1>1, <1>8, <2>1 DEF MaxH, FourthLine, IndentText
<1> QED BY <1>2, <1>3, <1>5, <1>9

\* The line on top.
LEMMA TopLineFacts ==
  ASSUME NEW l \in Layouts, NEW v \in ViewRec
  PROVE  TopLine(l, v) \in Nat
<1>1. v.pos["V"] \in Nat
  BY BarsAre DEF ViewRec
<1> QED BY <1>1, LayoutFacts, ModFacts DEF TopLine

\* The height of the lines in sight is a whole number of pixels, though it may
\* be less than none in a low window.
LEMMA WorkHeightFacts ==
  ASSUME NEW l \in Layouts, NEW v \in ViewRec
  PROVE  WorkHeight(l, v) \in Int
<1>1. v.client["V"] \in Int
  BY BarsAre DEF ViewRec
<1>2. StartY(l) \in Nat /\ BottomOff(l) \in Nat
  <2>1. 0 \in Nat
    OBVIOUS
  <2> QED BY <2>1, LimitFacts
<1>3. Room(l, v) \in Int /\ l.cy \in Nat \ {0}
  BY <1>1, <1>2, LayoutFacts DEF Room
<1> QED BY <1>3 DEF WorkHeight

-----------------------------------------------------------------------------
(* What a step makes of the view                                           *)

\* A view that is seen, in the window and with the limits given.
SeenIn(v, win, max) == Seen(v) /\ v.win = win /\ v.max = max

\* SetScrollPos stays in the window and its limits.
LEMMA SetPosSeenIn ==
  ASSUME NEW v, Seen(v), NEW b \in Bars, NEW new \in Nat,
         b = "V" \/ v.vis[b] = TRUE \/ new = 0
  PROVE  SeenIn(SetScrollPos(v, b, new), v.win, v.max)
<1>1. SetScrollPos(v, b, new).win = v.win /\ SetScrollPos(v, b, new).max = v.max
  BY SetPosFacts DEF Seen
<1> QED BY <1>1, SetPosSeen DEF SeenIn

\* The view of a new layout, of new data, and of none.
LEMMA RecalcSeen ==
  ASSUME NEW l \in Layouts, NEW size \in Nat, NEW v, Seen(v), layout \in Layouts
  PROVE  SeenIn(RecalcAll(l, size, v), v.win, [H |-> MaxH(l), V |-> MaxV(l, size)])
<1> DEFINE tall == SetScrollSizes(v, "V", MaxV(l, size))
           sized == SetScrollSizes(tall, "H", MaxH(l))
           top == TopLine(layout, v) * l.cy
<1>1. v \in ViewRec /\ MaxV(l, size) \in Nat /\ MaxH(l) \in Nat
  BY LimitFacts DEF Seen
<1> DEFINE limits == [H |-> MaxH(l), V |-> MaxV(l, size)]
<1>2. Seen(tall) /\ tall.win = v.win /\ tall.max = [v.max EXCEPT !["V"] = MaxV(l, size)]
  BY <1>1, BarsAre, SetSizesFacts
<1> HIDE DEF tall
<1>3. Seen(sized) /\ sized.win = v.win /\ sized.max = [tall.max EXCEPT !["H"] = MaxH(l)]
  <2>1. tall \in ViewRec /\ MaxH(l) \in Nat /\ "H" \in Bars
    BY <1>1, <1>2, BarsAre DEF Seen
  <2>2. Seen(sized) /\ sized.win = tall.win /\ sized.max = [tall.max EXCEPT !["H"] = MaxH(l)]
    BY <2>1, SetSizesFacts
  <2> HIDE DEF sized
  <2> QED BY <1>2, <2>2
<1> HIDE DEF sized
<1>4. sized.max = limits
  BY <1>1, <1>2, <1>3 DEF ViewRec, Bars
<1>5. top \in Nat
  <2>1. TopLine(layout, v) \in Nat /\ l.cy \in Nat
    BY <1>1, TopLineFacts, LayoutFacts
  <2> QED BY <2>1
<1> HIDE DEF top
<1>6. SeenIn(SetScrollPos(sized, "V", top), sized.win, sized.max)
  BY <1>3, <1>5, BarsAre, SetPosSeenIn
<1>7. RecalcAll(l, size, v) = SetScrollPos(sized, "V", top)
  BY DEF RecalcAll, sized, tall, top
<1> QED BY <1>3, <1>4, <1>6, <1>7

LEMMA ClearedSeen ==
  ASSUME NEW v, Seen(v)
  PROVE  SeenIn(Cleared(v), v.win, [v.max EXCEPT !["V"] = 0])
<1> DEFINE up == SetScrollPos(v, "V", 0)
           left == SetScrollPos(up, "H", 0)
<1>1. SeenIn(up, v.win, v.max)
  BY BarsAre, SetPosSeenIn
<1> HIDE DEF up
<1>2. SeenIn(left, up.win, up.max)
  BY <1>1, BarsAre, SetPosSeenIn DEF SeenIn
<1> HIDE DEF left
<1>3. SeenIn(SetScrollSizes(left, "V", 0), left.win, [left.max EXCEPT !["V"] = 0])
  BY <1>2, BarsAre, SetSizesFacts DEF SeenIn, Seen
<1> QED BY <1>1, <1>2, <1>3 DEF Cleared, SeenIn, up, left

\* Scrolling on and back.
LEMMA ScrollSeen ==
  ASSUME NEW v, Seen(v), NEW b \in Bars, NEW by \in Nat, b = "V" \/ v.vis[b] = TRUE
  PROVE  /\ SeenIn(ScrollBack(v, b, by), v.win, v.max)
         /\ SeenIn(ScrollOn(v, b, by), v.win, v.max)
<1>1. v.pos[b] \in Nat
  BY DEF Seen, ViewRec
<1>2. (IF by > v.pos[b] THEN 0 ELSE v.pos[b] - by) \in Nat /\ v.pos[b] + by \in Nat
  BY <1>1
<1> QED BY <1>2, SetPosSeenIn DEF ScrollBack, ScrollOn

\* Going to an offset.
LEMMA GoToSeen ==
  ASSUME ViewInv, NEW offset \in Nat, NEW iPosAt \in -1..1, NEW textArea \in BOOLEAN
  PROVE  SeenIn(GoTo(view, offset, iPosAt, textArea), view.win, view.max)
<1> DEFINE line == (offset \div layout.capacity) * layout.cy
           target == LineAtPos(layout, view, dataSize, line, iPosAt)
           down == SetScrollPos(view, "V", target)
           x == (offset % layout.capacity) * HexByte
           right == x + (x \div GroupedChunk(layout)) * ExtraWidth
<1>1. /\ Seen(view) /\ view \in ViewRec /\ layout \in Layouts
      /\ layout.cy \in Nat \ {0} /\ layout.capacity \in Nat \ {0} /\ layout.group \in Nat \ {0}
      /\ Modulus \in Nat \ {0}
  BY LayoutFacts, ViewAssumption DEF ViewInv, Seen
<1>2. line \in Nat
  <2>1. offset \div layout.capacity \in Nat
    BY <1>1, ModFacts
  <2> QED BY <1>1, <2>1
<1> HIDE DEF line
<1>3. target \in Nat
  <2> DEFINE half == WorkHeight(layout, view) \div 2
  <2>1. half \in Int
    BY <1>1, WorkHeightFacts
  <2> HIDE DEF half
  <2>2. CASE iPosAt = -1
    BY <1>2, <2>2 DEF LineAtPos
  <2>3. CASE iPosAt = 0
    <3>1. CASE line > half
      <4> DEFINE above == line - half
      <4>1. above \in Nat
        BY <1>2, <2>1, <3>1
      <4>2. target = above - (above % layout.cy)
        BY <2>3, <3>1 DEF LineAtPos, half
      <4> HIDE DEF above
      <4>3. above % layout.cy \in Nat /\ above % layout.cy <= above
        BY <1>1, <4>1, ModFacts
      <4> QED BY <4>1, <4>2, <4>3
    <3>2. CASE ~(line > half)
      BY <2>3, <3>2 DEF LineAtPos, half
    <3> QED BY <3>1, <3>2
  <2>4. CASE iPosAt = 1
    <3> DEFINE lines == BottomLine(layout, view, dataSize) - TopLine(layout, view)
    <3>1. lines \in Int
      <4>1. TopLine(layout, view) \in Nat
        BY <1>1, TopLineFacts
      <4>2. BottomLine(layout, view, dataSize) \in Int
        <5>1. WorkHeight(layout, view) \div layout.cy \in Int
          BY <1>1, WorkHeightFacts
        <5>2. dataSize \in Nat
          BY ViewAssumption DEF ViewInv
        <5>3. dataSize \div layout.capacity \in Nat
          BY <1>1, <5>2, ModFacts
        <5> QED BY <4>1, <5>1, <5>3 DEF BottomLine
      <4> QED BY <4>1, <4>2
    <3>2. target = (line - lines * layout.cy) % Modulus
      BY <2>4 DEF LineAtPos
    <3> HIDE DEF lines
    <3>3. lines * layout.cy \in Int
      BY <1>1, <3>1
    <3>4. line - lines * layout.cy \in Int
      BY <1>2, <3>3
    <3> QED BY <1>1, <3>2, <3>4
  <2> QED BY <2>2, <2>3, <2>4
<1> HIDE DEF target
<1>4. SeenIn(down, view.win, view.max)
  BY <1>1, <1>3, BarsAre, SetPosSeenIn
<1>5. down.vis = view.vis
  <2>1. view \in ViewRec /\ "V" \in Bars
    BY <1>1, BarsAre
  <2> QED BY <2>1, <1>3, SetPosFacts
<1>6. right \in Nat
  <2>1. HexByte \in Nat /\ ExtraWidth \in Nat \ {0}
    BY ViewAssumption DEF HexByte
  <2>2. x \in Nat
    <3> DEFINE m == offset % layout.capacity
    <3>1. m \in Nat
      BY <1>1, ModFacts
    <3> HIDE DEF m
    <3>2. m * HexByte \in Nat
      BY <2>1, <3>1
    <3> QED BY <3>2 DEF m
  <2> HIDE DEF x
  <2>3. GroupedChunk(layout) \in Nat \ {0}
    <3>1. HexByte * layout.group \in Nat
      BY <1>1, <2>1
    <3> QED BY <2>1, <3>1 DEF GroupedChunk
  <2> DEFINE d == x \div GroupedChunk(layout)
  <2>4. d \in Nat
    BY <2>2, <2>3, ModFacts
  <2> HIDE DEF d
  <2>5. d * ExtraWidth \in Nat
    BY <2>1, <2>4
  <2> QED BY <2>2, <2>5 DEF d
<1> HIDE DEF right
<1>7. CASE view.vis["H"] = TRUE /\ textArea = FALSE
  <2>1. GoTo(view, offset, iPosAt, textArea) = SetScrollPos(down, "H", right)
    BY <1>7 DEF GoTo, right, target, line
  <2> HIDE DEF down
  <2>2. SeenIn(SetScrollPos(down, "H", right), down.win, down.max)
    BY <1>4, <1>5, <1>6, <1>7, BarsAre, SetPosSeenIn DEF SeenIn
  <2> QED BY <1>4, <2>1, <2>2 DEF SeenIn
<1>8. CASE ~(view.vis["H"] = TRUE /\ textArea = FALSE)
  <2>1. view.vis["H"] \in BOOLEAN
    BY <1>1, BarsAre DEF ViewRec
  <2>2. GoTo(view, offset, iPosAt, textArea) = down
    BY <1>8, <2>1 DEF GoTo, target, line
  <2> QED BY <1>4, <2>2
<1> QED BY <1>7, <1>8

-----------------------------------------------------------------------------
(* One step of each action                                                 *)

\* What every step needs of the invariant.
LEMMA InvFacts ==
  ASSUME ViewInv
  PROVE  /\ Seen(view) /\ view \in ViewRec /\ layout \in Layouts
         /\ layout.cy \in Nat \ {0} /\ layout.capacity \in Nat \ {0}
         /\ dataSize \in Nat /\ dataSize \in Sizes \cup {0}
         /\ (dataSize > 0 => caretPos \in 0..dataSize - 1) /\ (dataSize = 0 => caretPos = 0)
         /\ caretPos \in Nat
<1>1. dataSize \in Nat
  BY ViewAssumption DEF ViewInv
<1>2. (dataSize > 0 => caretPos \in 0..dataSize - 1) /\ (dataSize = 0 => caretPos = 0)
  BY <1>1 DEF ViewInv, Greatest
<1>3. caretPos \in Nat
  BY <1>1, <1>2
<1> QED BY <1>1, <1>2, <1>3, LayoutFacts DEF ViewInv, Seen

\* A step that scrolls, with the caret in the data.
LEMMA SeenStep ==
  ASSUME ViewInv, UNCHANGED <<dataSize, layout>>, SeenIn(view', view.win, view.max),
         caretPos' = caretPos \/ caretPos' \in 0..dataSize - 1
  PROVE  ViewInv'
<1>1. dataSize \in Nat
  BY InvFacts
<1>2. caretPos' \in 0..Greatest(dataSize - 1, 0)
  <2>1. 0..dataSize - 1 \subseteq 0..Greatest(dataSize - 1, 0)
    BY <1>1 DEF Greatest
  <2> QED BY <2>1 DEF ViewInv
<1>3. MaxH(layout') = MaxH(layout) /\ MaxV(layout', dataSize') = MaxV(layout, dataSize)
  OBVIOUS
<1> QED BY <1>2, <1>3 DEF ViewInv, SeenIn, Seen

\* New data and layouts.
LEMMA DataSteps ==
  ASSUME ViewInv, ClearData \/ (\E size \in Sizes : SetData(size))
  PROVE  ViewInv'
<1>1. Seen(view) /\ layout \in Layouts /\ 0 \in 0..Greatest(0 - 1, 0)
  BY DEF ViewInv, Greatest
<1>2. SeenIn(Cleared(view), view.win, [view.max EXCEPT !["V"] = 0])
  BY <1>1, ClearedSeen
<1>3. view.max \in [Bars -> Nat] /\ view.max["H"] = MaxH(layout)
  BY <1>1 DEF ViewInv, Seen, ViewRec
<1>4. CASE ClearData
  <2>1. dataSize' = 0 /\ caretPos' = 0 /\ view' = Cleared(view) /\ layout' = layout
    BY <1>4 DEF ClearData
  <2>2. view'.max["H"] = MaxH(layout)
    BY <1>2, <1>3, <2>1, BarsAre DEF SeenIn
  <2>3. MaxH(layout') = MaxH(layout)
    BY <2>1
  <2> QED BY <1>1, <1>2, <2>1, <2>2, <2>3 DEF ViewInv, SeenIn, Seen
<1>5. CASE \E size \in Sizes : SetData(size)
  <2>1. PICK size \in Sizes : SetData(size)
    BY <1>5
  <2>2. /\ dataSize' = size /\ caretPos' = 0 /\ layout' = layout
        /\ view' = RecalcAll(layout, size, Cleared(view))
    BY <2>1 DEF SetData
  <2>3. size \in Nat /\ 0 \in 0..Greatest(size - 1, 0)
    BY ViewAssumption DEF Greatest
  <2>4. SeenIn(view', Cleared(view).win, [H |-> MaxH(layout), V |-> MaxV(layout, size)])
    BY <1>1, <1>2, <2>2, <2>3, RecalcSeen DEF SeenIn
  <2>5. view'.max["H"] = MaxH(layout') /\ view'.max["V"] = MaxV(layout', dataSize')
    BY <2>2, <2>4 DEF SeenIn
  <2> QED BY <1>1, <1>2, <2>2, <2>3, <2>4, <2>5 DEF ViewInv, SeenIn, Seen
<1> QED BY <1>4, <1>5

\* SetFont, SetCapacity, SetGroupSize, ShowInfoBar.
LEMMA LayoutSteps ==
  ASSUME ViewInv,
         \/ \E cy \in Fonts : SetFont(cy)
         \/ \E cap \in Capacities : SetCapacity(cap)
         \/ \E group \in Groups : SetGroupSize(group)
         \/ \E show \in BOOLEAN : ShowInfoBar(show)
  PROVE  ViewInv'
<1>1. layout \in Layouts
  BY DEF ViewInv
<1>2. PICK l \in Layouts : Relayout(l)
  <2>1. \A cy \in Fonts : [layout EXCEPT !.cy = cy] \in Layouts
    BY <1>1 DEF Layouts
  <2>2. \A cap \in Capacities : [layout EXCEPT !.capacity = cap] \in Layouts
    BY <1>1 DEF Layouts
  <2>3. \A group \in Groups : [layout EXCEPT !.group = group] \in Layouts
    BY <1>1 DEF Layouts
  <2>4. \A show \in BOOLEAN : [layout EXCEPT !.infoBar = show] \in Layouts
    BY <1>1 DEF Layouts
  <2>5. CASE \E cy \in Fonts : SetFont(cy)
    BY <2>1, <2>5 DEF SetFont
  <2>6. CASE \E cap \in Capacities : SetCapacity(cap)
    BY <2>2, <2>6 DEF SetCapacity
  <2>7. CASE \E group \in Groups : SetGroupSize(group)
    BY <2>3, <2>7 DEF SetGroupSize
  <2>8. CASE \E show \in BOOLEAN : ShowInfoBar(show)
    BY <2>4, <2>8 DEF ShowInfoBar
  <2> QED BY <2>5, <2>6, <2>7, <2>8
<1>3. layout' = l /\ view' = RecalcAll(l, dataSize, view) /\ UNCHANGED <<dataSize, caretPos>>
  BY <1>2 DEF Relayout
<1>4. SeenIn(view', view.win, [H |-> MaxH(l), V |-> MaxV(l, dataSize)])
  BY <1>1, <1>3, InvFacts, RecalcSeen
<1>5. view'.max["H"] = MaxH(layout') /\ view'.max["V"] = MaxV(layout', dataSize')
  BY <1>3, <1>4 DEF SeenIn
<1> QED BY <1>3, <1>4, <1>5 DEF ViewInv, SeenIn, Seen

\* Resize and OnNCActivate.
LEMMA FrameSteps ==
  ASSUME ViewInv,
         (\E width \in Widths, height \in Heights : Resize(width, height)) \/ OnNCActivate
  PROVE  ViewInv'
<1>1. CASE \E width \in Widths, height \in Heights : Resize(width, height)
  <2>1. PICK width \in Widths, height \in Heights : Resize(width, height)
    BY <1>1
  <2> DEFINE win == [H |-> width, V |-> height]
  <2>2. win \in Windows
    BY RoomForBars DEF Bars, Windows
  <2>3. view' = OnNCCalcSize(view, win) /\ UNCHANGED <<dataSize, layout, caretPos>>
    BY <2>1 DEF Resize
  <2> HIDE DEF win
  <2>4. Seen(view') /\ view'.win = win /\ view'.max = view.max
    BY <2>2, <2>3, InvFacts, FrameFacts
  <2>5. MaxH(layout') = MaxH(layout) /\ MaxV(layout', dataSize') = MaxV(layout, dataSize)
    BY <2>3
  <2> QED BY <2>2, <2>3, <2>4, <2>5 DEF ViewInv, Seen
<1>2. CASE OnNCActivate
  <2> DEFINE once == OnNCCalcSize(view, view.win)
  <2>1. view' = OnNCCalcSize(once, view.win) /\ UNCHANGED <<dataSize, layout, caretPos>>
    BY <1>2 DEF OnNCActivate
  <2>2. view \in ViewRec /\ view.win \in Windows
    BY InvFacts DEF ViewRec
  <2>3. Seen(once) /\ once \in ViewRec /\ once.max = view.max
    BY <2>2, FrameFacts DEF Seen
  <2> HIDE DEF once
  <2>4. Seen(view') /\ view'.win = view.win /\ view'.max = view.max
    BY <2>1, <2>2, <2>3, FrameFacts
  <2> QED BY <2>1, <2>4, SeenStep DEF SeenIn
<1> QED BY <1>1, <1>2

\* The scroll bars: lines and pages.
LEMMA ScrollSteps ==
  ASSUME ViewInv, NEW b \in Bars, ScrollLine(b) \/ ScrollPage(b)
  PROVE  ViewInv'
<1>1. Seen(view) /\ view.vis[b] \in BOOLEAN
  BY InvFacts DEF ViewRec
<1>2. PICK by \in Nat :
        /\ view' = ScrollBack(view, b, by) \/ view' = ScrollOn(view, b, by)
        /\ UNCHANGED <<dataSize, layout, caretPos>>
  <2>1. CASE ScrollLine(b)
    <3>1. LineSize(b) \in Nat
      BY InvFacts, ViewAssumption DEF LineSize
    <3> QED BY <2>1, <3>1 DEF ScrollLine, Scrolled
  <2>2. CASE ScrollPage(b)
    <3>1. WorkHeight(layout, view) \in Int /\ layout.cy \in Nat
      BY InvFacts, WorkHeightFacts
    <3>2. Greatest(layout.cy, WorkHeight(layout, view)) \in Nat
      BY <3>1 DEF Greatest
    <3>3. view.win["H"] - BarSize \in Nat /\ view.win["H"] \in Nat
      <4>1. view.win \in Windows /\ BarSize \in Nat
        BY InvFacts, ViewAssumption DEF ViewRec
      <4> QED BY <4>1, BarsAre, RoomForBars DEF Windows
    <3>4. PageSizes(b) \subseteq Nat
      BY <3>2, <3>3 DEF PageSizes
    <3> QED BY <2>2, <3>4 DEF ScrollPage, Scrolled
  <2> QED BY <2>1, <2>2
<1>3. b = "V" \/ view.vis[b] = TRUE
  BY <1>1 DEF ScrollLine, ScrollPage
<1>4. SeenIn(view', view.win, view.max)
  BY <1>1, <1>2, <1>3, ScrollSeen
<1> QED BY <1>2, <1>4, SeenStep

-----------------------------------------------------------------------------
(* The thumb                                                               *)

\* Rounding to the nearest, half up: the number whose double's neighbourhood
\* the dividend is in.
LEMMA RoundFacts ==
  ASSUME NEW a \in Nat, NEW b \in Nat \ {0}
  PROVE  /\ Round(a, b) \in Nat
         /\ 2 * (b * Round(a, b)) <= 2 * a + b
         /\ 2 * a + b < 2 * (b * Round(a, b)) + 2 * b
<1> DEFINE n == 2 * a + b
           d == 2 * b
           q == n \div d
<1>1. n \in Nat /\ d \in Nat \ {0}
  OBVIOUS
<1>2. q \in Nat /\ n = d * q + (n % d) /\ n % d \in 0..d - 1
  <2> HIDE DEF n, d
  <2> QED BY <1>1, ModFacts, DivMod
<1>3. Round(a, b) = q
  BY DEF Round
<1> HIDE DEF q
<1>4. d * q = 2 * (b * q)
  BY <1>2
<1> DEFINE p == b * q
<1>5. p \in Nat
  BY <1>2
<1>6. d * q = 2 * p
  BY <1>4
<1> HIDE DEF p
<1>7. 2 * p <= n /\ n < 2 * p + d
  BY <1>1, <1>2, <1>5, <1>6
<1> QED BY <1>2, <1>3, <1>7 DEF p

\* And the only such number.
LEMMA RoundIs ==
  ASSUME NEW a \in Nat, NEW b \in Nat \ {0}, NEW r \in Nat,
         2 * (b * r) <= 2 * a + b, 2 * a + b < 2 * (b * r) + 2 * b
  PROVE  Round(a, b) = r
<1> DEFINE n == 2 * a + b
           d == 2 * b
           rest == n - 2 * (b * r)
<1>1. b * r \in Nat /\ d * r = 2 * (b * r)
  OBVIOUS
<1>2. n \in Nat /\ d \in Nat \ {0} /\ rest \in 0..d - 1 /\ n = d * r + rest
  BY <1>1
<1> HIDE DEF n, d, rest
<1>3. n \div d = r
  BY <1>2, QuotientIs
<1> QED BY <1>3 DEF Round, n, d

\* The thumb's room and the largest position, where the thumb can be dragged: a
\* pixel of the room is at least one of the data.
LEMMA ThumbFacts ==
  ASSUME NEW v \in ViewRec, NEW b \in Bars, CanScroll(v, b)
  PROVE  /\ v.vis[b] = TRUE
         /\ ThumbRoom(v, b) \in Nat \ {0} /\ MaxPos(v, b) \in Nat \ {0}
         /\ ThumbRoom(v, b) <= MaxPos(v, b)
<1> DEFINE K == v.client[b]
           X == v.max[b]
           C == Channel(v, b)
           M == MaxPos(v, b)
           R == ThumbRoom(v, b)
           S == Round(C * K, X)
<1>1. K \in Nat /\ X \in Nat /\ v.vis[b] \in BOOLEAN /\ BarSize \in Nat /\ ThumbMin \in Nat
  BY ViewAssumption DEF ViewRec
<1>2. M > 0 /\ R > 0 /\ v.vis[b] = TRUE
  BY <1>1 DEF CanScroll
<1>3. M \in Nat \ {0} /\ X = K + M /\ X \in Nat \ {0}
  BY <1>1, <1>2 DEF MaxPos
<1>4. C \in Int /\ C <= K
  BY <1>1 DEF Channel
<1>5. R = C - Greatest(ThumbMin, S)
  BY DEF ThumbRoom, ThumbSize
<1> HIDE DEF K, X, C, M, R
<1>6. S \in Int
  <2>1. C * K \in Int
    BY <1>1, <1>4
  <2> QED BY <1>3, <2>1 DEF Round
<1>7. C \in Nat
  <2> HIDE DEF S
  <2> QED BY <1>1, <1>2, <1>4, <1>5, <1>6 DEF Greatest
<1>8. R \in Nat \ {0} /\ R <= C - S
  <2> HIDE DEF S
  <2> QED BY <1>1, <1>2, <1>4, <1>5, <1>6 DEF Greatest
<1>9. C * K \in Nat
  BY <1>1, <1>7
<1>10. 2 * (C * K) + X < 2 * (X * S) + 2 * X
  BY <1>3, <1>9, RoundFacts
<1> HIDE DEF S
<1>11. SUFFICES ASSUME R > M PROVE FALSE
  BY <1>2, <1>3, <1>8 DEF M, R
<1>12. X * (M + 1) <= X * (C - S)
  <2>1. M + 1 \in Nat /\ C - S \in Nat /\ M + 1 <= C - S
    BY <1>3, <1>4, <1>6, <1>8, <1>11
  <2> QED BY <1>3, <2>1, MulMono
<1>13. X * (C - S) = X * C - X * S /\ X * (M + 1) = X * M + X
  BY <1>3, <1>6, <1>7
<1>14. X * C = C * K + C * M
  <2>1. X * C = C * (K + M)
    BY <1>3, <1>7
  <2> QED BY <1>1, <1>3, <1>7, <2>1
<1>15. C * M <= X * M
  <2>1. C <= X
    BY <1>1, <1>3, <1>4
  <2>2. M * C <= M * X
    BY <1>3, <1>7, <2>1, MulMono
  <2> QED BY <1>3, <1>7, <2>2
<1> DEFINE cm == C * M
           ck == C * K
           xm == X * M
           xs == X * S
           xc == X * C
<1>16. cm \in Int /\ ck \in Int /\ xm \in Int /\ xs \in Int /\ xc \in Int
  BY <1>1, <1>3, <1>6, <1>7
<1>17. /\ xm + X <= xc - xs /\ xc = ck + cm /\ cm <= xm
       /\ 2 * ck + X < 2 * xs + 2 * X
  BY <1>10, <1>12, <1>13, <1>14, <1>15
<1> HIDE DEF cm, ck, xm, xs, xc
<1> QED BY <1>3, <1>16, <1>17

\* Where the thumb goes, the position is rounded to, and it is in range.
LEMMA RatioFacts ==
  ASSUME NEW R \in Nat \ {0}, NEW M \in Nat \ {0}, R <= M, NEW t \in 0..R
  PROVE  LET p == Round(t * M, R)
         IN  /\ p \in Nat /\ p <= M
             /\ Round(p * R, M) = t
             /\ p * R < M => t \in {0, 1}
<1> DEFINE p == Round(t * M, R)
           tm == t * M
           rp == R * p
           rm == R * M
<1>1. t \in Nat /\ tm \in Nat /\ rm \in Nat
  OBVIOUS
<1>2. p \in Nat /\ 2 * rp <= 2 * tm + R /\ 2 * tm + R < 2 * rp + 2 * R
  BY <1>1, RoundFacts
<1> HIDE DEF p
<1>3. rp \in Nat /\ p * R = rp /\ M * t = tm
  BY <1>1, <1>2
<1>4. tm <= rm
  <2>1. M * t <= M * R
    BY <1>1, MulMono
  <2> QED BY <2>1, <1>3
<1>5. p <= M
  <2>1. SUFFICES ASSUME p > M PROVE FALSE
    BY <1>2
  <2>2. R * (M + 1) <= R * p
    BY <1>2, <2>1, MulMono
  <2>3. R * (M + 1) = rm + R
    OBVIOUS
  <2>4. rm + R <= rp
    BY <2>2, <2>3
  <2> HIDE DEF rm, rp, tm
  <2> QED BY <1>1, <1>2, <1>3, <1>4, <2>4
<1>6. (2 * tm <= 2 * rp + M /\ 2 * rp + M < 2 * tm + 2 * M) \/ R = M
  <2> HIDE DEF rm, rp, tm
  <2> QED BY <1>1, <1>2, <1>3
<1>7. Round(rp, M) = t
  <2>1. CASE R = M
    <3>1. 2 * (R * t) <= 2 * tm + R /\ 2 * tm + R < 2 * (R * t) + 2 * R
      BY <1>3, <2>1
    <3>2. Round(tm, R) = t
      BY <1>1, <3>1, RoundIs
    <3>3. p = t
      BY <3>2 DEF p
    <3>4. rp = tm
      BY <1>1, <2>1, <3>3
    <3> QED BY <2>1, <3>2, <3>4
  <2>2. CASE R # M
    <3>1. 2 * (M * t) <= 2 * rp + M /\ 2 * rp + M < 2 * (M * t) + 2 * M
      <4> HIDE DEF rm, rp, tm
      <4> QED BY <1>3, <1>6, <2>2
    <3> HIDE DEF rp
    <3> QED BY <1>1, <1>3, <3>1, RoundIs
  <2> QED BY <2>1, <2>2
<1>8. ASSUME rp < M PROVE t \in {0, 1}
  <2>1. SUFFICES ASSUME t >= 2 PROVE FALSE
    BY <1>1
  <2>2. M * 2 <= M * t
    BY <1>1, <2>1, MulMono
  <2>3. 2 * M <= tm
    BY <1>3, <2>2
  <2> HIDE DEF rm, rp, tm
  <2> QED BY <1>1, <1>2, <1>3, <1>8, <2>3
<1> QED BY <1>2, <1>3, <1>5, <1>7, <1>8 DEF p

\* DragThumb.
LEMMA DragStep ==
  ASSUME ViewInv, NEW b \in Bars, NEW thumb \in Int, DragThumb(b, thumb)
  PROVE  ViewInv'
<1> DEFINE R == ThumbRoom(view, b)
           M == MaxPos(view, b)
           to == Least(thumb, R)
           new == IF thumb < 0 THEN 0 ELSE Round(to * M, R)
<1>1. /\ view' = SetThumbPos(view, b, thumb) /\ CanScroll(view, b)
      /\ UNCHANGED <<dataSize, layout, caretPos>>
  BY DEF DragThumb, Scrolled
<1>2. Seen(view) /\ view \in ViewRec
  BY InvFacts
<1>3. view.vis[b] = TRUE /\ R \in Nat \ {0} /\ M \in Nat \ {0}
  BY <1>1, <1>2, ThumbFacts
<1>4. view' = view \/ view' = SetScrollPos(view, b, new)
  BY <1>1 DEF SetThumbPos
<1> HIDE DEF R, M
<1>5. new \in Nat
  <2>1. CASE thumb < 0
    BY <2>1
  <2>2. CASE thumb >= 0
    <3>1. to \in Nat
      BY <1>3, <2>2 DEF Least
    <3> HIDE DEF to
    <3>2. to * M \in Nat
      BY <1>3, <3>1
    <3>3. Round(to * M, R) \in Nat
      BY <1>3, <3>2, RoundFacts
    <3> QED BY <2>2, <3>3
  <2> QED BY <2>1, <2>2
<1> HIDE DEF new
<1>6. SeenIn(view', view.win, view.max)
  <2>1. SeenIn(SetScrollPos(view, b, new), view.win, view.max)
    BY <1>2, <1>3, <1>5, SetPosSeenIn
  <2> QED BY <1>2, <1>4, <2>1 DEF SeenIn
<1> QED BY <1>1, <1>6, SeenStep

-----------------------------------------------------------------------------
(* The caret                                                               *)

\* GoToOffset and the jumps.
LEMMA JumpSteps ==
  ASSUME ViewInv, NEW textArea \in BOOLEAN,
         \/ \E offset \in 0..(dataSize - 1), iPosAt \in -1..1 : GoToOffset(offset, iPosAt, textArea)
         \/ CaretToDataBeg(textArea) \/ CaretToDataEnd(textArea)
         \/ CaretToLineBeg(textArea) \/ CaretToLineEnd(textArea)
  PROVE  ViewInv'
<1>1. Seen(view) /\ dataSize \in Nat
  BY InvFacts
<1>2. CASE \E offset \in 0..(dataSize - 1), iPosAt \in -1..1 : GoToOffset(offset, iPosAt, textArea)
  <2>1. PICK offset \in 0..(dataSize - 1), iPosAt \in -1..1 : GoToOffset(offset, iPosAt, textArea)
    BY <1>2
  <2>2. view' = GoTo(view, offset, iPosAt, textArea) /\ UNCHANGED <<dataSize, layout, caretPos>>
    BY <2>1 DEF GoToOffset, Scrolled
  <2>3. SeenIn(view', view.win, view.max)
    BY <2>2, GoToSeen
  <2> QED BY <2>2, <2>3, SeenStep
<1>3. ASSUME NEW offset, NEW always, CaretTo(offset, always, textArea)
      PROVE  ViewInv'
  <2>1. /\ offset \in 0..(dataSize - 1) /\ caretPos' = offset /\ UNCHANGED <<dataSize, layout>>
        /\ view' = GoTo(view, offset, 0, textArea) \/ view' = view
    BY <1>3 DEF CaretTo
  <2>2. SeenIn(GoTo(view, offset, 0, textArea), view.win, view.max)
    <3>1. offset \in Nat /\ 0 \in -1..1
      BY <2>1
    <3> QED BY <3>1, GoToSeen
  <2>3. SeenIn(view', view.win, view.max)
    BY <1>1, <2>1, <2>2 DEF SeenIn
  <2> QED BY <2>1, <2>3, SeenStep
<1>4. CASE CaretToDataBeg(textArea)
  BY <1>3, <1>4 DEF CaretToDataBeg
<1>5. CASE CaretToDataEnd(textArea)
  BY <1>3, <1>5 DEF CaretToDataEnd
<1>6. CASE CaretToLineBeg(textArea)
  BY <1>3, <1>6 DEF CaretToLineBeg
<1>7. CASE CaretToLineEnd(textArea)
  BY <1>3, <1>7 DEF CaretToLineEnd
<1> QED BY <1>2, <1>4, <1>5, <1>6, <1>7

\* The arrows, by a line or sideways.
LEMMA ArrowStep ==
  ASSUME ViewInv, dataSize > 0, NEW new \in 0..dataSize - 1, NEW v, SeenIn(v, view.win, view.max),
         NEW horz \in BOOLEAN, Arrow(new, v, horz)
  PROVE  ViewInv'
<1>1. /\ caretPos' = new /\ UNCHANGED <<dataSize, layout>>
      /\ view' = v \/ view' = ScrollOffsetH(view, new) \/ view' = view
  BY DEF Arrow
<1>2. /\ Seen(view) /\ view \in ViewRec /\ layout \in Layouts
      /\ layout.capacity \in Nat \ {0} /\ layout.group \in Nat \ {0}
      /\ Modulus \in Nat \ {0} /\ CharWidth \in Nat /\ ExtraWidth \in Nat \ {0} /\ Digits \in Nat
      /\ dataSize \in Nat /\ new \in Nat
  BY InvFacts, LayoutFacts, ViewAssumption
<1>3. SeenIn(ScrollOffsetH(view, new), view.win, view.max)
  <2> DEFINE x == HexChunkX(layout, view, new)
             beyond == IF x >= LastHexX(view) THEN x - LastHexX(view) + (HexByte \div 2)
                       ELSE IF x < 0 THEN x - (HexByte \div 2) ELSE 0
             to == (view.pos["H"] + beyond) % Modulus
  <2>1. view.pos["H"] \in Nat /\ view.client["H"] \in Nat /\ view.vis["H"] \in BOOLEAN
    BY <1>2, BarsAre DEF ViewRec
  <2>2. HexByte \in Nat /\ LastHexX(view) \in Int /\ HexByte \div 2 \in Int
    BY <1>2, <2>1 DEF HexByte, LastHexX
  <2>3. x \in Int
    <3> DEFINE mod == new % layout.capacity
               chunk == mod \div layout.group
    <3>1. mod \in Nat
      BY <1>2, ModFacts
    <3>2. chunk \in Nat
      <4> HIDE DEF mod
      <4> QED BY <1>2, <3>1, ModFacts
    <3>3. BetweenBlocks(layout) \in Nat
      BY <1>2 DEF BetweenBlocks
    <3>4. FirstHex \in Nat
      <4>1. (Digits + 2) * CharWidth \in Nat
        BY <1>2
      <4> QED BY <1>2, <4>1 DEF FirstHex, SecondLine
    <3> DEFINE gap == IF mod >= layout.capacity \div 2 THEN BetweenBlocks(layout) ELSE 0
    <3>5. gap \in Nat
      BY <3>3
    <3>6. x = FirstHex + gap + mod * HexByte + chunk * ExtraWidth - view.pos["H"]
      BY DEF HexChunkX
    <3> HIDE DEF mod, chunk, gap, x
    <3>7. mod * HexByte \in Nat /\ chunk * ExtraWidth \in Nat
      BY <1>2, <2>2, <3>1, <3>2
    <3> QED BY <2>1, <3>4, <3>5, <3>6, <3>7
  <2> HIDE DEF x
  <2>4. beyond \in Int
    BY <2>2, <2>3
  <2> HIDE DEF beyond
  <2>5. to \in Nat
    <3>1. view.pos["H"] + beyond \in Int
      BY <2>1, <2>4
    <3> QED BY <1>2, <3>1
  <2> HIDE DEF to
  <2>6. CASE view.vis["H"] = TRUE
    <3>1. ScrollOffsetH(view, new) = SetScrollPos(view, "H", to)
      BY <2>6 DEF ScrollOffsetH, to, beyond, x
    <3> QED BY <1>2, <2>5, <2>6, <3>1, BarsAre, SetPosSeenIn
  <2>7. CASE view.vis["H"] = FALSE
    <3>1. ScrollOffsetH(view, new) = view
      BY <2>7 DEF ScrollOffsetH
    <3> QED BY <1>2, <3>1 DEF SeenIn
  <2> QED BY <2>1, <2>6, <2>7
<1>4. SeenIn(view', view.win, view.max)
  BY <1>1, <1>2, <1>3 DEF SeenIn
<1>5. caretPos' \in 0..dataSize - 1
  BY <1>1
<1> QED BY <1>1, <1>4, <1>5, SeenStep

\* The four arrow keys.
LEMMA MoveSteps ==
  ASSUME ViewInv,
         \/ CaretMoveDown \/ CaretMoveUp
         \/ \E digit \in BOOLEAN, textArea \in BOOLEAN :
              CaretMoveLeft(digit, textArea) \/ CaretMoveRight(digit, textArea)
  PROVE  ViewInv'
<1>1. /\ Seen(view) /\ layout.cy \in Nat /\ layout.capacity \in Nat \ {0} /\ dataSize \in Nat
      /\ (dataSize > 0 => caretPos \in 0..dataSize - 1)
  BY InvFacts
<1>2. SeenIn(LineUp, view.win, view.max) /\ SeenIn(LineDown, view.win, view.max)
  BY <1>1, BarsAre, ScrollSeen DEF LineUp, LineDown
<1>3. CASE CaretMoveDown
  <2> DEFINE new == IF caretPos + layout.capacity >= dataSize THEN caretPos
                    ELSE caretPos + layout.capacity
  <2>1. dataSize > 0 /\ Arrow(new, LineDown, FALSE)
    BY <1>3 DEF CaretMoveDown
  <2>2. new \in 0..dataSize - 1
    BY <1>1, <2>1
  <2> HIDE DEF new
  <2> QED BY <1>2, <2>1, <2>2, ArrowStep
<1>4. CASE CaretMoveUp
  <2> DEFINE new == IF caretPos >= layout.capacity THEN caretPos - layout.capacity
                    ELSE caretPos
  <2>1. dataSize > 0 /\ Arrow(new, LineUp, FALSE)
    BY <1>4 DEF CaretMoveUp
  <2>2. new \in 0..dataSize - 1
    BY <1>1, <2>1
  <2> HIDE DEF new
  <2> QED BY <1>2, <2>1, <2>2, ArrowStep
<1>5. ASSUME NEW digit \in BOOLEAN, NEW textArea \in BOOLEAN, CaretMoveLeft(digit, textArea)
      PROVE  ViewInv'
  <2> DEFINE new == IF digit THEN caretPos ELSE caretPos - 1
             horz == ~textArea
  <2>1. dataSize > 0 /\ (caretPos > 0 \/ digit) /\ Arrow(new, LineUp, horz)
    BY <1>5 DEF CaretMoveLeft
  <2>2. new \in 0..dataSize - 1
    BY <1>1, <2>1
  <2>3. horz \in BOOLEAN
    OBVIOUS
  <2> HIDE DEF new, horz
  <2> QED BY <1>2, <2>1, <2>2, <2>3, ArrowStep
<1>6. ASSUME NEW digit \in BOOLEAN, NEW textArea \in BOOLEAN, CaretMoveRight(digit, textArea)
      PROVE  ViewInv'
  <2> DEFINE new == IF digit THEN caretPos ELSE Least(caretPos + 1, dataSize - 1)
             horz == ~textArea
  <2>1. dataSize > 0 /\ Arrow(new, LineDown, horz)
    BY <1>6 DEF CaretMoveRight
  <2>2. new \in 0..dataSize - 1
    BY <1>1, <2>1 DEF Least
  <2>3. horz \in BOOLEAN
    OBVIOUS
  <2> HIDE DEF new, horz
  <2> QED BY <1>2, <2>1, <2>2, <2>3, ArrowStep
<1> QED BY <1>3, <1>4, <1>5, <1>6

-----------------------------------------------------------------------------
(* The theorems                                                            *)

\* A new control's view.
LEMMA ViewInit ==
  ASSUME Init
  PROVE  ViewInv
<1>1. PICK c \in Capacities, g \in Groups, cy \in Fonts, w \in Widths, h \in Heights :
        LET new == [pos |-> [b \in Bars |-> 0], max |-> [b \in Bars |-> 0],
                    vis |-> [b \in Bars |-> FALSE],
                    win |-> [H |-> w, V |-> h], client |-> [H |-> w, V |-> h]]
            l == [capacity |-> c, group |-> g, cy |-> cy, infoBar |-> TRUE]
        IN  /\ layout = l
            /\ dataSize = 0
            /\ caretPos = 0
            /\ view = SetScrollSizes(SetScrollSizes(new, "V", MaxV(l, 0)), "H", MaxH(l))
  BY DEF Init
<1> DEFINE new == [pos |-> [b \in Bars |-> 0], max |-> [b \in Bars |-> 0],
                   vis |-> [b \in Bars |-> FALSE],
                   win |-> [H |-> w, V |-> h], client |-> [H |-> w, V |-> h]]
           tall == SetScrollSizes(new, "V", MaxV(layout, 0))
<1>2. layout \in Layouts
  BY <1>1 DEF Layouts
<1>3. [H |-> w, V |-> h] \in Windows /\ [H |-> w, V |-> h] \in [Bars -> Nat]
  BY RoomForBars DEF Windows, Bars
<1>4. new \in ViewRec
  BY <1>3 DEF ViewRec
<1>5. MaxV(layout, 0) \in Nat /\ MaxH(layout) \in Nat
  BY <1>2, LimitFacts
<1>6. view = SetScrollSizes(tall, "H", MaxH(layout))
  BY <1>1
<1> HIDE DEF new
<1>7. tall \in ViewRec
  BY <1>4, <1>5, BarsAre, SetSizesFacts DEF Seen
<1> HIDE DEF tall
<1>8. Seen(view) /\ view.max = [tall.max EXCEPT !["H"] = MaxH(layout)]
  BY <1>5, <1>6, <1>7, BarsAre, SetSizesFacts
<1>9. view.max["H"] = MaxH(layout)
  BY <1>7, <1>8, BarsAre DEF ViewRec
<1>10. dataSize \in Sizes \cup {0} /\ caretPos \in 0..Greatest(dataSize - 1, 0)
  BY <1>1 DEF Greatest
<1> QED BY <1>1, <1>2, <1>8, <1>9, <1>10 DEF ViewInv

\* Every step keeps the view in the data.
LEMMA ViewStep ==
  ASSUME ViewInv, [Next]_vars
  PROVE  ViewInv'
<1>1. CASE ClientNext
  BY <1>1, DataSteps, LayoutSteps, FrameSteps DEF ClientNext
<1>2. CASE BarNext
  <2>1. PICK b \in Bars :
          \/ ScrollLine(b) \/ ScrollPage(b)
          \/ \E thumb \in -1..(Channel(view, b) + 1) : DragThumb(b, thumb)
    BY <1>2 DEF BarNext
  <2> QED BY <2>1, ScrollSteps, DragStep
<1>3. CASE CaretNext
  BY <1>3, JumpSteps, MoveSteps DEF CaretNext
<1>4. CASE CaretMoveDown \/ CaretMoveUp
  BY <1>4, MoveSteps
<1>5. CASE UNCHANGED vars
  BY <1>5 DEF ViewInv, vars
<1> QED BY <1>1, <1>2, <1>3, <1>4, <1>5 DEF Next

\* It is an invariant.
LEMMA ViewCorrect == Spec => []ViewInv
<1>1. ViewInv /\ [Next]_vars => ViewInv'
  BY ViewStep
<1> QED BY <1>1, ViewInit, PTL DEF Spec

\* However windows, fonts, layouts, data and scroll bars change, the view stays
\* inside the data but for the room of one bar, and a bar is hidden only where
\* everything fits.
THEOREM ViewStaysInData == Spec => []ViewInData
<1>1. ASSUME ViewInv PROVE ViewInData
  <2>1. /\ Seen(view) /\ view \in ViewRec /\ layout \in Layouts
    BY <1>1, InvFacts
  <2>2. TypeOK
    BY <1>1, <2>1 DEF TypeOK, ViewInv, ViewRec, Layouts
  <2>3. NeverBeyondEnd
    BY <2>1 DEF NeverBeyondEnd, Seen, Within
  <2>4. HiddenBarsFit
    <3>1. ASSUME NEW b \in Bars, ~view.vis[b]
          PROVE  view.max[b] <= view.client[b] + (IF b = "H" THEN BarSize ELSE 0) /\ view.pos[b] = 0
      <4>1. view.vis[b] = FALSE
        BY <2>1, <3>1 DEF ViewRec
      <4> QED BY <2>1, <4>1 DEF Seen, Fits
    <3> QED BY <3>1 DEF HiddenBarsFit
  <2> QED BY <2>2, <2>3, <2>4 DEF ViewInData
<1> QED BY <1>1, ViewCorrect, PTL

\* Wherever the mouse drags the thumb inside its channel, rounding to a position
\* and back draws the thumb under the mouse again.
THEOREM ThumbStaysUnderMouse == Spec => []ThumbFollowsMouse
<1>1. ASSUME ViewInv PROVE ThumbFollowsMouse
  <2>1. view \in ViewRec
    BY <1>1, InvFacts
  <2>2. SUFFICES ASSUME NEW b \in Bars, CanScroll(view, b), NEW thumb \in 0..ThumbRoom(view, b)
                 PROVE  ThumbPos(SetThumbPos(view, b, thumb), b)
                          \in {thumb} \cup (IF thumb = 1 THEN {0} ELSE {})
    BY DEF ThumbFollowsMouse
  <2>3. CASE thumb = ThumbPos(view, b)
    BY <2>3 DEF SetThumbPos
  <2>4. CASE thumb # ThumbPos(view, b)
    <3> DEFINE R == ThumbRoom(view, b)
               M == MaxPos(view, b)
               p == Round(thumb * M, R)
               w == SetScrollPos(view, b, p)
    <3>1. R \in Nat \ {0} /\ M \in Nat \ {0} /\ R <= M
      BY <2>1, <2>2, ThumbFacts
    <3>2. SetThumbPos(view, b, thumb) = w
      <4>1. Least(thumb, R) = thumb /\ ~(thumb < 0)
        BY <3>1 DEF Least
      <4> QED BY <2>4, <4>1 DEF SetThumbPos
    <3>3. p \in Nat /\ p <= M /\ Round(p * R, M) = thumb /\ (p * R < M => thumb \in {0, 1})
      <4>1. thumb \in 0..R
        OBVIOUS
      <4> HIDE DEF R, M
      <4> QED BY <3>1, <4>1, RatioFacts
    <3> HIDE DEF p
    <3>4. w.pos[b] = p /\ w.max = view.max /\ w.client = view.client
      BY <2>1, <3>3, SetPosFacts
    <3> HIDE DEF w
    <3>5. MaxPos(w, b) = M /\ ThumbRoom(w, b) = R
      BY <3>4 DEF MaxPos, ThumbRoom, ThumbSize, Channel
    <3>6. ThumbPos(w, b) = IF p * R < M THEN 0 ELSE Round(p * R, M)
      BY <3>4, <3>5 DEF ThumbPos
    <3> HIDE DEF R, M
    <3> QED BY <3>2, <3>3, <3>6
  <2> QED BY <2>3, <2>4
<1> QED BY <1>1, ViewCorrect, PTL

-----------------------------------------------------------------------------
(* The lines in sight                                                      *)

\* The whole lines the window has room for, fewer than none in a low window,
\* and those under the one on top.
Shown(l, v) == WorkHeight(l, v) \div l.cy
Under(l, v) == IF Shown(l, v) > 0 THEN Shown(l, v) - 1 ELSE 0

\* They are the lines that fit.
LEMMA ShownFacts ==
  ASSUME NEW l \in Layouts, NEW v \in ViewRec
  PROVE  /\ Shown(l, v) \in Int /\ Under(l, v) \in Nat /\ Room(l, v) \in Int
         /\ WorkHeight(l, v) = l.cy * Shown(l, v)
         /\ l.cy * Shown(l, v) <= Room(l, v) /\ Room(l, v) < l.cy * Shown(l, v) + l.cy
<1> DEFINE room == Room(l, v)
           cy == l.cy
           n == room \div cy
           work == WorkHeight(l, v)
           shown == work \div cy
<1>1. room \in Int /\ cy \in Nat \ {0}
  <2>1. v.client["V"] \in Int
    BY BarsAre DEF ViewRec
  <2>2. StartY(l) \in Nat /\ BottomOff(l) \in Nat
    <3>1. 0 \in Nat
      OBVIOUS
    <3> QED BY <3>1, LimitFacts
  <2> QED BY <2>1, <2>2, LayoutFacts DEF Room
<1>2. work = room - (room % cy)
  BY DEF WorkHeight
<1> HIDE DEF room, cy, work
<1>3. n \in Int /\ cy * n <= room /\ room < cy * n + cy /\ room % cy = room - cy * n
  BY <1>1, QuotientBounds
<1> HIDE DEF n
<1>4. work = cy * n /\ work \in Int
  BY <1>1, <1>2, <1>3
<1>5. shown \in Int /\ n <= shown
  <2>1. shown \in Int
    BY <1>1, <1>4, QuotientBounds
  <2>2. cy * n <= work
    BY <1>1, <1>3, <1>4
  <2> QED BY <1>1, <1>3, <1>4, <2>1, <2>2, QuotientAtLeast
<1>6. shown <= n
  <2>1. cy * shown <= work
    BY <1>1, <1>4, QuotientBounds
  <2>2. cy * shown <= room
    <3>1. cy * shown \in Int /\ cy * n \in Int
      BY <1>1, <1>3, <1>5
    <3> QED BY <1>1, <1>3, <1>4, <2>1, <3>1
  <2> HIDE DEF shown
  <2>3. shown <= room \div cy
    BY <1>1, <1>5, <2>2, QuotientAtLeast
  <2> QED BY <2>3 DEF n
<1>7. shown = n
  BY <1>3, <1>5, <1>6
<1>8. Shown(l, v) = n
  BY <1>7 DEF Shown, work, cy
<1>9. Under(l, v) \in Nat
  BY <1>3, <1>8 DEF Under
<1> QED BY <1>1, <1>3, <1>4, <1>8, <1>9 DEF room, cy, work

\* The data's lines, and the one an offset is in.
LEMMA LineFacts ==
  ASSUME NEW l \in Layouts, NEW size \in Nat \ {0}, NEW o \in 0..size - 1
  PROVE  /\ Lines(l, size) \in Nat \ {0}
         /\ o \div l.capacity \in Nat /\ o \div l.capacity <= Lines(l, size) - 1
         /\ Lines(l, size) - 1 = size \div l.capacity - (IF size % l.capacity = 0 THEN 1 ELSE 0)
         /\ size \div l.capacity \in Nat
<1> DEFINE c == l.capacity
           k == o \div c
           total == size \div c
<1>1. c \in Nat \ {0} /\ o \in Nat /\ o <= size - 1
  BY LayoutFacts
<1> HIDE DEF c
<1>2. k \in Nat /\ total \in Nat /\ k <= total
  BY <1>1, QuotientSteps
<1>3. c * k <= o /\ size % c = size - c * total
  BY <1>1, QuotientBounds
<1>4. size % c = 0 => k # total
  <2> HIDE DEF k, total
  <2>1. ASSUME size % c = 0, k = total PROVE FALSE
    <3>1. c * total = size
      <4>1. c * total \in Nat
        BY <1>1, <1>2
      <4> QED BY <1>3, <2>1, <4>1
    <3> QED BY <1>1, <1>3, <2>1, <3>1
  <2> QED BY <2>1
<1>5. Lines(l, size) = total + (IF size % c = 0 THEN 0 ELSE 1)
  BY DEF Lines, c
<1> HIDE DEF k, total
<1>6. Lines(l, size) \in Nat /\ k <= Lines(l, size) - 1
  BY <1>2, <1>4, <1>5
<1>7. Lines(l, size) - 1 = total - (IF size % c = 0 THEN 1 ELSE 0)
  BY <1>2, <1>5
<1> QED BY <1>2, <1>6, <1>7 DEF k, total, c

\* An offset is in sight vertically where its line is one on top or under it.
LEMMA InSightIff ==
  ASSUME NEW l \in Layouts, NEW v \in ViewRec, NEW size \in Nat \ {0}, NEW o \in 0..size - 1
  PROVE  VertVisible(l, v, size, o)
           <=> TopLine(l, v) <= o \div l.capacity /\ o \div l.capacity <= TopLine(l, v) + Under(l, v)
<1> DEFINE c == l.capacity
           k == o \div c
           total == size \div c
           top == TopLine(l, v)
           end == top + Under(l, v)
           last == Lines(l, size) - 1
           bottom == BottomLine(l, v, size)
<1>1. c \in Nat \ {0} /\ o \in Nat /\ top \in Nat /\ Under(l, v) \in Nat
  BY LayoutFacts, TopLineFacts, ShownFacts
<1>2. /\ k \in Nat /\ k <= last /\ last \in Nat /\ total \in Nat
      /\ last = total - (IF size % c = 0 THEN 1 ELSE 0)
  BY LineFacts
<1>3. bottom = IF end >= total THEN last ELSE end
  BY <1>2 DEF BottomLine, Under, Shown
<1>4. VertVisible(l, v, size, o) <=> o >= top * c /\ o < bottom * c + c
  BY DEF VertVisible
<1> HIDE DEF bottom, last, total, top, c
<1>5. end \in Nat
  BY <1>1
<1> HIDE DEF end
<1>6. bottom \in Nat /\ (k <= bottom <=> k <= end)
  BY <1>2, <1>3, <1>5
<1>7. o >= top * c <=> top <= k
  <2>1. c * top = top * c
    BY <1>1
  <2> QED BY <1>1, <2>1, QuotientAtLeast
<1>8. o < bottom * c + c <=> k <= bottom
  <2>1. bottom + 1 <= k <=> c * (bottom + 1) <= o
    BY <1>1, <1>6, QuotientAtLeast
  <2>2. c * (bottom + 1) = bottom * c + c /\ bottom * c \in Nat
    BY <1>1, <1>6
  <2> HIDE DEF k
  <2> QED BY <1>1, <1>2, <1>6, <2>1, <2>2
<1> QED BY <1>4, <1>6, <1>7, <1>8 DEF top, end, c

\* Scrolled to the end, or beyond, no line is left out under the last shown.
LEMMA LinesAtEnd ==
  ASSUME NEW l \in Layouts, NEW v \in ViewRec, NEW size \in Nat \ {0},
         v.max["V"] = MaxV(l, size)
  PROVE  /\ MaxPos(v, "V") \div l.cy \in Nat
         /\ Lines(l, size) <= MaxPos(v, "V") \div l.cy + Shown(l, v)
<1> DEFINE cy == l.cy
           n == Shown(l, v)
           lines == Lines(l, size)
           end == MaxPos(v, "V")
<1>1. cy \in Nat \ {0} /\ v.client["V"] \in Nat /\ end \in Nat
  BY LayoutFacts, BarsAre, MaxPosFacts DEF ViewRec
<1>2. lines \in Nat
  <2>1. 0 \in 0..size - 1
    OBVIOUS
  <2> QED BY <2>1, LineFacts
<1>3. n \in Int /\ Room(l, v) \in Int /\ Room(l, v) < cy * n + cy
  BY ShownFacts
<1>4. StartY(l) \in Nat /\ BottomOff(l) \in Nat
  BY LimitFacts
<1>5. /\ v.max["V"] = StartY(l) + BottomOff(l) + cy * (lines + 1)
      /\ Room(l, v) = v.client["V"] - StartY(l) - BottomOff(l)
  BY DEF MaxV, Room
<1>6. end = IF v.client["V"] > v.max["V"] THEN 0 ELSE v.max["V"] - v.client["V"]
  BY DEF MaxPos
<1> HIDE DEF cy, n, lines, end
<1>7. cy * (lines + 1) = cy * lines + cy /\ cy * lines \in Nat /\ cy * n \in Int
  BY <1>1, <1>2, <1>3
<1>8. end >= cy * (lines + 1) - Room(l, v)
  <2>1. v.max["V"] - v.client["V"] = cy * (lines + 1) - Room(l, v)
    BY <1>1, <1>3, <1>4, <1>5, <1>7
  <2>2. end >= v.max["V"] - v.client["V"]
    BY <1>1, <1>4, <1>5, <1>6, <1>7
  <2> QED BY <2>1, <2>2
<1>9. cy * (lines - n) <= end
  <2>1. cy * (lines - n) = cy * lines - cy * n
    BY <1>1, <1>2, <1>3
  <2> QED BY <1>1, <1>3, <1>7, <1>8, <2>1
<1>10. lines - n <= end \div cy
  <2>1. lines - n \in Int
    BY <1>2, <1>3
  <2> QED BY <1>1, <1>9, <2>1, QuotientAtLeast
<1>11. end \div cy \in Nat
  BY <1>1, ModFacts
<1>12. lines <= end \div cy + n
  <2> DEFINE q == end \div cy
  <2> HIDE DEF q
  <2>1. lines - n <= q /\ q \in Nat
    BY <1>10, <1>11 DEF q
  <2>2. lines <= q + n
    BY <1>2, <1>3, <2>1
  <2> QED BY <2>2 DEF q
<1> QED BY <1>11, <1>12 DEF cy, n, lines, end

\* What is in sight depends on the position and the client area only.
LEMMA SameLines ==
  ASSUME NEW l, NEW v, NEW w, NEW size, NEW o, w.pos["V"] = v.pos["V"], w.client = v.client
  PROVE  /\ TopLine(l, w) = TopLine(l, v)
         /\ VertVisible(l, w, size, o) <=> VertVisible(l, v, size, o)
<1>1. TopLine(l, w) = TopLine(l, v)
  BY DEF TopLine
<1>2. WorkHeight(l, w) = WorkHeight(l, v)
  BY DEF WorkHeight, Room
<1>3. BottomLine(l, w, size) = BottomLine(l, v, size)
  BY <1>1, <1>2 DEF BottomLine
<1> QED BY <1>1, <1>3 DEF VertVisible

\* Where SetScrollPos ends.
LEMMA SetPosIs ==
  ASSUME NEW v \in ViewRec, NEW b \in Bars, NEW new \in Nat
  PROVE  LET w == SetScrollPos(v, b, new)
         IN  w.pos[b] = new \/ (w.pos[b] = MaxPos(v, b) /\ MaxPos(v, b) < new)
<1> DEFINE at == IF v.pos[b] = new THEN v.pos[b] ELSE Least(new, MaxPos(v, b))
<1>1. MaxPos(v, b) \in Nat
  BY MaxPosFacts
<1>2. at = new \/ (at = MaxPos(v, b) /\ MaxPos(v, b) < new)
  BY <1>1 DEF Least
<1>3. SetScrollPos(v, b, new).pos[b] = at
  <2>1. SetScrollPos(v, b, new) = [v EXCEPT !.pos[b] = at]
    BY DEF SetScrollPos, ViewRec
  <2> HIDE DEF at
  <2> QED BY <2>1 DEF ViewRec
<1> HIDE DEF at
<1> QED BY <1>2, <1>3

\* Scrolling to where a line would be in sight puts it in sight, also where the
\* data ends before.
LEMMA ScrolledInSight ==
  ASSUME NEW l \in Layouts, NEW v \in ViewRec, NEW size \in Nat \ {0}, NEW o \in 0..size - 1,
         v.max["V"] = MaxV(l, size), NEW new \in Nat,
         new \div l.cy <= o \div l.capacity,
         o \div l.capacity <= new \div l.cy + Under(l, v)
  PROVE  VertVisible(l, SetScrollPos(v, "V", new), size, o)
<1> DEFINE w == SetScrollPos(v, "V", new)
           cy == l.cy
           k == o \div l.capacity
           end == MaxPos(v, "V")
           n == Shown(l, v)
           lines == Lines(l, size)
<1>1. cy \in Nat \ {0} /\ end \in Nat
  BY LayoutFacts, BarsAre, MaxPosFacts
<1>2. w \in ViewRec /\ w.client = v.client
  BY BarsAre, SetPosFacts
<1>3. w.pos["V"] = new \/ (w.pos["V"] = end /\ end < new)
  BY BarsAre, SetPosIs
<1> HIDE DEF w
<1>4. Shown(l, w) = n /\ Under(l, w) = Under(l, v)
  BY <1>2 DEF Shown, Under, WorkHeight, Room
<1>5. n \in Int /\ Under(l, v) = IF n > 0 THEN n - 1 ELSE 0
  BY ShownFacts DEF Under
<1>6. k \in Nat /\ lines \in Nat /\ k <= lines - 1
  BY LineFacts
<1>7. end \div cy \in Nat /\ lines <= end \div cy + n
  BY LinesAtEnd
<1>8. TopLine(l, w) = w.pos["V"] \div cy
  BY DEF TopLine
<1> HIDE DEF k, end, n, lines
<1>9. TopLine(l, w) <= k /\ k <= TopLine(l, w) + Under(l, w)
  <2>1. CASE w.pos["V"] = new
    BY <1>4, <1>8, <2>1 DEF k, cy
  <2>2. CASE w.pos["V"] = end /\ end < new
    <3> DEFINE t == end \div cy
               s == new \div cy
    <3>1. t \in Nat /\ s \in Nat /\ t <= s /\ s <= k
      <4>1. s <= k
        BY DEF k, cy
      <4> QED BY <1>1, <2>2, <4>1, QuotientSteps
    <3>2. lines <= t + n
      BY <1>7
    <3> HIDE DEF t, s
    <3>3. t <= k /\ k <= t + Under(l, v)
      BY <1>5, <1>6, <3>1, <3>2
    <3> QED BY <1>4, <1>8, <2>2, <3>3 DEF t
  <2> QED BY <1>3, <2>1, <2>2
<1>10. VertVisible(l, w, size, o)
  BY <1>2, <1>9, InSightIff DEF k
<1> QED BY <1>10 DEF w

\* An arrow to the line under, or over, with the caret in sight.
LEMMA ArrowInSight ==
  ASSUME ViewInv, dataSize > 0, VertVisible(layout, view, dataSize, caretPos),
         NEW new \in 0..dataSize - 1, NEW v, NEW horz \in BOOLEAN, Arrow(new, v, horz),
         \/ v = LineDown /\ caretPos <= new /\ new <= caretPos + layout.capacity
         \/ v = LineUp /\ new <= caretPos /\ caretPos <= new + layout.capacity
  PROVE  VertVisible(layout, view', dataSize, new)
<1> DEFINE c == layout.capacity
           cy == layout.cy
           old == caretPos \div c
           k == new \div c
           p == view.pos["V"]
           top == TopLine(layout, view)
           under == Under(layout, view)
<1>1. /\ view \in ViewRec /\ layout \in Layouts /\ c \in Nat \ {0} /\ cy \in Nat \ {0}
      /\ dataSize \in Nat \ {0} /\ caretPos \in 0..dataSize - 1 /\ caretPos \in Nat /\ new \in Nat
      /\ view.max["V"] = MaxV(layout, dataSize)
  BY InvFacts DEF ViewInv
<1>2. p \in Nat /\ top \in Nat /\ under \in Nat /\ top = p \div cy
  BY <1>1, BarsAre, TopLineFacts, ShownFacts DEF ViewRec, TopLine
<1>3. top <= old /\ old <= top + under
  BY <1>1, InSightIff
<1>4. VertVisible(layout, view, dataSize, new) <=> top <= k /\ k <= top + under
  BY <1>1, InSightIff
<1>5. CASE ~LeavesLines(new)
  <2>1. view' = view \/ view' = ScrollOffsetH(view, new)
    BY <1>5 DEF Arrow
  <2>2. view'.pos["V"] = view.pos["V"] /\ view'.client = view.client
    <3>1. CASE view' = view
      BY <3>1
    <3>2. CASE view' = ScrollOffsetH(view, new)
      BY <1>1, <3>2 DEF ScrollOffsetH, SetScrollPos, ViewRec, Bars
    <3> QED BY <2>1, <3>1, <3>2
  <2>3. VertVisible(layout, view, dataSize, new)
    BY <1>5 DEF LeavesLines
  <2> QED BY <2>2, <2>3, SameLines
<1>6. CASE LeavesLines(new)
  <2>1. view' = v /\ ~(top <= k /\ k <= top + under)
    BY <1>4, <1>6 DEF Arrow, LeavesLines
  <2>2. CASE v = LineDown /\ caretPos <= new /\ new <= caretPos + c
    <3>1. old \in Nat /\ k \in Nat /\ old <= k /\ k <= old + 1
      BY <1>1, <2>2, QuotientSteps
    <3>2. v = SetScrollPos(view, "V", p + cy)
      BY <2>2 DEF LineDown, ScrollOn
    <3>3. p + cy \in Nat /\ (p + cy) \div cy = top + 1
      <4>1. p % cy \in 0..cy - 1 /\ p = cy * top + (p % cy)
        BY <1>1, <1>2, ModFacts, DivMod
      <4>2. p + cy = cy * (top + 1) + (p % cy)
        <5> HIDE DEF p, top, cy
        <5>1. cy * (top + 1) = cy * top + cy /\ cy * top \in Nat
          BY <1>1, <1>2
        <5> QED BY <1>1, <1>2, <4>1, <5>1
      <4> HIDE DEF p, top, cy
      <4>3. p + cy \in Nat /\ top + 1 \in Nat
        BY <1>1, <1>2
      <4> DEFINE next == p + cy
                 q == top + 1
                 rest == p % cy
      <4>4. next \in Nat /\ q \in Nat /\ rest \in 0..cy - 1 /\ next = cy * q + rest
        BY <4>1, <4>2, <4>3
      <4> HIDE DEF next, q, rest
      <4>5. next \div cy = q
        BY <1>1, <4>4, QuotientIs
      <4> QED BY <4>3, <4>5 DEF next, q
    <3> HIDE DEF p, old, k, top, under
    <3>4. top + 1 <= k /\ k <= top + 1 + under
      BY <1>2, <1>3, <2>1, <3>1
    <3>5. VertVisible(layout, SetScrollPos(view, "V", p + cy), dataSize, new)
      BY <1>1, <3>3, <3>4, ScrolledInSight DEF k, under
    <3> QED BY <2>1, <3>2, <3>5
  <2>3. CASE v = LineUp /\ new <= caretPos /\ caretPos <= new + c
    <3>1. old \in Nat /\ k \in Nat /\ k <= old /\ old <= k + 1
      BY <1>1, <2>3, QuotientSteps
    <3>2. top = k + 1
      <4> HIDE DEF top, old, k, under
      <4> QED BY <1>2, <1>3, <2>1, <3>1
    <3>3. p - cy \in Nat /\ (p - cy) \div cy = k
      <4>1. p % cy \in 0..cy - 1 /\ p = cy * top + (p % cy)
        BY <1>1, <1>2, ModFacts, DivMod
      <4>2. p - cy = cy * k + (p % cy) /\ p - cy \in Nat
        <5> HIDE DEF p, top, cy, k
        <5>1. cy * top = cy * k + cy /\ cy * k \in Nat
          BY <1>1, <3>1, <3>2
        <5> QED BY <1>1, <1>2, <4>1, <5>1
      <4> HIDE DEF k
      <4> QED BY <1>1, <3>1, <4>1, <4>2, QuotientIs
    <3>4. v = SetScrollPos(view, "V", p - cy)
      BY <1>1, <1>2, <2>3, <3>3 DEF LineUp, ScrollBack
    <3> HIDE DEF p, old, top, under
    <3>5. k <= k + under
      BY <1>2, <3>1
    <3>6. VertVisible(layout, SetScrollPos(view, "V", p - cy), dataSize, new)
      BY <1>1, <3>1, <3>3, <3>5, ScrolledInSight DEF under
    <3> QED BY <2>1, <3>4, <3>6
  <2> QED BY <2>2, <2>3
<1> QED BY <1>5, <1>6

\* In every window, however low, an arrow key that moves a caret in sight takes
\* the lines along.
THEOREM ArrowsAlwaysKeepCaret == Spec => ArrowsKeepCaretVisible
<1> DEFINE Moves == \/ CaretMoveDown \/ CaretMoveUp
                    \/ \E d \in BOOLEAN, t \in BOOLEAN : CaretMoveLeft(d, t) \/ CaretMoveRight(d, t)
<1>1. ASSUME ViewInv, VertVisible(layout, view, dataSize, caretPos), dataSize > 0, Moves
      PROVE  VertVisible(layout', view', dataSize', caretPos')
  <2>1. /\ layout.capacity \in Nat \ {0} /\ dataSize \in Nat
        /\ caretPos \in 0..dataSize - 1 /\ caretPos \in Nat
    BY <1>1, InvFacts
  <2>2. ASSUME NEW new \in 0..dataSize - 1, NEW v, NEW horz \in BOOLEAN, Arrow(new, v, horz),
               \/ v = LineDown /\ caretPos <= new /\ new <= caretPos + layout.capacity
               \/ v = LineUp /\ new <= caretPos /\ caretPos <= new + layout.capacity
        PROVE  VertVisible(layout', view', dataSize', caretPos')
    <3>1. VertVisible(layout, view', dataSize, new)
      BY <1>1, <2>2, ArrowInSight
    <3>2. caretPos' = new /\ layout' = layout /\ dataSize' = dataSize
      BY <2>2 DEF Arrow
    <3> QED BY <3>1, <3>2
  <2>3. CASE CaretMoveDown
    <3> DEFINE new == IF caretPos + layout.capacity >= dataSize THEN caretPos
                      ELSE caretPos + layout.capacity
    <3>1. Arrow(new, LineDown, FALSE)
      BY <2>3 DEF CaretMoveDown
    <3>2. new \in 0..dataSize - 1 /\ caretPos <= new /\ new <= caretPos + layout.capacity
      BY <2>1
    <3> HIDE DEF new
    <3> QED BY <2>2, <3>1, <3>2
  <2>4. CASE CaretMoveUp
    <3> DEFINE new == IF caretPos >= layout.capacity THEN caretPos - layout.capacity
                      ELSE caretPos
    <3>1. Arrow(new, LineUp, FALSE)
      BY <2>4 DEF CaretMoveUp
    <3>2. new \in 0..dataSize - 1 /\ new <= caretPos /\ caretPos <= new + layout.capacity
      BY <2>1
    <3> HIDE DEF new
    <3> QED BY <2>2, <3>1, <3>2
  <2>5. ASSUME NEW d \in BOOLEAN, NEW t \in BOOLEAN, CaretMoveLeft(d, t)
        PROVE  VertVisible(layout', view', dataSize', caretPos')
    <3> DEFINE new == IF d THEN caretPos ELSE caretPos - 1
               horz == ~t
    <3>1. (caretPos > 0 \/ d) /\ Arrow(new, LineUp, horz)
      BY <2>5 DEF CaretMoveLeft
    <3>2. new \in 0..dataSize - 1 /\ new <= caretPos /\ caretPos <= new + layout.capacity
      BY <2>1, <3>1
    <3>3. horz \in BOOLEAN
      OBVIOUS
    <3> HIDE DEF new, horz
    <3> QED BY <2>2, <3>1, <3>2, <3>3
  <2>6. ASSUME NEW d \in BOOLEAN, NEW t \in BOOLEAN, CaretMoveRight(d, t)
        PROVE  VertVisible(layout', view', dataSize', caretPos')
    <3> DEFINE new == IF d THEN caretPos ELSE Least(caretPos + 1, dataSize - 1)
               horz == ~t
    <3>1. Arrow(new, LineDown, horz)
      BY <2>6 DEF CaretMoveRight
    <3>2. new \in 0..dataSize - 1 /\ caretPos <= new /\ new <= caretPos + layout.capacity
      BY <2>1 DEF Least
    <3>3. horz \in BOOLEAN
      OBVIOUS
    <3> HIDE DEF new, horz
    <3> QED BY <2>2, <3>1, <3>2, <3>3
  <2> QED BY <1>1, <2>3, <2>4, <2>5, <2>6
<1>2. ASSUME ViewInv, [Next]_vars
      PROVE  [VertVisible(layout, view, dataSize, caretPos) /\ dataSize > 0 /\ Moves
              => VertVisible(layout', view', dataSize', caretPos')]_vars
  BY <1>1, <1>2
<1> QED BY <1>2, ViewCorrect, PTL DEF Spec, ArrowsKeepCaretVisible

-----------------------------------------------------------------------------
(* An offset gone to                                                       *)

\* A window with room for them shows two lines or more, and one and a bar.
LEMMA RoomFacts ==
  ASSUME RoomForLines, NEW v, Seen(v), NEW l \in Layouts
  PROVE  Shown(l, v) >= 2 /\ Room(l, v) > l.cy + BarSize
<1> DEFINE h == v.win["V"]
           room == h - BarSize - Round(3 * l.cy, 2) - 1 - InfoHeight
<1>1. v \in ViewRec /\ h \in Heights /\ l.cy \in Fonts
  BY DEF Seen, ViewRec, Windows, Layouts
<1>2. room >= 2 * l.cy /\ room > l.cy + BarSize
  BY <1>1 DEF RoomForLines
<1>3. /\ l.cy \in Nat \ {0} /\ h \in Nat /\ BarSize \in Nat /\ InfoHeight \in Nat
      /\ v.client["V"] \in Nat
  BY <1>1, LayoutFacts, RoomForBars, ViewAssumption, BarsAre DEF ViewRec
<1>4. h <= v.client["V"] + BarSize
  BY BarsAre DEF Seen, Framed
<1>5. StartY(l) = Round(3 * l.cy, 2) /\ Round(3 * l.cy, 2) \in Nat
  BY <1>3, RoundFacts DEF StartY
<1>6. BottomOff(l) \in Nat /\ BottomOff(l) <= 1 + InfoHeight
  BY <1>3, LayoutFacts DEF BottomOff
<1>7. Room(l, v) = v.client["V"] - StartY(l) - BottomOff(l)
  BY DEF Room
<1>8. Room(l, v) \in Int /\ room <= Room(l, v) /\ room \in Int
  BY <1>3, <1>4, <1>5, <1>6, <1>7
<1> HIDE DEF room
<1>9. Room(l, v) >= 2 * l.cy /\ Room(l, v) > l.cy + BarSize
  BY <1>2, <1>3, <1>8
<1>10. Shown(l, v) \in Int /\ Room(l, v) < l.cy * Shown(l, v) + l.cy
  BY <1>1, ShownFacts
<1> DEFINE n == Shown(l, v)
<1>11. ASSUME ~(n >= 2) PROVE FALSE
  <2>1. l.cy * n <= l.cy
    <3> HIDE DEF n
    <3>1. PICK k \in Nat : n = 1 - k
      <4>1. 1 - n \in Nat /\ n = 1 - (1 - n)
        BY <1>10, <1>11 DEF n
      <4> QED BY <4>1
    <3>2. l.cy * n = l.cy - l.cy * k /\ l.cy * k \in Nat
      BY <1>3, <3>1
    <3> QED BY <1>3, <3>2
  <2>2. l.cy * n \in Int
    BY <1>3, <1>10
  <2> QED BY <1>3, <1>8, <1>9, <1>10, <2>1, <2>2
<1> QED BY <1>9, <1>11

\* The line on top is one of the data: no view is scrolled beyond it.
LEMMA TopInData ==
  ASSUME RoomForLines, ViewInv, dataSize > 0
  PROVE  TopLine(layout, view) \in Nat /\ TopLine(layout, view) <= Lines(layout, dataSize) - 1
<1> DEFINE cy == layout.cy
           p == view.pos["V"]
           lines == Lines(layout, dataSize)
           top == TopLine(layout, view)
<1>1. /\ Seen(view) /\ view \in ViewRec /\ layout \in Layouts /\ cy \in Nat \ {0}
      /\ dataSize \in Nat \ {0} /\ 0 \in 0..dataSize - 1
      /\ view.max["V"] = MaxV(layout, dataSize)
  BY InvFacts DEF ViewInv
<1>2. /\ p \in Nat /\ top = p \div cy /\ BarSize \in Nat
      /\ view.client["V"] \in Nat /\ view.vis["V"] \in BOOLEAN
  BY <1>1, BarsAre, ViewAssumption DEF ViewRec, TopLine
<1>3. Room(layout, view) > cy + BarSize /\ Room(layout, view) \in Int
  BY <1>1, RoomFacts, ShownFacts
<1>4. lines \in Nat \ {0}
  BY <1>1, LineFacts
<1>5. lines * cy \in Nat /\ cy * (lines + 1) = lines * cy + cy
  BY <1>1, <1>4
<1>6. p < lines * cy
  <2>1. CASE view.vis["V"] = TRUE
    <3>1. p + view.client["V"] <= MaxV(layout, dataSize) + BarSize
      BY <1>1, <2>1 DEF Seen, Framed
    <3>2. StartY(layout) \in Nat /\ BottomOff(layout) \in Nat
      BY <1>1, LimitFacts
    <3>3. MaxV(layout, dataSize) = StartY(layout) + BottomOff(layout) + cy * (lines + 1)
      BY DEF MaxV
    <3>4. Room(layout, view) = view.client["V"] - StartY(layout) - BottomOff(layout)
      BY DEF Room
    <3> DEFINE m == lines * cy
    <3>5. m \in Nat /\ MaxV(layout, dataSize) = StartY(layout) + BottomOff(layout) + (m + cy)
      BY <1>5, <3>3
    <3> HIDE DEF p, m, cy
    <3> QED BY <1>1, <1>2, <1>3, <3>1, <3>2, <3>4, <3>5 DEF m
  <2>2. CASE view.vis["V"] = FALSE
    <3>1. p = 0
      BY <1>1, <2>2, BarsAre DEF Seen, Fits
    <3>2. lines * cy > 0
      <4> HIDE DEF lines, cy
      <4> QED BY <1>1, <1>4
    <3> QED BY <3>1, <3>2
  <2> QED BY <1>2, <2>1, <2>2
<1> HIDE DEF p, lines, cy
<1>7. top \in Nat /\ top <= lines - 1
  <2>1. top \in Nat /\ cy * top <= p
    <3> DEFINE t == p \div cy
    <3>1. t \in Nat /\ cy * t <= p
      <4>1. p \in Int /\ p \in Nat /\ cy \in Nat \ {0}
        BY <1>1, <1>2
      <4> QED BY <4>1, ModFacts, QuotientBounds, Zenon
    <3> HIDE DEF t, top
    <3>2. top = t
      BY <1>2 DEF t
    <3> QED BY <3>1, <3>2
  <2>2. ASSUME lines <= top PROVE FALSE
    <3>1. cy * lines <= cy * top
      BY <1>1, <1>4, <2>1, <2>2, MulMono
    <3>2. cy * lines = lines * cy /\ cy * top \in Nat
      BY <1>1, <1>4, <2>1
    <3> QED BY <1>2, <1>5, <1>6, <2>1, <3>1, <3>2
  <2> QED BY <1>4, <2>1, <2>2
<1> QED BY <1>7 DEF top, lines

\* Scrolled to the end, the last line is in sight.
LEMMA EndInSight ==
  ASSUME RoomForLines, ViewInv, dataSize > 0, view.pos["V"] >= MaxPos(view, "V")
  PROVE  VertVisible(layout, view, dataSize, dataSize - 1)
<1> DEFINE cy == layout.cy
           p == view.pos["V"]
           end == MaxPos(view, "V")
           n == Shown(layout, view)
           lines == Lines(layout, dataSize)
           top == TopLine(layout, view)
           last == (dataSize - 1) \div layout.capacity
<1>1. /\ Seen(view) /\ view \in ViewRec /\ layout \in Layouts /\ cy \in Nat \ {0}
      /\ dataSize \in Nat \ {0} /\ dataSize - 1 \in 0..dataSize - 1
      /\ view.max["V"] = MaxV(layout, dataSize)
  BY InvFacts DEF ViewInv
<1>2. /\ p \in Nat /\ end \in Nat /\ top = p \div cy /\ BarSize \in Nat
      /\ view.client["V"] \in Nat /\ view.vis["V"] \in BOOLEAN
  BY <1>1, BarsAre, MaxPosFacts, ViewAssumption DEF ViewRec, TopLine
<1>3. n >= 2 /\ n \in Int /\ Room(layout, view) > cy + BarSize /\ Room(layout, view) \in Int
  BY <1>1, RoomFacts, ShownFacts
<1>4. end \div cy \in Nat /\ lines <= end \div cy + n
  BY <1>1, LinesAtEnd
<1>5. last \in Nat /\ lines \in Nat \ {0} /\ last <= lines - 1
  BY <1>1, LineFacts
<1>6. end \div cy <= top
  BY <1>1, <1>2, QuotientSteps
<1> HIDE DEF p, end, n, lines, last, cy
<1>7. top \in Nat /\ top <= lines - 1
  BY <1>1, TopInData DEF lines
<1>8. lines - 1 <= last
  <2>1. lines - 1 = dataSize \div layout.capacity
                      - (IF dataSize % layout.capacity = 0 THEN 1 ELSE 0)
    BY <1>1, LineFacts DEF lines
  <2> DEFINE c == layout.capacity
             q == dataSize \div c
  <2>2. c \in Nat \ {0} /\ q \in Nat
    BY <1>1, LayoutFacts, ModFacts
  <2>3. c * q <= dataSize /\ dataSize % c = dataSize - c * q /\ c * q \in Nat
    <3> HIDE DEF c
    <3>1. c * q <= dataSize /\ dataSize % c = dataSize - c * q
      <4>1. dataSize \in Int /\ c \in Nat \ {0}
        BY <1>1, <2>2
      <4> QED BY <4>1, QuotientBounds, Zenon
    <3> HIDE DEF q
    <3>2. c * q \in Nat
      BY <2>2
    <3> QED BY <3>1, <3>2
  <2>4. lines - 1 \in Nat
    BY <1>5
  <2>5. c * (lines - 1) <= dataSize - 1
    <3> HIDE DEF c, q
    <3>1. CASE dataSize % c = 0
      <4>1. c * (q - 1) = c * q - c
        BY <2>2
      <4>2. lines - 1 = q - 1
        BY <2>1, <3>1 DEF c, q
      <4> QED BY <1>1, <2>2, <2>3, <4>1, <4>2
    <3>2. CASE dataSize % c # 0
      <4>1. lines - 1 = q
        BY <2>1, <2>2, <3>2 DEF c, q
      <4>2. c * q # dataSize
        BY <1>1, <2>3, <3>2
      <4> QED BY <1>1, <2>3, <4>1, <4>2
    <3> QED BY <3>1, <3>2
  <2>6. dataSize - 1 \in Int /\ lines - 1 \in Int
    BY <1>1, <2>4
  <2> HIDE DEF c
  <2> QED BY <2>2, <2>5, <2>6, QuotientAtLeast DEF last, c
<1>9. top <= last /\ last <= top + Under(layout, view)
  <2>1. Under(layout, view) = n - 1
    BY <1>3 DEF Under, n
  <2> DEFINE t == end \div cy
  <2>2. t \in Nat /\ lines <= t + n /\ t <= top
    BY <1>4, <1>6
  <2> HIDE DEF t, top
  <2> QED BY <1>3, <1>5, <1>7, <1>8, <2>1, <2>2
<1> QED BY <1>1, <1>9, InSightIff DEF last

\* Where a line goes to: to the top, or so far that half of those in sight are
\* over it.
LEMMA TargetInSight ==
  ASSUME RoomForLines, ViewInv, NEW o \in 0..dataSize - 1, dataSize > 0, NEW iPosAt \in -1..0
  PROVE  LET k == o \div layout.capacity
             new == LineAtPos(layout, view, dataSize, k * layout.cy, iPosAt)
         IN  /\ new \in Nat
             /\ new \div layout.cy <= k /\ k <= new \div layout.cy + Under(layout, view)
<1> DEFINE cy == layout.cy
           k == o \div layout.capacity
           line == k * cy
           n == Shown(layout, view)
           half == WorkHeight(layout, view) \div 2
           new == LineAtPos(layout, view, dataSize, line, iPosAt)
           under == Under(layout, view)
<1>1. /\ Seen(view) /\ view \in ViewRec /\ layout \in Layouts /\ cy \in Nat \ {0}
      /\ dataSize \in Nat \ {0}
  BY InvFacts
<1>2. k \in Nat
  BY <1>1, LineFacts
<1>3. n \in Int /\ n >= 2 /\ WorkHeight(layout, view) = cy * n /\ under = n - 1
  BY <1>1, RoomFacts, ShownFacts DEF Under
<1>4. cy * n \in Nat /\ line \in Nat /\ line = cy * k
  BY <1>1, <1>2, <1>3
<1>5. half \in Nat /\ 2 * half <= cy * n /\ cy * n < 2 * half + 2
  <2>1. half \in Int /\ 2 * half <= cy * n /\ cy * n < 2 * half + 2
    <3> DEFINE work == cy * n
    <3>1. half = work \div 2
      BY <1>3
    <3> HIDE DEF work, half
    <3>2. work \in Int
      BY <1>4 DEF work
    <3> QED BY <3>1, <3>2, QuotientBounds DEF work
  <2> HIDE DEF half
  <2> QED BY <1>4, <2>1
<1>6. CASE iPosAt = -1
  <2>1. new = line
    BY <1>6 DEF LineAtPos
  <2> HIDE DEF line, new, cy, k, n, under
  <2>2. line \div cy = k
    <3>1. 0 \in 0..cy - 1 /\ line = cy * k + 0
      BY <1>1, <1>2, <1>4
    <3> QED BY <1>1, <1>2, <1>4, <3>1, QuotientIs
  <2>3. k <= k + under
    BY <1>2, <1>3
  <2>4. new \in Nat /\ new \div cy <= k /\ k <= new \div cy + under
    BY <1>2, <1>4, <2>1, <2>2, <2>3
  <2> QED BY <2>4 DEF new, line, cy, k, under
<1>7. CASE iPosAt = 0 /\ line > half
  <2> DEFINE above == line - half
             t == above \div cy
  <2>1. new = above - (above % cy)
    BY <1>7 DEF LineAtPos
  <2> HIDE DEF line, half, new, cy, k, n, under
  <2>2. above \in Nat
    BY <1>4, <1>5, <1>7
  <2> HIDE DEF above
  <2>3. t \in Nat /\ above = cy * t + (above % cy) /\ above % cy \in 0..cy - 1
    BY <1>1, <2>2, ModFacts, DivMod
  <2> HIDE DEF t
  <2>4. new = cy * t + 0 /\ new \in Nat /\ 0 \in 0..cy - 1
    <3> DEFINE rest == above % cy
               whole == cy * t
    <3>1. whole \in Nat /\ rest \in Nat /\ above = whole + rest /\ new = above - rest
      BY <1>1, <2>1, <2>3
    <3> HIDE DEF rest, whole
    <3>2. new = whole + 0 /\ new \in Nat
      BY <3>1
    <3>3. 0 \in 0..cy - 1
      BY <1>1
    <3> QED BY <3>2, <3>3 DEF whole
  <2>5. new \div cy = t
    BY <1>1, <2>3, <2>4, QuotientIs
  <2>6. t <= k
    <3>1. cy * t <= cy * k
      BY <1>1, <1>2, <1>4, <1>5, <2>3 DEF above
    <3>2. ASSUME k + 1 <= t PROVE FALSE
      <4>1. cy * (k + 1) <= cy * t
        BY <1>1, <1>2, <2>3, <3>2, MulMono
      <4>2. cy * (k + 1) = cy * k + cy
        BY <1>1, <1>2
      <4> QED BY <1>1, <1>4, <2>3, <3>1, <4>1, <4>2
    <3> QED BY <1>2, <2>3, <3>2
  <2>7. k <= t + n - 1
    <3>1. SUFFICES ASSUME ~(k <= t + n - 1) PROVE FALSE
      OBVIOUS
    <3>2. cy * (t + n) <= cy * k
      <4>1. t + n <= k /\ t + n \in Nat
        BY <1>2, <1>3, <2>3, <3>1
      <4> QED BY <1>1, <1>2, <4>1, MulMono
    <3>3. cy * (t + n) = cy * t + cy * n /\ cy * t \in Nat
      BY <1>1, <1>3, <2>3
    <3>4. cy * n >= 2 * cy
      <4>1. cy * 2 <= cy * n
        BY <1>1, <1>3, MulMono
      <4> QED BY <1>1, <1>4, <4>1
    <3>5. cy * k - half < cy * t + cy
      BY <1>1, <1>4, <1>5, <2>3 DEF above
    <3> QED BY <1>1, <1>4, <1>5, <3>2, <3>3, <3>4, <3>5
  <2>8. new \in Nat /\ new \div cy <= k /\ k <= new \div cy + under
    BY <1>2, <1>3, <2>3, <2>4, <2>5, <2>6, <2>7
  <2> QED BY <2>8 DEF new, line, cy, k, under
<1>8. CASE iPosAt = 0 /\ ~(line > half)
  <2>1. new = 0
    BY <1>8 DEF LineAtPos
  <2> HIDE DEF line, half, new, cy, k, n, under
  <2>2. 0 \div cy = 0
    <3>1. 0 \in 0..cy - 1 /\ 0 = cy * 0 + 0
      BY <1>1
    <3> QED BY <1>1, <3>1, QuotientIs
  <2>3. k <= n - 1
    <3>1. SUFFICES ASSUME ~(k <= n - 1) PROVE FALSE
      OBVIOUS
    <3>2. cy * n <= cy * k
      <4>1. n <= k /\ n \in Nat
        BY <1>2, <1>3, <3>1
      <4> QED BY <1>1, <1>2, <4>1, MulMono
    <3>3. cy * n > 0
      <4>1. cy * 2 <= cy * n
        BY <1>1, <1>3, MulMono
      <4> QED BY <1>1, <1>4, <4>1
    <3> QED BY <1>4, <1>5, <1>8, <3>2, <3>3
  <2>4. new \in Nat /\ new \div cy <= k /\ k <= new \div cy + under
    BY <1>2, <1>3, <2>1, <2>2, <2>3
  <2> QED BY <2>4 DEF new, line, cy, k, under
<1> QED BY <1>6, <1>7, <1>8

\* Where a column of bytes is in the row, and where GoTo takes it to be.
ColumnAt(l, c) ==
  FirstHex + (IF c >= l.capacity \div 2 THEN BetweenBlocks(l) ELSE 0)
  + c * HexByte + (c \div l.group) * ExtraWidth
ColumnTo(l, c) == c * HexByte + ((c * HexByte) \div GroupedChunk(l)) * ExtraWidth

\* The widths of a row's parts.
LEMMA WidthFacts ==
  ASSUME NEW l \in Layouts
  PROVE  /\ HexByte \in Nat \ {0} /\ HexByte = 2 * ExtraWidth /\ ExtraWidth \in Nat \ {0}
         /\ CharWidth \in Nat /\ BarSize \in Nat
         /\ FirstHex \in Nat /\ BetweenBlocks(l) \in Nat
         /\ GroupedChunk(l) = HexByte * l.group + ExtraWidth /\ GroupedChunk(l) \in Nat \ {0}
         /\ ThirdLine(l) = FirstHex + GroupedChunk(l) * (l.capacity \div l.group) + BetweenBlocks(l)
         /\ MaxH(l) = ThirdLine(l) + 2 * CharWidth + ExtraWidth * l.capacity + 1
         /\ ExtraWidth * l.capacity \in Nat
<1>1. /\ l.capacity \in Nat \ {0} /\ l.group \in Nat \ {0} /\ BarSize \in Nat
      /\ CharWidth \in Nat /\ ExtraWidth \in Nat \ {0} /\ Digits \in Nat
  BY LayoutFacts, ViewAssumption
<1>2. HexByte \in Nat \ {0} /\ HexByte = 2 * ExtraWidth /\ BetweenBlocks(l) \in Nat
  BY <1>1 DEF HexByte, BetweenBlocks
<1>3. SecondLine \in Nat /\ FirstHex = SecondLine + CharWidth
  <2>1. (Digits + 2) * CharWidth \in Nat
    BY <1>1
  <2> QED BY <2>1 DEF SecondLine, FirstHex
<1>4. GroupedChunk(l) = HexByte * l.group + ExtraWidth /\ GroupedChunk(l) \in Nat \ {0}
  <2>1. HexByte * l.group \in Nat
    BY <1>1, <1>2
  <2> QED BY <1>1, <2>1 DEF GroupedChunk
<1> DEFINE groups == l.capacity \div l.group
           text == ExtraWidth * l.capacity
<1>5. groups \in Nat
  BY <1>1, ModFacts
<1> HIDE DEF groups
<1>6. GroupedChunk(l) * groups \in Nat
  BY <1>4, <1>5
<1>7. ThirdLine(l) = FirstHex + GroupedChunk(l) * groups + BetweenBlocks(l) /\ ThirdLine(l) \in Nat
  BY <1>1, <1>2, <1>3, <1>6 DEF ThirdLine, groups
<1>8. text \in Nat
  BY <1>1
<1>9. MaxH(l) = ThirdLine(l) + 2 * CharWidth + text + 1
  <2>1. MaxH(l) = ThirdLine(l) + CharWidth + text + CharWidth + 1
    BY DEF MaxH, FourthLine, IndentText
  <2> HIDE DEF text
  <2> QED BY <1>1, <1>7, <1>8, <2>1
<1> QED BY <1>1, <1>2, <1>3, <1>4, <1>7, <1>8, <1>9 DEF groups

\* A column is inside the bytes' part of the row, and not before its place.
LEMMA ColumnFacts ==
  ASSUME NEW l \in Layouts, NEW c \in 0..l.capacity - 1
  PROVE  /\ ColumnAt(l, c) \in Nat /\ ColumnTo(l, c) \in Nat /\ ThirdLine(l) \in Nat
         /\ ColumnTo(l, c) <= ColumnAt(l, c)
         /\ ColumnAt(l, c) + HexByte + ExtraWidth <= ThirdLine(l)
         /\ ColumnAt(l, c) - ColumnTo(l, c)
              <= FirstHex + BetweenBlocks(l)
                 + (c \div l.group - (c * HexByte) \div GroupedChunk(l)) * ExtraWidth
<1> DEFINE g == l.group
           chunk == GroupedChunk(l)
           bytes == c * HexByte
           before == c \div g
           counted == bytes \div chunk
           groups == l.capacity \div g
           gap == IF c >= l.capacity \div 2 THEN BetweenBlocks(l) ELSE 0
           E == ExtraWidth
<1>1. /\ l.capacity \in Nat \ {0} /\ g \in Nat \ {0} /\ l.capacity % g = 0 /\ c \in Nat
  BY LayoutFacts, ViewAssumption DEF Layouts
<1>2. /\ HexByte \in Nat \ {0} /\ HexByte = 2 * E /\ E \in Nat \ {0}
      /\ FirstHex \in Nat /\ BetweenBlocks(l) \in Nat
      /\ chunk = HexByte * g + E /\ chunk \in Nat \ {0}
      /\ ThirdLine(l) = FirstHex + chunk * groups + BetweenBlocks(l)
  BY WidthFacts
<1>3. gap \in Nat /\ gap <= BetweenBlocks(l)
  BY <1>2
<1>4. bytes \in Nat
  BY <1>1, <1>2
<1> HIDE DEF g, chunk, bytes, gap, E
<1>5. before \in Nat /\ groups \in Nat /\ g * before <= c /\ c < g * before + g
  <2>1. c \in Int /\ l.capacity \in Nat
    BY <1>1
  <2> QED BY <1>1, <2>1, ModFacts, QuotientBounds, Zenon
<1>6. counted \in Nat /\ chunk * counted <= bytes
  <2>1. bytes \in Int
    BY <1>4
  <2> QED BY <1>2, <1>4, <2>1, ModFacts, QuotientBounds, Zenon
<1>7. g * groups = l.capacity
  <2>1. l.capacity = g * groups + 0
    BY <1>1, DivMod
  <2> HIDE DEF groups
  <2> QED BY <1>1, <1>5, <2>1
<1> HIDE DEF before, counted, groups
<1>8. before + 1 <= groups
  <2>1. SUFFICES ASSUME groups <= before PROVE FALSE
    BY <1>5
  <2>2. g * groups <= g * before
    BY <1>1, <1>5, <2>1, MulMono
  <2> QED BY <1>1, <1>5, <1>7, <2>2
<1>9. counted <= before
  <2>1. SUFFICES ASSUME before + 1 <= counted PROVE FALSE
    BY <1>5, <1>6
  <2>2. chunk * (before + 1) <= chunk * counted
    BY <1>2, <1>5, <1>6, <2>1, MulMono
  <2>3. c + 1 <= g * (before + 1)
    <3>1. g * (before + 1) = g * before + g
      BY <1>1, <1>5
    <3> QED BY <1>1, <1>5, <3>1
  <2>4. HexByte * (c + 1) <= HexByte * (g * (before + 1))
    <3>1. c + 1 \in Nat /\ g * (before + 1) \in Nat
      BY <1>1, <1>5
    <3> QED BY <1>2, <2>3, <3>1, MulMono
  <2>5. chunk * (before + 1) = HexByte * (g * (before + 1)) + E * (before + 1)
    BY <1>1, <1>2, <1>5
  <2>6. HexByte * (c + 1) = bytes + HexByte /\ E * (before + 1) \in Nat
    BY <1>1, <1>2, <1>5 DEF bytes
  <2> DEFINE left == HexByte * (g * (before + 1))
             right == chunk * (before + 1)
             all == chunk * counted
             gaps == E * (before + 1)
             next == HexByte * (c + 1)
  <2>7. /\ left \in Nat /\ right \in Nat /\ all \in Nat /\ gaps \in Nat /\ next \in Nat
    BY <1>1, <1>2, <1>5, <1>6
  <2>8. right <= all /\ next <= left /\ right = left + gaps /\ next = bytes + HexByte /\ all <= bytes
    BY <1>6, <2>2, <2>4, <2>5, <2>6
  <2> HIDE DEF left, right, all, gaps, next
  <2> QED BY <1>2, <1>4, <2>7, <2>8
<1>10. before * E \in Nat /\ counted * E \in Nat /\ counted * E <= before * E
  <2>1. E * counted <= E * before
    BY <1>2, <1>5, <1>6, <1>9, MulMono
  <2>2. /\ E * counted = counted * E /\ E * before = before * E
        /\ E * counted \in Nat /\ E * before \in Nat
    BY <1>2, <1>5, <1>6
  <2> QED BY <2>1, <2>2
<1>11. ColumnAt(l, c) = FirstHex + gap + bytes + before * E
  BY DEF ColumnAt, gap, bytes, before, g, E
<1>12. ColumnTo(l, c) = bytes + counted * E
  BY DEF ColumnTo, bytes, counted, chunk, E
<1>13. chunk * groups \in Nat /\ bytes + HexByte + before * E + E <= chunk * groups
  <2>1. chunk * groups = HexByte * (g * groups) + E * groups
    BY <1>1, <1>2, <1>5
  <2>2. HexByte * (c + 1) <= HexByte * l.capacity
    <3>1. c + 1 \in Nat /\ c + 1 <= l.capacity /\ l.capacity \in Nat
      BY <1>1
    <3> QED BY <1>2, <3>1, MulMono
  <2>3. HexByte * (c + 1) = bytes + HexByte
    BY <1>1, <1>2 DEF bytes
  <2>4. E * (before + 1) <= E * groups
    BY <1>2, <1>5, <1>8, MulMono
  <2>5. E * (before + 1) = before * E + E
    BY <1>2, <1>5
  <2>6. HexByte * l.capacity \in Nat /\ E * groups \in Nat /\ chunk * groups \in Nat
    BY <1>1, <1>2, <1>5
  <2>7. chunk * groups = HexByte * l.capacity + E * groups
    BY <1>7, <2>1
  <2> QED BY <1>2, <1>4, <1>10, <2>2, <2>3, <2>4, <2>5, <2>6, <2>7
<1> DEFINE row == chunk * groups
           be == before * E
           ce == counted * E
<1>14. /\ row \in Nat /\ be \in Nat /\ ce \in Nat /\ ce <= be
       /\ ColumnAt(l, c) = FirstHex + gap + bytes + be /\ ColumnTo(l, c) = bytes + ce
       /\ bytes + HexByte + be + E <= row
       /\ ThirdLine(l) = FirstHex + row + BetweenBlocks(l)
  BY <1>2, <1>10, <1>11, <1>12, <1>13
<1>15. (before - counted) * E = be - ce
  BY <1>2, <1>5, <1>6
<1> HIDE DEF row, be, ce
<1>16. /\ ColumnAt(l, c) \in Nat /\ ColumnTo(l, c) \in Nat /\ ThirdLine(l) \in Nat
       /\ ColumnTo(l, c) <= ColumnAt(l, c)
       /\ ColumnAt(l, c) + HexByte + E <= ThirdLine(l)
       /\ ColumnAt(l, c) - ColumnTo(l, c) <= FirstHex + BetweenBlocks(l) + (be - ce)
  BY <1>2, <1>3, <1>4, <1>14
<1>17. ColumnAt(l, c) - ColumnTo(l, c)
         <= FirstHex + BetweenBlocks(l) + (before - counted) * E
  BY <1>15, <1>16
<1> QED BY <1>16, <1>17 DEF before, counted, bytes, chunk, g, E

\* A column is in sight where the horizontal bar goes for it, and where all fits.
LEMMA ColumnInSight ==
  ASSUME RoomForColumns, NEW l \in Layouts, NEW c \in 0..l.capacity - 1, NEW v, Seen(v),
         v.max["H"] = MaxH(l), NEW p \in Nat,
         \/ v.vis["H"] = FALSE /\ p = 0
         \/ p = ColumnTo(l, c)
         \/ p = MaxPos(v, "H") /\ p < ColumnTo(l, c)
  PROVE  ColumnAt(l, c) - p >= 0 /\ ColumnAt(l, c) - p < v.client["H"] - HexByte
<1> DEFINE at == ColumnAt(l, c)
           to == ColumnTo(l, c)
           text == ExtraWidth * l.capacity
           E == ExtraWidth
           room == v.client["H"]
           w == v.win["H"]
           short == (c \div l.group - (c * HexByte) \div GroupedChunk(l)) * ExtraWidth
<1>1. /\ at \in Nat /\ to \in Nat /\ ThirdLine(l) \in Nat /\ to <= at
      /\ at + HexByte + E <= ThirdLine(l)
      /\ at - to <= FirstHex + BetweenBlocks(l) + short
  BY ColumnFacts
<1>2. /\ HexByte \in Nat \ {0} /\ E \in Nat \ {0} /\ CharWidth \in Nat /\ BarSize \in Nat
      /\ FirstHex \in Nat /\ BetweenBlocks(l) \in Nat
      /\ v.max["H"] = ThirdLine(l) + 2 * CharWidth + text + 1 /\ text \in Nat
  BY WidthFacts
<1>3. v \in ViewRec /\ room \in Nat /\ w \in Widths /\ w \in Nat /\ w <= room + BarSize
  BY BarsAre, RoomForBars DEF Seen, Framed, ViewRec, Windows
<1>4. BarSize <= 2 * CharWidth + E * (l.capacity + 1)
      /\ FirstHex + BetweenBlocks(l) + short + HexByte < w - BarSize
  BY <1>3 DEF RoomForColumns
<1>5. E * (l.capacity + 1) = text + E /\ l.capacity \in Nat
  BY <1>2, LayoutFacts
<1>6. short \in Int
  <2>1. c \div l.group \in Int /\ (c * HexByte) \div GroupedChunk(l) \in Int
    <3>1. c \in Int /\ c * HexByte \in Int /\ l.group \in Nat \ {0}
      BY <1>2, LayoutFacts
    <3>2. GroupedChunk(l) \in Nat \ {0}
      BY WidthFacts
    <3> QED BY <3>1, <3>2, QuotientBounds, Zenon
  <2> DEFINE a == c \div l.group
             b == (c * HexByte) \div GroupedChunk(l)
  <2>2. a \in Int /\ b \in Int
    BY <2>1
  <2> HIDE DEF a, b
  <2>3. (a - b) * E \in Int
    BY <1>2, <2>2
  <2> QED BY <2>3 DEF a, b
<1> HIDE DEF at, to, text, E, room, w, short
<1>7. CASE v.vis["H"] = FALSE /\ p = 0
  <2>1. v.max["H"] <= room + BarSize
    BY <1>7, BarsAre DEF Seen, Fits, room
  <2>2. at - p >= 0 /\ at - p < room - HexByte
    BY <1>1, <1>2, <1>3, <1>4, <1>5, <1>7, <2>1
  <2> QED BY <2>2 DEF at, room
<1>8. CASE p = to
  <2>1. at - p >= 0 /\ at - p < room - HexByte
    BY <1>1, <1>2, <1>3, <1>4, <1>6, <1>8
  <2> QED BY <2>1 DEF at, room
<1>9. CASE p = MaxPos(v, "H") /\ p < to
  <2>1. p = IF room > v.max["H"] THEN 0 ELSE v.max["H"] - room
    BY <1>9 DEF MaxPos, room
  <2>2. at - p >= 0 /\ at - p < room - HexByte
    BY <1>1, <1>2, <1>3, <1>9, <2>1
  <2> QED BY <2>2 DEF at, room
<1> QED BY <1>7, <1>8, <1>9 DEF to

\* Going to an offset on top and in the centre.
LEMMA GoToInSight ==
  ASSUME RoomForLines, RoomForColumns, ViewInv, dataSize > 0,
         NEW o \in 0..dataSize - 1, NEW iPosAt \in -1..0
  PROVE  IsOffsetVisible(layout, GoTo(view, o, iPosAt, FALSE), dataSize, o)
<1> DEFINE k == o \div layout.capacity
           c == o % layout.capacity
           new == LineAtPos(layout, view, dataSize, k * layout.cy, iPosAt)
           down == SetScrollPos(view, "V", new)
           x == c * HexByte
           right == x + (x \div GroupedChunk(layout)) * ExtraWidth
           gone == GoTo(view, o, iPosAt, FALSE)
<1>1. /\ Seen(view) /\ view \in ViewRec /\ layout \in Layouts /\ dataSize \in Nat \ {0}
      /\ view.max["V"] = MaxV(layout, dataSize) /\ view.max["H"] = MaxH(layout)
      /\ view.vis["H"] \in BOOLEAN /\ view.pos["H"] \in Nat
  BY InvFacts, BarsAre DEF ViewInv, ViewRec
<1>2. c \in 0..layout.capacity - 1
  <2>1. o \in Nat /\ layout.capacity \in Nat \ {0}
    BY <1>1, LayoutFacts
  <2> QED BY <2>1, ModFacts
<1>3. new \in Nat /\ new \div layout.cy <= k /\ k <= new \div layout.cy + Under(layout, view)
  BY TargetInSight
<1>4. VertVisible(layout, down, dataSize, o)
  <2> HIDE DEF new
  <2> QED BY <1>1, <1>3, ScrolledInSight
<1>5. /\ down \in ViewRec /\ down.vis = view.vis /\ down.client = view.client
      /\ down.max = view.max /\ down.pos["H"] = view.pos["H"]
  <2> HIDE DEF new
  <2>1. view \in ViewRec /\ new \in Nat /\ "V" \in Bars /\ "H" \in Bars /\ "H" # "V"
    BY <1>1, <1>3, BarsAre
  <2> QED BY <2>1, SetPosFacts
<1>6. gone = IF view.vis["H"] THEN SetScrollPos(down, "H", right) ELSE down
  BY DEF GoTo
<1>7. right = ColumnTo(layout, c) /\ right \in Nat
  <2>1. right = ColumnTo(layout, c)
    BY DEF ColumnTo
  <2> HIDE DEF right, c
  <2> QED BY <1>1, <1>2, <2>1, ColumnFacts
<1> HIDE DEF down, right, gone, new
<1>8. /\ gone.pos["V"] = down.pos["V"] /\ gone.client = view.client /\ gone.pos["H"] \in Nat
      /\ \/ view.vis["H"] = FALSE /\ gone.pos["H"] = 0
         \/ gone.pos["H"] = ColumnTo(layout, c)
         \/ gone.pos["H"] = MaxPos(view, "H") /\ gone.pos["H"] < ColumnTo(layout, c)
  <2>1. CASE view.vis["H"] = TRUE
    <3> DEFINE w == SetScrollPos(down, "H", right)
    <3>1. gone = w
      BY <1>6, <2>1
    <3>2. /\ w \in ViewRec /\ w.client = down.client /\ w.pos["V"] = down.pos["V"]
          /\ w.pos["H"] = right \/ (w.pos["H"] = MaxPos(down, "H") /\ MaxPos(down, "H") < right)
      <4>1. down \in ViewRec /\ "H" \in Bars /\ "V" \in Bars /\ "V" # "H" /\ right \in Nat
        BY <1>5, <1>7, BarsAre
      <4>2. /\ w \in ViewRec /\ w.client = down.client
            /\ \A b \in Bars : b # "H" => w.pos[b] = down.pos[b]
        BY <4>1, SetPosFacts
      <4>3. w.pos["H"] = right \/ (w.pos["H"] = MaxPos(down, "H") /\ MaxPos(down, "H") < right)
        BY <4>1, SetPosIs, Zenon
      <4> QED BY <4>1, <4>2, <4>3
    <3>3. MaxPos(down, "H") = MaxPos(view, "H")
      BY <1>5 DEF MaxPos
    <3> HIDE DEF w
    <3>4. w.pos["H"] \in Nat
      BY <3>2, BarsAre DEF ViewRec
    <3> QED BY <1>5, <1>7, <3>1, <3>2, <3>3, <3>4
  <2>2. CASE view.vis["H"] = FALSE
    <3>1. gone = down
      BY <1>6, <2>2
    <3>2. view.pos["H"] = 0
      BY <1>1, <2>2, BarsAre DEF Seen, Fits
    <3> QED BY <1>5, <2>2, <3>1, <3>2
  <2> QED BY <1>1, <2>1, <2>2
<1>9. VertVisible(layout, gone, dataSize, o)
  <2>1. gone.client = down.client
    BY <1>5, <1>8
  <2> QED BY <1>4, <1>8, <2>1, SameLines
<1>10. HorzVisible(layout, gone, o)
  <2> DEFINE p == gone.pos["H"]
  <2>1. HexChunkX(layout, gone, o) = ColumnAt(layout, c) - p
    <3> DEFINE gap == IF c >= layout.capacity \div 2 THEN BetweenBlocks(layout) ELSE 0
               bytes == c * HexByte
               groups == (c \div layout.group) * ExtraWidth
    <3>1. FirstHex \in Nat /\ HexByte \in Nat /\ ExtraWidth \in Nat /\ BetweenBlocks(layout) \in Nat
      BY <1>1, WidthFacts
    <3>2. gap \in Nat /\ p \in Nat
      BY <1>8, <3>1
    <3>3. bytes \in Nat /\ groups \in Nat
      <4>1. c \in Nat /\ layout.group \in Nat \ {0}
        BY <1>1, <1>2, LayoutFacts
      <4> DEFINE d == c \div layout.group
      <4> HIDE DEF c
      <4>2. d \in Nat
        BY <4>1, ModFacts
      <4> HIDE DEF d
      <4>3. c * HexByte \in Nat /\ d * ExtraWidth \in Nat
        BY <3>1, <4>1, <4>2
      <4> QED BY <4>3 DEF d
    <3>4. HexChunkX(layout, gone, o) = FirstHex + gap + bytes + groups - p
      BY DEF HexChunkX
    <3>5. ColumnAt(layout, c) = FirstHex + gap + bytes + groups
      BY DEF ColumnAt
    <3> HIDE DEF gap, bytes, groups, p
    <3> QED BY <3>1, <3>2, <3>3, <3>4, <3>5
  <2>2. LastHexX(gone) = view.client["H"] - HexByte
    BY <1>8 DEF LastHexX
  <2> HIDE DEF c, p
  <2>3. ColumnAt(layout, c) - p >= 0 /\ ColumnAt(layout, c) - p < view.client["H"] - HexByte
    BY <1>1, <1>2, <1>8, ColumnInSight DEF p
  <2> QED BY <2>1, <2>2, <2>3 DEF HorzVisible
<1> QED BY <1>9, <1>10 DEF IsOffsetVisible, gone

\* In windows with room for two lines and for the columns, whatever was done to
\* the view before, an offset gone to is in sight, down to the data's last line.
THEOREM GoneToStaysVisible ==
  ASSUME RoomForLines, RoomForColumns
  PROVE  Spec => []GoneToIsVisible
<1>1. ASSUME ViewInv PROVE GoneToIsVisible
  <2>1. dataSize \in Nat
    BY <1>1, InvFacts
  <2>2. EndShowsLastLine
    BY <1>1, EndInSight DEF EndShowsLastLine
  <2>3. ASSUME NEW o \in 0..(dataSize - 1), NEW iPosAt \in -1..0
        PROVE  IsOffsetVisible(layout, GoTo(view, o, iPosAt, FALSE), dataSize, o)
    <3>1. dataSize > 0
      BY <2>1
    <3> QED BY <1>1, <3>1, GoToInSight
  <2> QED BY <2>2, <2>3 DEF GoneToIsVisible
<1> QED BY <1>1, ViewCorrect, PTL

-----------------------------------------------------------------------------
(* Printing                                                                *)

LEMMA FullPages ==
  ASSUME NEW t \in Nat, NEW n \in Nat \ {0}, NEW k \in 1..t \div n + 1
  PROVE  /\ t \div n \in Nat
         /\ k * n > t <=> k = t \div n + 1
         /\ (k - 1) * n \in Nat /\ (k - 1) * n <= t /\ (k - 1) * n + n = k * n
<1> DEFINE q == t \div n
<1>1. q \in Nat /\ n * q <= t /\ t < n * q + n
  BY ModFacts, QuotientBounds
<1> HIDE DEF q
<1>2. k \in 1..q + 1 /\ k - 1 \in Nat /\ k - 1 <= q
  BY <1>1 DEF q
<1>3. n * (k - 1) <= n * q /\ n * (k - 1) \in Nat /\ n * q \in Nat
  BY <1>1, <1>2, MulMono
<1>4. n * (k - 1) = (k - 1) * n /\ (k - 1) * n + n = k * n
  BY <1>2
<1>5. CASE k = q + 1
  <2>1. k * n = n * q + n
    BY <1>1, <1>5
  <2> QED BY <1>1, <1>3, <1>4, <1>5, <2>1 DEF q
<1>6. CASE k # q + 1
  <2>1. k <= q /\ k \in Nat
    BY <1>1, <1>2, <1>6
  <2>2. n * k <= n * q /\ n * k = k * n
    BY <1>1, <2>1, MulMono
  <2> QED BY <1>1, <1>3, <1>4, <1>6, <2>1, <2>2 DEF q
<1> QED BY <1>5, <1>6

\* The pages of a layout: as many as the full lines fill, and one more, which
\* has the rest.
LEMMA PageIs ==
  ASSUME dataSize \in Nat, NEW l, l.capacity \in Nat \ {0}, NEW n \in Nat \ {0},
         NEW k \in 1..TotalPages(l, n)
  PROVE  /\ TotalLines(l) \in Nat /\ Lines(l, dataSize) \in Nat /\ TotalPages(l, n) \in Nat
         /\ TotalLines(l) <= Lines(l, dataSize)
         /\ (k - 1) * n \in Nat /\ (k - 1) * n <= TotalLines(l)
         /\ k < TotalPages(l, n) => k * n \in Nat /\ k * n <= TotalLines(l)
         /\ PageFrom(l, (k - 1) * n, n)
              = (k - 1) * n..(IF k = TotalPages(l, n) THEN Lines(l, dataSize) ELSE k * n) - 1
<1> DEFINE t == TotalLines(l)
<1>1. t \in Nat
  BY ModFacts DEF TotalLines
<1>2. Lines(l, dataSize) = t + (IF dataSize % l.capacity = 0 THEN 0 ELSE 1)
  BY DEF Lines, TotalLines
<1>3. TotalPages(l, n) = t \div n + 1
  BY DEF TotalPages
<1>4. PageFrom(l, (k - 1) * n, n)
        = (k - 1) * n..(IF (k - 1) * n + n > t THEN t + (IF dataSize % l.capacity = 0 THEN 0 ELSE 1)
                        ELSE (k - 1) * n + n) - 1
  BY DEF PageFrom
<1> HIDE DEF t
<1>5. /\ t \div n \in Nat
      /\ k * n > t <=> k = t \div n + 1
      /\ (k - 1) * n \in Nat /\ (k - 1) * n <= t /\ (k - 1) * n + n = k * n
  BY <1>1, <1>3, FullPages
<1>6. Lines(l, dataSize) \in Nat /\ t <= Lines(l, dataSize) /\ TotalPages(l, n) \in Nat
  BY <1>1, <1>2, <1>3, <1>5
<1>7. k * n \in Nat
  BY <1>3, <1>5
<1>8. PageFrom(l, (k - 1) * n, n)
        = (k - 1) * n..(IF k = TotalPages(l, n) THEN Lines(l, dataSize) ELSE k * n) - 1
  BY <1>2, <1>3, <1>4, <1>5
<1>9. k < TotalPages(l, n) => k * n <= t
  BY <1>1, <1>3, <1>5, <1>7
<1> QED BY <1>1, <1>5, <1>6, <1>7, <1>8, <1>9 DEF t

\* All pages together have all lines.
LEMMA PagesCover ==
  ASSUME dataSize \in Nat, NEW l, l.capacity \in Nat \ {0}, NEW n \in Nat \ {0}
  PROVE  UNION ToSet(PrintAll(l, n)) = 0..Lines(l, dataSize) - 1
<1> DEFINE count == TotalPages(l, n)
           total == Lines(l, dataSize)
           pages == PrintAll(l, n)
<1>1. TotalLines(l) \in Nat
  BY ModFacts DEF TotalLines
<1>2. count \in Nat \ {0} /\ count = TotalLines(l) \div n + 1
  BY <1>1, ModFacts DEF TotalPages
<1>3. /\ pages = [k \in 1..count |-> PageFrom(l, (k - 1) * n, n)]
      /\ UNION ToSet(pages) = UNION {pages[k] : k \in 1..count}
  BY DEF PrintAll, ToSet
<1> HIDE DEF count, total, pages
<1>4. ASSUME NEW k \in 1..count
      PROVE  /\ TotalLines(l) \in Nat /\ total \in Nat /\ TotalLines(l) <= total
             /\ (k - 1) * n \in Nat /\ (k - 1) * n <= TotalLines(l)
             /\ k < count => k * n \in Nat /\ k * n <= TotalLines(l)
             /\ pages[k] = (k - 1) * n..(IF k = count THEN total ELSE k * n) - 1
  BY <1>3, <1>4, PageIs DEF count, total
<1>5. ASSUME NEW k \in 1..count, NEW a \in pages[k] PROVE a \in 0..total - 1
  <2>1. CASE k = count
    BY <1>4, <1>5, <2>1
  <2>2. CASE k # count
    <3>1. k < count
      BY <1>2, <2>2
    <3> QED BY <1>4, <1>5, <3>1
  <2> QED BY <2>1, <2>2
<1>6. ASSUME NEW a \in 0..total - 1 PROVE \E k \in 1..count : a \in pages[k]
  <2> DEFINE q == count - 1
             d == a \div n
  <2>1. q \in Nat /\ 1 \in 1..count /\ total \in Nat
    BY <1>2, <1>4
  <2>2. a \in Nat /\ d \in Nat /\ n * d <= a /\ a < n * d + n
    <3>1. a \in Nat
      BY <2>1
    <3>2. d \in Nat
      BY <3>1, ModFacts
    <3>3. n * d <= a /\ a < n * d + n
      BY <3>1, QuotientBounds
    <3> QED BY <3>1, <3>2, <3>3
  <2>3. q <= d <=> n * q <= a
    BY <2>1, <2>2, QuotientAtLeast
  <2> HIDE DEF d
  <2>4. CASE n * q <= a
    <3>1. count \in 1..count /\ (count - 1) * n = n * q
      BY <1>2
    <3>2. a \in pages[count]
      BY <1>4, <2>1, <2>2, <2>4, <3>1
    <3> QED BY <3>1, <3>2
  <2>5. CASE ~(n * q <= a)
    <3>1. d + 1 \in 1..count /\ d + 1 < count
      BY <1>2, <2>1, <2>2, <2>3, <2>5
    <3>2. ((d + 1) - 1) * n = n * d /\ (d + 1) * n = n * d + n /\ n * d \in Nat
      BY <2>2
    <3>3. pages[d + 1] = n * d..n * d + n - 1
      <4>1. d + 1 # count
        BY <1>2, <3>1
      <4>2. pages[d + 1] = ((d + 1) - 1) * n..(d + 1) * n - 1
        BY <1>4, <3>1, <4>1
      <4> QED BY <3>2, <4>2
    <3>4. a \in pages[d + 1]
      BY <2>2, <3>2, <3>3
    <3> QED BY <3>1, <3>4
  <2> QED BY <2>4, <2>5
<1>7. UNION ToSet(pages) = 0..total - 1
  BY <1>3, <1>5, <1>6
<1> QED BY <1>7 DEF pages, total

LEMMA PagesAre ==
  ASSUME dataSize \in Nat, NEW l, l.capacity \in Nat \ {0}, NEW n \in Nat \ {0}
  PROVE  /\ TotalPages(l, n) \in Nat \ {0}
         /\ Len(PrintAll(l, n)) = TotalPages(l, n)
         /\ \A k \in 1..TotalPages(l, n) : PrintAll(l, n)[k] = PageFrom(l, (k - 1) * n, n)
<1>1. TotalLines(l) \in Nat
  BY ModFacts DEF TotalLines
<1>2. TotalPages(l, n) \in Nat \ {0}
  BY <1>1, ModFacts DEF TotalPages
<1>3. PrintAll(l, n) = [k \in 1..TotalPages(l, n) |-> PageFrom(l, (k - 1) * n, n)]
  BY DEF PrintAll
<1> QED BY <1>2, <1>3

\* A page has the lines that n lines to a page put there, and no other.
LEMMA PageHas ==
  ASSUME dataSize \in Nat, NEW l, l.capacity \in Nat \ {0}, NEW n \in Nat \ {0},
         NEW k \in 1..Len(PrintAll(l, n))
  PROVE  PrintAll(l, n)[k] = {line \in 0..Lines(l, dataSize) - 1 : line \div n = k - 1}
<1> DEFINE q     == k - 1
           from  == q * n
           end   == k * n
           total == Lines(l, dataSize)
           count == TotalPages(l, n)
           page  == PrintAll(l, n)[k]
<1>1. count \in Nat \ {0} /\ k \in 1..count /\ page = PageFrom(l, from, n)
  BY PagesAre
<1>2. /\ total \in Nat /\ from \in Nat /\ from <= total
      /\ k < count => end <= total
      /\ page = from..(IF k = count THEN total ELSE end) - 1
  <2>1. k \in 1..TotalPages(l, n)
    BY <1>1
  <2>2. /\ TotalLines(l) \in Nat /\ total \in Nat
        /\ TotalLines(l) <= total
        /\ from \in Nat /\ from <= TotalLines(l)
        /\ k < count => end \in Nat /\ end <= TotalLines(l)
        /\ PageFrom(l, from, n) = from..(IF k = count THEN total ELSE end) - 1
    BY <2>1, PageIs
  <2> HIDE DEF from, end, total, count, page
  <2> QED BY <1>1, <2>2
<1>3. q \in Nat /\ end = from + n /\ end \in Nat /\ n * q = from /\ n * q + n = end
  <2>1. q \in Nat /\ k = q + 1
    BY <1>1
  <2> HIDE DEF q
  <2>2. (q + 1) * n = q * n + n /\ n * q = q * n /\ q * n \in Nat
    BY <2>1
  <2> QED BY <2>1, <2>2
<1>4. k = count => total <= end
  <2> DEFINE t == TotalLines(l)
  <2>1. t \in Nat /\ total = t + (IF dataSize % l.capacity = 0 THEN 0 ELSE 1)
    BY ModFacts DEF TotalLines, Lines
  <2>2. k = t \div n + 1 => k * n > t
    <3>1. k \in 1..t \div n + 1
      BY <1>1 DEF TotalPages
    <3> HIDE DEF t
    <3> QED BY <2>1, <3>1, FullPages
  <2>3. count = t \div n + 1
    BY DEF TotalPages
  <2> HIDE DEF t, count
  <2> QED BY <1>2, <1>3, <2>1, <2>2, <2>3
<1> HIDE DEF q, from, end, total, count, page
<1>5. ASSUME NEW a \in Nat PROVE a \div n = q <=> from <= a /\ a < end
  <2> DEFINE d == a \div n
  <2>1. d \in Nat
    BY <1>5, ModFacts
  <2> DEFINE p == q + 1
  <2>2. q \in Int /\ p \in Int /\ a \in Int
    BY <1>3
  <2>3. q <= d <=> n * q <= a
    BY <2>2, QuotientAtLeast
  <2> HIDE DEF p
  <2>4. p <= d <=> n * p <= a
    BY <2>2, QuotientAtLeast
  <2>5. n * p = end
    BY <1>3 DEF p
  <2>6. d = q <=> q <= d /\ ~(p <= d)
    BY <1>3, <2>1 DEF p
  <2> HIDE DEF d
  <2> QED BY <1>3, <2>3, <2>4, <2>5, <2>6 DEF d
<1>6. ASSUME NEW a \in page PROVE a \in 0..total - 1 /\ a \div n = q
  <2>1. a \in Nat /\ from <= a /\ a < total /\ a < end
    <3>1. CASE k = count
      BY <1>2, <1>3, <1>4, <1>6, <3>1
    <3>2. CASE k # count
      <4>1. k < count
        BY <1>1, <3>2
      <4> QED BY <1>2, <1>3, <1>6, <3>2, <4>1
    <3> QED BY <3>1, <3>2
  <2>2. a \div n = q
    BY <1>5, <2>1
  <2> QED BY <1>2, <2>1, <2>2
<1>7. ASSUME NEW a \in 0..total - 1, a \div n = q PROVE a \in page
  <2>1. a \in Nat /\ a < total
    BY <1>2
  <2>2. from <= a /\ a < end
    BY <1>5, <1>7, <2>1
  <2> QED BY <1>2, <1>3, <2>1, <2>2
<1>8. page = {line \in 0..total - 1 : line \div n = q}
  BY <1>6, <1>7
<1> QED BY <1>8 DEF page, total, q

\* A range of pages prints what these pages have when all are printed.
LEMMA PagesOfRange ==
  ASSUME dataSize \in Nat, NEW l, l.capacity \in Nat \ {0}, NEW n \in Nat \ {0},
         NEW to \in Nat \ {0}, NEW from \in 1..to
  PROVE  PrintRange(l, n, from, to)
           = SubSeq(PrintAll(l, n), from, Least(to, Len(PrintAll(l, n))))
<1> DEFINE pages == TotalPages(l, n)
           first == from - 1
           count == IF first > pages THEN 0 ELSE Least(to, pages) - first
           last  == Least(to, pages)
           page(k) == PageFrom(l, (k - 1) * n, n)
<1>2. pages \in Nat \ {0}
  BY PagesAre
<1>3. PrintAll(l, n) = [k \in 1..pages |-> page(k)] /\ Len(PrintAll(l, n)) = pages
  BY PagesAre DEF PrintAll
<1>4. PrintRange(l, n, from, to) = [k \in 1..count |-> PageFrom(l, (first + k - 1) * n, n)]
  BY DEF PrintRange
<1> HIDE DEF pages
<1>5. first \in Nat /\ last \in Nat /\ last <= pages /\ count \in Int
  BY <1>2 DEF Least
<1>6. ASSUME NEW k \in 1..count
      PROVE  k + from - 1 \in 1..pages /\ (k + from - 1) - 1 = first + k - 1
  <2>1. 1..count = 1..(last - from + 1)
    BY <1>2, <1>5 DEF Least
  <2> HIDE DEF count, last
  <2> QED BY <1>2, <1>5, <1>6, <2>1
<1>7. ASSUME NEW k \in 1..count
      PROVE  PrintAll(l, n)[from + k - 1] = PageFrom(l, (first + k - 1) * n, n)
  <2>1. from + k - 1 = k + from - 1
    BY <1>5, <1>7
  <2> QED BY <1>3, <1>6, <1>7, <2>1
<1> DEFINE Page == {page(k) : k \in 1..pages}
           part == SubSeq(PrintAll(l, n), from, last)
<1>8. \A k \in from..last : PrintAll(l, n)[k] \in Page
  <2>1. from..last \subseteq 1..pages
    BY <1>2, <1>5
  <2> QED BY <1>3, <2>1
<1>9. /\ part \in Seq(Page)
      /\ Len(part) = IF from <= last THEN last - from + 1 ELSE 0
      /\ \A k \in 1..last - from + 1 : part[k] = PrintAll(l, n)[from + k - 1]
  <2>1. from \in Int /\ last \in Int
    BY <1>5
  <2> HIDE DEF last, Page
  <2> QED BY <1>8, <2>1, SubSeqProperties
<1>10. 1..count = 1..last - from + 1 /\ 1..count = 1..Len(part)
  <2>1. 1..count = 1..last - from + 1
    BY <1>2, <1>5 DEF Least
  <2> HIDE DEF count, last, part
  <2> QED BY <1>5, <1>9, <2>1
<1> HIDE DEF count, last, Page, part
<1>11. part = [k \in 1..count |-> part[k]]
  <2>1. part \in [1..Len(part) -> Page]
    BY <1>9, LenProperties
  <2> QED BY <1>10, <2>1
<1>12. part = [k \in 1..count |-> PageFrom(l, (first + k - 1) * n, n)]
  BY <1>7, <1>9, <1>10, <1>11
<1> QED BY <1>3, <1>4, <1>12 DEF last, part, pages

\* Every command shows, marks or selects; only the view's change it.
LEMMA ShowSpecIsView == ShowSpec => Spec
<1>1. ShowInit => Init
  BY DEF ShowInit
<1>2. [ShowNext]_<<vars, showVars>> => [Next]_vars
  <2>1. ASSUME ShowNext PROVE Next \/ UNCHANGED vars
    <3>1. ViewNext => Next
      BY DEF ViewNext
    <3>2. SelectNext => UNCHANGED vars
      BY DEF SelectNext, SetSpans
    <3>3. (\E new \in [0..dataSize - 1 -> Items \cup {NoItem}] : SetItems(new)) => UNCHANGED vars
      BY DEF SetItems
    <3> QED BY <2>1, <3>1, <3>2, <3>3 DEF ShowNext
  <2> QED BY <2>1
<1> QED BY <1>1, <1>2, PTL DEF ShowSpec, Spec

\* Whatever was done to the view, in every layout and for every number n of lines
\* a printer's page has: page after page has n lines of the data, the last one
\* what is left, so that each line is printed once, in order; and a range of
\* pages prints what these pages have when all are.
THEOREM PrintsLinesOnce == ShowSpec => []PrintedOnce
<1>1. ASSUME ViewInv PROVE PrintedOnce
  <2>1. dataSize \in Nat /\ layout.capacity \in Nat \ {0}
    BY <1>1, InvFacts, LayoutFacts
  <2>2. SUFFICES ASSUME NEW n \in PageLines
                 PROVE  /\ UNION ToSet(PrintAll(layout, n)) = 0..Lines(layout, dataSize) - 1
                        /\ \A k \in 1..Len(PrintAll(layout, n)) :
                             PrintAll(layout, n)[k]
                               = {line \in 0..Lines(layout, dataSize) - 1 : line \div n = k - 1}
                        /\ \A to \in 1..MaxPage : \A from \in 1..to :
                             PrintRange(layout, n, from, to)
                               = SubSeq(PrintAll(layout, n), from, Least(to, Len(PrintAll(layout, n))))
    BY DEF PrintedOnce
  <2>3. n \in Nat \ {0}
    BY ShowAssumption
  <2>4. UNION ToSet(PrintAll(layout, n)) = 0..Lines(layout, dataSize) - 1
    BY <2>1, <2>3, PagesCover
  <2>5. ASSUME NEW k \in 1..Len(PrintAll(layout, n))
        PROVE  PrintAll(layout, n)[k]
                 = {line \in 0..Lines(layout, dataSize) - 1 : line \div n = k - 1}
    BY <2>1, <2>3, PageHas
  <2>6. ASSUME NEW to \in 1..MaxPage, NEW from \in 1..to
        PROVE  PrintRange(layout, n, from, to)
                 = SubSeq(PrintAll(layout, n), from, Least(to, Len(PrintAll(layout, n))))
    <3>1. to \in Nat \ {0}
      BY ShowAssumption
    <3> QED BY <2>1, <2>3, <3>1, PagesOfRange
  <2> QED BY <2>4, <2>5, <2>6
<1> QED BY <1>1, ShowSpecIsView, ViewCorrect, PTL

-----------------------------------------------------------------------------
(* Painting: where the characters of a row stand                           *)

\* How many characters a column of a row has before it.
Chars(l, c) ==
  2 * c + (c \div l.group)
    + (IF l.group = 1 /\ l.capacity > 1 /\ c >= l.capacity \div 2 THEN 2 ELSE 0)

LEMMA CharsFacts ==
  ASSUME NEW l \in Layouts, NEW c \in 0..l.capacity
  PROVE  /\ Chars(l, c) \in Nat /\ Chars(l, c) >= 2 * c
         /\ c \div l.group \in Nat
         /\ ColumnAt(l, c) = FirstHex + Chars(l, c) * ExtraWidth
<1> DEFINE q == c \div l.group
           E == ExtraWidth
           gap == IF l.group = 1 /\ l.capacity > 1 /\ c >= l.capacity \div 2 THEN 2 ELSE 0
<1>1. /\ c \in Nat /\ l.group \in Nat \ {0} /\ l.capacity \in Nat \ {0}
      /\ E \in Nat \ {0} /\ HexByte = 2 * E /\ FirstHex \in Nat
  BY WidthFacts, LayoutFacts
<1>2. q \in Nat
  BY <1>1, ModFacts
<1>3. (IF c >= l.capacity \div 2 THEN BetweenBlocks(l) ELSE 0) = gap * E
  BY <1>1 DEF BetweenBlocks
<1>4. gap \in Nat
  OBVIOUS
<1>5. Chars(l, c) = 2 * c + q + gap
  BY DEF Chars
<1>6. ColumnAt(l, c) = FirstHex + gap * E + c * (2 * E) + q * E
  BY <1>1, <1>3 DEF ColumnAt
<1> HIDE DEF q, gap
<1>7. (2 * c + q + gap) * E = gap * E + c * (2 * E) + q * E
  BY <1>1, <1>2, <1>4
<1>8. gap * E \in Nat /\ c * (2 * E) \in Nat /\ q * E \in Nat
  BY <1>1, <1>2, <1>4
<1> HIDE DEF E
<1>9. ColumnAt(l, c) = FirstHex + Chars(l, c) * E
  BY <1>1, <1>5, <1>6, <1>7, <1>8
<1> QED BY <1>1, <1>2, <1>4, <1>5, <1>9 DEF q, E

\* Columns are in order.
LEMMA CharsInOrder ==
  ASSUME NEW l \in Layouts, NEW d \in 0..l.capacity, NEW c \in 0..d
  PROVE  Chars(l, c) <= Chars(l, d)
<1> DEFINE q == c \div l.group
           p == d \div l.group
           half == l.capacity \div 2
<1>1. c \in Nat /\ d \in Nat /\ c <= d /\ l.group \in Nat \ {0} /\ l.capacity \in Nat \ {0}
  BY LayoutFacts
<1>2. q \in Nat /\ p \in Nat /\ q <= p
  BY <1>1, QuotientSteps
<1>3. half \in Nat
  BY <1>1
<1> HIDE DEF q, p, half
<1> QED BY <1>1, <1>2, <1>3 DEF Chars, q, p, half

\* A step in a division.
LEMMA NextQuotient ==
  ASSUME NEW c \in Nat, NEW g \in Nat \ {0}
  PROVE  (c + 1) \div g = (c \div g) + (IF (c + 1) % g = 0 THEN 1 ELSE 0)
<1> DEFINE q == c \div g
           r == c % g
<1>1. q \in Nat /\ r \in 0..g - 1 /\ c = g * q + r
  BY ModFacts, DivMod
<1> HIDE DEF q, r
<1>2. CASE r + 1 = g
  <2>1. q + 1 \in Nat /\ 0 \in 0..g - 1 /\ c + 1 \in Nat
    BY <1>1
  <2>2. c + 1 = g * (q + 1) + 0
    BY <1>1, <1>2
  <2>3. (c + 1) \div g = q + 1 /\ (c + 1) % g = 0
    BY <2>1, <2>2, QuotientIs
  <2> QED BY <2>3 DEF q
<1>3. CASE r + 1 # g
  <2>1. r + 1 \in 0..g - 1 /\ c + 1 = g * q + (r + 1) /\ c + 1 \in Nat
    BY <1>1, <1>3
  <2>2. (c + 1) \div g = q /\ (c + 1) % g = r + 1
    BY <1>1, <2>1, QuotientIs
  <2>3. r + 1 # 0 /\ q + 0 = q
    BY <1>1
  <2> QED BY <2>2, <2>3 DEF q
<1> QED BY <1>2, <1>3

\* Two digits, and the spaces before the next column.
LEMMA CharsNext ==
  ASSUME NEW l \in Layouts, NEW c \in 0..l.capacity - 1
  PROVE  /\ Chars(l, c) + 2 <= Chars(l, c + 1)
         /\ Spaces(l, c + 1) \in Seq({Gap})
         /\ c + 1 < l.capacity => Len(Spaces(l, c + 1)) = Chars(l, c + 1) - (Chars(l, c) + 2)
<1> DEFINE q == c \div l.group
           half == l.capacity \div 2
           more == (c + 1) % l.group = 0
           apart == l.group = 1 /\ c + 1 = half
           one == IF more THEN <<Gap>> ELSE <<>>
           two == IF apart THEN <<Gap, Gap>> ELSE <<>>
<1>1. c \in Nat /\ c < l.capacity /\ l.group \in Nat \ {0} /\ l.capacity \in Nat \ {0}
  BY LayoutFacts
<1>2. (c + 1) \div l.group = q + (IF more THEN 1 ELSE 0)
  BY <1>1, NextQuotient
<1>3. q \in Nat
  BY <1>1, ModFacts
<1>4. half \in Nat /\ (l.capacity > 1 => half >= 1) /\ (half >= 1 => l.capacity > 1)
  BY <1>1
<1>5. /\ one \in Seq({Gap}) /\ Len(one) = (IF more THEN 1 ELSE 0)
      /\ two \in Seq({Gap}) /\ Len(two) = (IF apart THEN 2 ELSE 0)
  <2>1. <<Gap>> \in Seq({Gap}) /\ <<Gap, Gap>> \in Seq({Gap}) /\ <<>> \in Seq({Gap})
    OBVIOUS
  <2>2. Len(<<Gap>>) = 1 /\ Len(<<Gap, Gap>>) = 2 /\ Len(<<>>) = 0
    OBVIOUS
  <2>3. one \in Seq({Gap}) /\ Len(one) = (IF more THEN 1 ELSE 0)
    <3>1. CASE more
      BY <2>1, <2>2, <3>1
    <3>2. CASE ~more
      BY <2>1, <2>2, <3>2
    <3> QED BY <3>1, <3>2
  <2>4. two \in Seq({Gap}) /\ Len(two) = (IF apart THEN 2 ELSE 0)
    <3>1. CASE apart
      BY <2>1, <2>2, <3>1
    <3>2. CASE ~apart
      BY <2>1, <2>2, <3>2
    <3> QED BY <3>1, <3>2
  <2> QED BY <2>3, <2>4
<1>6. Spaces(l, c + 1) = one \o two
  BY DEF Spaces
<1> HIDE DEF one, two
<1>7. /\ Spaces(l, c + 1) \in Seq({Gap})
      /\ Len(Spaces(l, c + 1)) = (IF more THEN 1 ELSE 0) + (IF apart THEN 2 ELSE 0)
  <2>1. Spaces(l, c + 1) \in Seq({Gap}) /\ Len(Spaces(l, c + 1)) = Len(one) + Len(two)
    <3>1. one \in Seq({Gap}) /\ two \in Seq({Gap})
      BY <1>5
    <3> QED BY <1>6, <3>1, ConcatProperties
  <2> HIDE DEF more, apart
  <2> QED BY <1>5, <2>1
<1> HIDE DEF q, half, more
<1>8. Chars(l, c) = 2 * c + q + (IF l.group = 1 /\ l.capacity > 1 /\ c >= half THEN 2 ELSE 0)
  BY DEF Chars, q, half
<1>9. Chars(l, c + 1) = 2 * (c + 1) + (q + (IF more THEN 1 ELSE 0))
                         + (IF l.group = 1 /\ l.capacity > 1 /\ c + 1 >= half THEN 2 ELSE 0)
  BY <1>2 DEF Chars, half
<1>10. Chars(l, c) + 2 <= Chars(l, c + 1)
  BY <1>1, <1>3, <1>4, <1>8, <1>9
<1>11. Chars(l, c + 1) - (Chars(l, c) + 2) = (IF more THEN 1 ELSE 0) + (IF apart THEN 2 ELSE 0)
  BY <1>1, <1>3, <1>4, <1>8, <1>9
<1> QED BY <1>7, <1>10, <1>11

\* The last column: its digits and the space behind them end the row.
LEMMA CharsEnd ==
  ASSUME NEW l \in Layouts
  PROVE  /\ Chars(l, l.capacity - 1) + 3 <= Chars(l, l.capacity)
         /\ Chars(l, l.capacity - 1) + 2 <= 3 * l.capacity + 1
         /\ ThirdLine(l) = ColumnAt(l, l.capacity)
<1> DEFINE n == l.capacity
           g == l.group
           c == n - 1
           q == c \div g
           E == ExtraWidth
           half == n \div 2
           groups == n \div g
<1>1. /\ n \in Nat \ {0} /\ g \in Nat \ {0} /\ n % g = 0 /\ c \in Nat /\ c + 1 = n
  BY LayoutFacts, ViewAssumption DEF Layouts
<1>2. half \in Nat /\ half <= n
  BY <1>1
<1> HIDE DEF c
<1>3. q \in Nat /\ q <= c
  <2>1. q \in Nat /\ c % g \in 0..g - 1 /\ c = g * q + (c % g)
    BY <1>1, ModFacts, DivMod
  <2> HIDE DEF q
  <2>2. q * 1 <= q * g
    BY <1>1, <2>1, MulMono
  <2>3. q * g = g * q /\ q * g \in Nat /\ q * 1 = q
    BY <1>1, <2>1
  <2> QED BY <1>1, <2>1, <2>2, <2>3
<1>4. groups = q + 1
  <2>1. (c + 1) \div g = q + (IF (c + 1) % g = 0 THEN 1 ELSE 0)
    BY <1>1, NextQuotient
  <2> QED BY <1>1, <2>1
<1>5. g * groups = n
  <2>1. n = g * groups + (n % g)
    BY <1>1, DivMod
  <2> HIDE DEF groups, g, n
  <2> QED BY <1>1, <1>3, <1>4, <2>1
<1>6. Chars(l, c) = 2 * c + q + (IF g = 1 /\ n > 1 /\ c >= half THEN 2 ELSE 0)
  BY DEF Chars
<1>7. Chars(l, n) = 2 * n + groups + (IF g = 1 /\ n > 1 /\ n >= half THEN 2 ELSE 0)
  BY DEF Chars
<1>8. /\ HexByte = 2 * E /\ E \in Nat \ {0} /\ FirstHex \in Nat /\ BetweenBlocks(l) \in Nat
      /\ ThirdLine(l) = FirstHex + (HexByte * g + E) * groups + BetweenBlocks(l)
  BY WidthFacts
<1>9. ColumnAt(l, n) = FirstHex + BetweenBlocks(l) + n * HexByte + groups * E
  BY <1>2 DEF ColumnAt
<1> HIDE DEF q, half, groups, n, g, E
<1>10. (HexByte * g + E) * groups = n * HexByte + groups * E
  <2>1. (2 * E * g + E) * groups = (g * groups) * (2 * E) + groups * E
    BY <1>1, <1>3, <1>4, <1>8
  <2> QED BY <1>5, <1>8, <2>1
<1>11. ThirdLine(l) = ColumnAt(l, n)
  <2> DEFINE x == n * HexByte
             y == groups * E
  <2>1. x \in Nat /\ y \in Nat
    BY <1>1, <1>3, <1>4, <1>8
  <2> HIDE DEF x, y
  <2>2. ThirdLine(l) = FirstHex + (x + y) + BetweenBlocks(l)
    BY <1>8, <1>10 DEF x, y
  <2>3. ColumnAt(l, n) = FirstHex + BetweenBlocks(l) + x + y
    BY <1>9 DEF x, y
  <2> QED BY <1>8, <2>1, <2>2, <2>3
<1>12. Chars(l, c) + 3 <= Chars(l, n)
  BY <1>1, <1>2, <1>3, <1>4, <1>6, <1>7
<1>13. Chars(l, c) + 2 <= 3 * n + 1
  BY <1>1, <1>2, <1>3, <1>6
<1> QED BY <1>11, <1>12, <1>13 DEF n, c

LEMMA ColumnsInOrder ==
  ASSUME NEW l \in Layouts, NEW d \in 0..l.capacity, NEW c \in 0..d
  PROVE  /\ ColumnAt(l, c) \in Nat /\ ColumnAt(l, d) \in Nat
         /\ ColumnAt(l, c) <= ColumnAt(l, d) /\ FirstHex <= ColumnAt(l, c)
<1> DEFINE E == ExtraWidth
           a == Chars(l, c)
           b == Chars(l, d)
<1>1. E \in Nat \ {0} /\ FirstHex \in Nat /\ l.capacity \in Nat \ {0}
  BY WidthFacts, LayoutFacts
<1>2. c \in 0..l.capacity
  BY <1>1
<1>3. /\ a \in Nat /\ ColumnAt(l, c) = FirstHex + a * E
      /\ b \in Nat /\ ColumnAt(l, d) = FirstHex + b * E
  BY <1>2, CharsFacts
<1>4. a <= b
  BY CharsInOrder
<1> HIDE DEF a, b, E
<1>5. E * a <= E * b
  BY <1>1, <1>3, <1>4, MulMono
<1>6. E * a = a * E /\ E * b = b * E /\ a * E \in Nat /\ b * E \in Nat
  BY <1>1, <1>3
<1> DEFINE x == a * E
           y == b * E
<1>7. x \in Nat /\ y \in Nat /\ x <= y /\ ColumnAt(l, c) = FirstHex + x /\ ColumnAt(l, d) = FirstHex + y
  BY <1>3, <1>5, <1>6
<1> HIDE DEF x, y
<1> QED BY <1>1, <1>7

\* HitTest's chunk of a column ends where the next column begins.
LEMMA ChunkEndIs ==
  ASSUME NEW l \in Layouts, NEW c \in 0..l.capacity - 1
  PROVE  ChunkEnd(l, c) = ColumnAt(l, c + 1)
<1> DEFINE x == HexByte * (c + 1)
           y == ((c + 1) \div l.group) * ExtraWidth
           between == BetweenBlocks(l)
           apart == c + 1 >= l.capacity \div 2
<1>1. /\ c \in Nat /\ l.group \in Nat \ {0} /\ FirstHex \in Nat /\ HexByte \in Nat
      /\ ExtraWidth \in Nat /\ between \in Nat
  BY WidthFacts, LayoutFacts
<1>2. x = (c + 1) * HexByte /\ x \in Nat
  BY <1>1
<1>3. y \in Nat
  <2>1. c + 1 \in Nat
    BY <1>1
  <2>2. (c + 1) \div l.group \in Nat
    BY <1>1, <2>1, ModFacts
  <2> DEFINE q == (c + 1) \div l.group
  <2> HIDE DEF q
  <2>3. q * ExtraWidth \in Nat
    BY <1>1, <2>2 DEF q
  <2> QED BY <2>3 DEF q
<1>4. l.group # 1 => between = 0
  BY DEF BetweenBlocks
<1>5. ChunkEnd(l, c) = FirstHex + x + y + (IF l.group = 1 /\ apart THEN between ELSE 0)
  BY DEF ChunkEnd
<1>6. ColumnAt(l, c + 1) = FirstHex + (IF apart THEN between ELSE 0) + (c + 1) * HexByte + y
  BY DEF ColumnAt
<1> HIDE DEF x, y, between, apart
<1>7. ColumnAt(l, c + 1) = FirstHex + (IF apart THEN between ELSE 0) + x + y
  BY <1>2, <1>6
<1> QED BY <1>1, <1>2, <1>3, <1>4, <1>5, <1>7

\* What is hit at a point of a column and a line.
LEMMA HexHit ==
  ASSUME NEW l \in Layouts, NEW v \in ViewRec, NEW size \in Nat, NEW c \in 0..l.capacity - 1,
         NEW x \in Int, ColumnAt(l, c) <= x + v.pos["H"], x + v.pos["H"] < ColumnAt(l, c + 1),
         NEW y, InWorkLines(l, v, y), NEW line \in Nat, LineAt(l, v, y) = line,
         line * l.capacity + c < size
  PROVE  HitTest(l, v, size, x, y) = {line * l.capacity + c}
<1> DEFINE at == x + v.pos["H"]
           cap == l.capacity
           columns == {e \in 0..cap - 1 : at < ChunkEnd(l, e) /\ \A d \in 0..e - 1 : at >= ChunkEnd(l, d)}
<1>1. cap \in Nat \ {0} /\ at \in Int /\ FirstHex \in Nat
  <2>1. v.pos["H"] \in Nat
    BY BarsAre DEF ViewRec
  <2> QED BY <2>1, LayoutFacts, WidthFacts
<1>2. \A e \in 0..cap - 1 : ChunkEnd(l, e) = ColumnAt(l, e + 1) /\ ColumnAt(l, e + 1) \in Nat
  <2>1. ASSUME NEW e \in 0..cap - 1 PROVE ColumnAt(l, e + 1) \in Nat
    <3>1. e + 1 \in 0..l.capacity /\ e \in 0..e + 1
      BY <1>1
    <3> QED BY <3>1, ColumnsInOrder
  <2> QED BY <2>1, ChunkEndIs
<1>3. FirstHex <= at /\ at < ThirdLine(l)
  <2>1. c \in 0..l.capacity /\ c \in 0..c /\ c + 1 \in 0..l.capacity /\ l.capacity \in 0..l.capacity
    BY <1>1
  <2>2. FirstHex <= ColumnAt(l, c) /\ ColumnAt(l, c) \in Nat
    BY <2>1, ColumnsInOrder
  <2>3. ColumnAt(l, c + 1) <= ColumnAt(l, l.capacity) /\ ColumnAt(l, c + 1) \in Nat /\ ColumnAt(l, l.capacity) \in Nat
    BY <2>1, ColumnsInOrder
  <2>4. ThirdLine(l) = ColumnAt(l, l.capacity)
    BY CharsEnd
  <2> QED BY <1>1, <2>2, <2>3, <2>4
<1>4. columns = {c}
  <2>1. c \in columns
    <3>1. at < ChunkEnd(l, c)
      BY <1>2
    <3>2. ASSUME NEW d \in 0..c - 1 PROVE at >= ChunkEnd(l, d)
      <4>1. d \in 0..cap - 1 /\ c \in 0..l.capacity /\ d + 1 \in 0..c
        BY <1>1
      <4>2. ColumnAt(l, d + 1) <= ColumnAt(l, c) /\ ColumnAt(l, d + 1) \in Nat /\ ColumnAt(l, c) \in Nat
        BY <4>1, ColumnsInOrder
      <4>3. ChunkEnd(l, d) = ColumnAt(l, d + 1)
        BY <1>2, <4>1
      <4> HIDE DEF at
      <4> QED BY <1>1, <4>2, <4>3 DEF at
    <3> QED BY <3>1, <3>2
  <2>2. ASSUME NEW e \in columns PROVE e = c
    <3>1. e \in 0..cap - 1 /\ at < ColumnAt(l, e + 1) /\ (\A d \in 0..e - 1 : at >= ChunkEnd(l, d))
      BY <1>2
    <3>2. ASSUME c < e PROVE FALSE
      <4>1. c \in 0..e - 1
        BY <1>1, <3>1, <3>2
      <4>2. at >= ChunkEnd(l, c) /\ ChunkEnd(l, c) = ColumnAt(l, c + 1) /\ ColumnAt(l, c + 1) \in Nat
        BY <1>2, <3>1, <4>1
      <4> QED BY <1>1, <4>2
    <3>3. ASSUME e < c PROVE FALSE
      <4>1. c \in 0..l.capacity /\ e + 1 \in 0..c
        BY <1>1, <3>1, <3>3
      <4>2. ColumnAt(l, e + 1) <= ColumnAt(l, c) /\ ColumnAt(l, e + 1) \in Nat /\ ColumnAt(l, c) \in Nat
        BY <4>1, ColumnsInOrder
      <4> QED BY <1>1, <3>1, <4>2
    <3> QED BY <1>1, <3>1, <3>2, <3>3
  <2> HIDE DEF columns
  <2> QED BY <2>1, <2>2
<1>5. HitTest(l, v, size, x, y) = {o \in {d + LineAt(l, v, y) * cap : d \in columns} : o < size}
  <2> HIDE DEF columns, at
  <2> QED BY <1>3 DEF HitTest, at, columns
<1> HIDE DEF columns
<1>6. {d + LineAt(l, v, y) * cap : d \in columns} = {c + line * cap}
  BY <1>4
<1>7. c + line * cap = line * cap + c
  <2>1. line * cap \in Nat
    BY <1>1
  <2> QED BY <1>1, <2>1
<1> QED BY <1>5, <1>6, <1>7

LEMMA TextHit ==
  ASSUME NEW l \in Layouts, NEW v \in ViewRec, NEW size \in Nat, NEW c \in 0..l.capacity - 1,
         NEW x \in Int, x + v.pos["H"] = IndentText(l) + c * ExtraWidth,
         NEW y, InWorkLines(l, v, y), NEW line \in Nat, LineAt(l, v, y) = line,
         line * l.capacity + c < size
  PROVE  HitTest(l, v, size, x, y) = {line * l.capacity + c}
<1> DEFINE at == x + v.pos["H"]
           cap == l.capacity
           E == ExtraWidth
           columns == {(at - IndentText(l)) \div E}
<1>1. cap \in Nat \ {0} /\ E \in Nat \ {0} /\ c \in Nat /\ c < cap /\ CharWidth \in Nat
  BY LayoutFacts, WidthFacts
<1>2. ThirdLine(l) \in Nat
  <2>1. cap \in 0..cap
    BY <1>1
  <2> QED BY <2>1, CharsEnd, ColumnsInOrder
<1>3. IndentText(l) \in Nat /\ ThirdLine(l) <= IndentText(l)
  BY <1>1, <1>2 DEF IndentText
<1> DEFINE b == c * E
<1>4. at = IndentText(l) + b
  OBVIOUS
<1>5. b \in Nat /\ b < E * cap
  <2>1. E * (c + 1) <= E * cap
    BY <1>1, MulMono
  <2>2. E * (c + 1) = b + E /\ b \in Nat /\ E * cap \in Nat
    BY <1>1
  <2> HIDE DEF b
  <2> QED BY <1>1, <2>1, <2>2
<1>6. b \div E = c
  <2>1. b = E * c + 0 /\ 0 \in 0..E - 1
    BY <1>1
  <2> HIDE DEF b, E
  <2> QED BY <1>1, <1>5, <2>1, QuotientIs
<1> HIDE DEF at, b
<1>7. at - IndentText(l) = b /\ at \in Int
  BY <1>3, <1>4, <1>5
<1>8. columns = {c}
  BY <1>6, <1>7
<1>9. ~(at < ThirdLine(l)) /\ at >= IndentText(l) /\ at < IndentText(l) + E * cap
  <2>1. E * cap \in Nat
    BY <1>1
  <2> QED BY <1>2, <1>3, <1>4, <1>5, <2>1
<1>10. HitTest(l, v, size, x, y) = {o \in {d + LineAt(l, v, y) * cap : d \in columns} : o < size}
  <2> HIDE DEF columns
  <2> QED BY <1>9 DEF HitTest, at, columns
<1>11. {d + LineAt(l, v, y) * cap : d \in columns} = {c + line * cap}
  BY <1>8
<1>12. c + line * cap = line * cap + c
  <2>1. line * cap \in Nat
    BY <1>1
  <2> QED BY <1>1, <2>1
<1> QED BY <1>10, <1>11, <1>12

\* The lines under the one on top, of a window that has room for one.
LEMMA LineYIs ==
  ASSUME NEW l \in Layouts, NEW v \in ViewRec, NEW n \in 0..Under(l, v), Room(l, v) > 0
  PROVE  /\ LineY(l, n) \in Int /\ EndWork(l, v) \in Int
         /\ StartY(l) \in Nat /\ StartY(l) <= LineY(l, n) /\ InWorkLines(l, v, LineY(l, n))
         /\ LineAt(l, v, LineY(l, n)) = TopLine(l, v) + n
         /\ LineY(l, n) < EndWork(l, v) => LineY(l, n) + l.cy <= EndWork(l, v)
         /\ EndWork(l, v) <= v.client["V"] - BottomOff(l)
<1> DEFINE cy == l.cy
           shown == Shown(l, v)
           start == StartY(l)
           room == Room(l, v)
           a == n * cy
           work == cy * shown
           top == TopLine(l, v)
<1>1. cy \in Nat \ {0} /\ Under(l, v) \in Nat /\ n \in Nat /\ n <= Under(l, v) /\ top \in Nat
  BY LayoutFacts, ShownFacts, TopLineFacts
<1>2. /\ shown \in Int /\ room \in Int /\ room > 0
      /\ WorkHeight(l, v) = work /\ work <= room /\ room < work + cy
  BY ShownFacts
<1>3. start \in Nat /\ BottomOff(l) \in Nat
  <2>1. 0 \in Nat
    OBVIOUS
  <2> QED BY <2>1, LimitFacts
<1>4. v.client["V"] \in Int
  BY BarsAre DEF ViewRec
<1>5. Under(l, v) = IF shown > 0 THEN shown - 1 ELSE 0
  BY DEF Under
<1>6. EndWork(l, v) = start + work /\ LineY(l, n) = start + a
  BY <1>2 DEF EndWork, LineY
<1>7. room = v.client["V"] - start - BottomOff(l)
  BY DEF Room
<1> HIDE DEF shown, start, room, work, top, cy, a
<1>8. work \in Int /\ a \in Nat
  BY <1>1, <1>2 DEF work, a
<1>9. shown >= 0 /\ work >= 0
  <2>1. ASSUME shown <= -1 PROVE FALSE
    <3>1. PICK m \in Nat : shown = -1 - m
      <4>1. -1 - shown \in Nat /\ shown = -1 - (-1 - shown)
        BY <1>2, <2>1
      <4> QED BY <4>1
    <3>2. work = -cy - cy * m /\ cy * m \in Nat
      BY <1>1, <3>1 DEF work
    <3> QED BY <1>1, <1>2, <1>8, <3>2
  <2>2. shown \in Nat
    BY <1>2, <2>1
  <2>3. work \in Nat
    BY <1>1, <2>2 DEF work
  <2> QED BY <2>2, <2>3
<1>10. a <= work /\ (a < work => a + cy <= work)
  <2>1. CASE shown = 0
    <3>1. n = 0
      BY <1>1, <1>5, <2>1
    <3>2. a = 0 /\ work = 0
      BY <1>1, <2>1, <3>1 DEF a, work
    <3> QED BY <3>2
  <2>2. CASE shown # 0
    <3>1. n + 1 <= shown /\ shown \in Nat
      BY <1>1, <1>2, <1>5, <1>9, <2>2
    <3>2. cy * (n + 1) <= cy * shown
      BY <1>1, <3>1, MulMono
    <3>3. cy * (n + 1) = a + cy
      BY <1>1 DEF a
    <3>4. a + cy <= work
      BY <3>2, <3>3 DEF work
    <3> QED BY <1>1, <1>8, <3>4
  <2> QED BY <2>1, <2>2
<1>11. a \div cy = n
  <2>1. a = cy * n + 0 /\ 0 \in 0..cy - 1
    BY <1>1 DEF a
  <2> QED BY <1>1, <1>8, <2>1, QuotientIs
<1>12. InWorkLines(l, v, LineY(l, n))
  BY <1>3, <1>6, <1>8, <1>10 DEF InWorkLines, start
<1>13. LineAt(l, v, LineY(l, n)) = top + n
  <2>1. LineY(l, n) - start = a
    BY <1>3, <1>6, <1>8
  <2>2. LineAt(l, v, LineY(l, n)) = n + top
    BY <1>11, <2>1 DEF LineAt, start, top, cy
  <2> QED BY <1>1, <2>2
<1>14. EndWork(l, v) <= v.client["V"] - BottomOff(l)
  BY <1>2, <1>3, <1>4, <1>6, <1>7, <1>8
<1> QED BY <1>1, <1>3, <1>6, <1>8, <1>10, <1>12, <1>13, <1>14 DEF start, top, cy

\* The lines the data has.
LEMMA LineBelow ==
  ASSUME NEW l \in Layouts, NEW size \in Nat \ {0}, NEW k \in Nat
  PROVE  k <= Lines(l, size) - 1 <=> k * l.capacity < size
<1> DEFINE c == l.capacity
           total == size \div c
           rest == size % c
<1>1. c \in Nat \ {0}
  BY LayoutFacts
<1>2. total \in Nat /\ rest \in Nat
  BY <1>1, ModFacts
<1>3. Lines(l, size) = total + (IF rest = 0 THEN 0 ELSE 1)
  BY DEF Lines
<1>4. k < total + (IF rest > 0 THEN 1 ELSE 0) <=> k * c < size
  BY <1>1, BelowDivUp
<1> HIDE DEF total, rest
<1> QED BY <1>2, <1>3, <1>4

\* The lines drawn are those of the data that are on top or under it.
LEMMA PaintedIff ==
  ASSUME ViewInv, dataSize > 0, NEW k \in Int
  PROVE  k \in PaintedLines(layout, view)
           <=> /\ TopLine(layout, view) <= k /\ k <= TopLine(layout, view) + Under(layout, view)
               /\ k * layout.capacity < dataSize
<1> DEFINE top == TopLine(layout, view)
           end == top + Under(layout, view)
           c == layout.capacity
           total == dataSize \div c
           last == Lines(layout, dataSize) - 1
           bottom == BottomLine(layout, view, dataSize)
<1>1. layout \in Layouts /\ view \in ViewRec /\ dataSize \in Nat \ {0} /\ c \in Nat \ {0}
  BY InvFacts
<1>2. top \in Nat /\ Under(layout, view) \in Nat
  BY <1>1, TopLineFacts, ShownFacts
<1>3. /\ Lines(layout, dataSize) \in Nat \ {0} /\ total \in Nat
      /\ last = total - (IF dataSize % c = 0 THEN 1 ELSE 0)
  <2>1. 0 \in 0..dataSize - 1
    BY <1>1
  <2> QED BY <1>1, <2>1, LineFacts
<1>4. bottom = IF end >= total THEN last ELSE end
  BY <1>3 DEF BottomLine, Under, Shown
<1>5. PaintedLines(layout, view) = top..bottom
  BY DEF PaintedLines
<1>6. k \in Nat => (k <= last <=> k * c < dataSize)
  BY <1>1, LineBelow
<1> HIDE DEF top, bottom, last, total, c
<1>7. end \in Nat /\ bottom \in Int
  BY <1>2, <1>3, <1>4
<1> HIDE DEF end
<1>8. k <= bottom <=> k <= end /\ k <= last
  BY <1>3, <1>4, <1>7
<1>9. k \in top..bottom <=> top <= k /\ k <= end /\ k <= last
  BY <1>2, <1>7, <1>8
<1>10. top <= k => k \in Nat
  BY <1>2
<1> QED BY <1>5, <1>6, <1>9, <1>10 DEF top, end, c

LEMMA PaintedFacts ==
  ASSUME ViewInv, dataSize > 0, HasRoom(layout, view), NEW line \in PaintedLines(layout, view)
  PROVE  LET n == line - TopLine(layout, view)
             y == LineY(layout, n)
         IN  /\ line \in Nat /\ line * layout.capacity \in Nat /\ line * layout.capacity < dataSize
             /\ TopLine(layout, view) \in Nat /\ TopLine(layout, view) <= line
             /\ n \in 0..Under(layout, view) /\ n \in Nat
             /\ y \in Int /\ EndWork(layout, view) \in Int /\ StartY(layout) \in Nat /\ StartY(layout) <= y
             /\ InWorkLines(layout, view, y) /\ LineAt(layout, view, y) = line
             /\ y < EndWork(layout, view) => y + layout.cy <= EndWork(layout, view)
             /\ EndWork(layout, view) <= view.client["V"] - BottomOff(layout)
<1> DEFINE top == TopLine(layout, view)
           n == line - top
<1>1. /\ layout \in Layouts /\ view \in ViewRec /\ dataSize \in Nat \ {0} /\ layout.capacity \in Nat \ {0}
      /\ top \in Nat /\ Under(layout, view) \in Nat
  BY InvFacts, TopLineFacts, ShownFacts
<1>2. line \in Int
  BY DEF PaintedLines
<1>3. top <= line /\ line <= top + Under(layout, view) /\ line * layout.capacity < dataSize
  BY <1>2, PaintedIff
<1>4. line \in Nat /\ n \in 0..Under(layout, view) /\ n \in Nat /\ top + n = line
  BY <1>1, <1>2, <1>3
<1>5. line * layout.capacity \in Nat
  BY <1>1, <1>4
<1>6. Room(layout, view) > 0
  <2>1. view.client["V"] \in Int
    BY <1>1, BarsAre DEF ViewRec
  <2>2. StartY(layout) \in Nat /\ BottomOff(layout) \in Nat
    <3>1. 0 \in Nat
      OBVIOUS
    <3> QED BY <1>1, <3>1, LimitFacts
  <2> QED BY <2>1, <2>2 DEF HasRoom, Room
<1> HIDE DEF n
<1>7. /\ LineY(layout, n) \in Int /\ EndWork(layout, view) \in Int
      /\ StartY(layout) \in Nat /\ StartY(layout) <= LineY(layout, n) /\ InWorkLines(layout, view, LineY(layout, n))
      /\ LineAt(layout, view, LineY(layout, n)) = top + n
      /\ LineY(layout, n) < EndWork(layout, view) => LineY(layout, n) + layout.cy <= EndWork(layout, view)
      /\ EndWork(layout, view) <= view.client["V"] - BottomOff(layout)
  BY <1>1, <1>4, <1>6, LineYIs
<1> QED BY <1>1, <1>3, <1>4, <1>5, <1>7 DEF n

-----------------------------------------------------------------------------
(* Painting: the strings of a layer                                        *)

Cells == {Gap} \cup [offset : Nat, high : BOOLEAN]

\* A character of the columns a to b of the row that begins with the offset
\* from, and the place among the row's characters where it is to stand.
CellAt(l, from, a, b, cell, q) ==
  \E c \in a..b :
    \/ cell = Gap /\ Chars(l, c) + 2 <= q /\ q < Chars(l, c + 1)
    \/ \E high \in BOOLEAN :
         cell = [offset |-> from + c, high |-> high] /\ q = Chars(l, c) + (IF high THEN 0 ELSE 1)

CellsAt(l, from, a, b, hex, p) ==
  \A k \in 1..Len(hex) : CellAt(l, from, a, b, hex[k], p + (k - 1))

\* One sequence behind another, at the place where that ends.
Behind(hex, p, more, q, all) == all = hex \o more /\ q = p + Len(hex)

LEMMA CellsMore ==
  ASSUME NEW l, NEW from, NEW a \in Nat, NEW b \in Int, NEW c \in Int, b <= c, NEW p \in Nat,
         NEW hex \in Seq(Cells), CellsAt(l, from, a, b, hex, p),
         NEW q, NEW more \in Seq(Cells), CellsAt(l, from, a, c, more, q),
         NEW all, Behind(hex, p, more, q, all)
  PROVE  /\ all \in Seq(Cells) /\ Len(all) = Len(hex) + Len(more)
         /\ CellsAt(l, from, a, c, all, p)
<1> DEFINE m == Len(more)
           n == Len(hex)
<1>0. all = hex \o more /\ q = p + n
  BY DEF Behind
<1>1. /\ all \in Seq(Cells) /\ Len(all) = n + m
      /\ \A k \in 1..n + m :
           all[k] = IF k <= n THEN hex[k] ELSE more[k - n]
  BY <1>0, ConcatProperties
<1>2. n \in Nat /\ m \in Nat
  BY LenProperties
<1>3. \A cell, r : CellAt(l, from, a, b, cell, r) => CellAt(l, from, a, c, cell, r)
  <2>1. \A e : e \in a..b => e \in a..c
    OBVIOUS
  <2> QED BY <2>1 DEF CellAt
<1>4. ASSUME NEW k \in 1..n + m PROVE CellAt(l, from, a, c, all[k], p + (k - 1))
  <2>1. CASE k <= n
    <3>1. k \in 1..n /\ all[k] = hex[k]
      BY <1>1, <1>2, <2>1
    <3>2. CellAt(l, from, a, b, hex[k], p + (k - 1))
      BY <3>1 DEF CellsAt
    <3> QED BY <1>3, <3>1, <3>2
  <2>2. CASE ~(k <= n)
    <3>1. k - n \in 1..m /\ all[k] = more[k - n]
      BY <1>1, <1>2, <2>2
    <3>2. CellAt(l, from, a, c, more[k - n], q + ((k - n) - 1))
      BY <3>1 DEF CellsAt
    <3>3. q + ((k - n) - 1) = p + (k - 1)
      BY <1>0, <1>2
    <3> QED BY <3>1, <3>2, <3>3
  <2> QED BY <2>1, <2>2
<1> HIDE DEF m, n
<1>5. CellsAt(l, from, a, c, all, p)
  BY <1>1, <1>4 DEF CellsAt
<1> QED BY <1>1, <1>5 DEF m, n

LEMMA GapsAre ==
  ASSUME NEW gaps \in Seq({Gap})
  PROVE  gaps \in Seq(Cells) /\ \A k \in 1..Len(gaps) : gaps[k] = Gap
<1>1. \A k \in 1..Len(gaps) : gaps[k] \in {Gap}
  BY ElementOfSeq
<1>2. Len(gaps) \in Nat /\ gaps \in [1..Len(gaps) -> {Gap}]
  BY LenProperties
<1>3. gaps \in [1..Len(gaps) -> Cells]
  BY <1>2 DEF Cells
<1>4. gaps \in Seq(Cells)
  BY <1>2, <1>3
<1> QED BY <1>1, <1>4

\* The spaces behind a column, and its digits.
LEMMA SpacesStand ==
  ASSUME NEW l \in Layouts, NEW from, NEW c \in 0..l.capacity - 2, NEW a \in 0..c
  PROVE  /\ Spaces(l, c + 1) \in Seq(Cells)
         /\ CellsAt(l, from, a, c, Spaces(l, c + 1), Chars(l, c) + 2)
         /\ Chars(l, c) + 2 + Len(Spaces(l, c + 1)) = Chars(l, c + 1)
<1> DEFINE gaps == Spaces(l, c + 1)
           p == Chars(l, c) + 2
           n == Len(gaps)
<1>1. l.capacity \in Nat \ {0}
  BY LayoutFacts
<1>2. c \in 0..l.capacity - 1 /\ c + 1 < l.capacity /\ c \in 0..l.capacity /\ c + 1 \in 0..l.capacity /\ c \in a..c
  BY <1>1
<1>3. gaps \in Seq({Gap}) /\ n = Chars(l, c + 1) - p
  BY <1>2, CharsNext
<1>4. Chars(l, c) \in Nat /\ Chars(l, c + 1) \in Nat
  BY <1>2, CharsFacts
<1>5. gaps \in Seq(Cells) /\ \A k \in 1..n : gaps[k] = Gap
  BY <1>3, GapsAre
<1>6. p + n = Chars(l, c + 1)
  BY <1>3, <1>4
<1> HIDE DEF n, gaps
<1>7. ASSUME NEW k \in 1..n PROVE CellAt(l, from, a, c, gaps[k], p + (k - 1))
  <2>1. n \in Int
    BY <1>3, <1>4
  <2>2. p <= p + (k - 1) /\ p + (k - 1) < Chars(l, c + 1)
    BY <1>3, <1>4, <2>1
  <2> QED BY <1>2, <1>5, <2>2 DEF CellAt
<1> QED BY <1>5, <1>6, <1>7 DEF CellsAt, gaps, n

LEMMA DigitsStand ==
  ASSUME NEW l \in Layouts, NEW from \in Nat, NEW c \in 0..l.capacity - 1, NEW a \in 0..c
  PROVE  /\ Digits2(from + c) \in Seq(Cells) /\ Len(Digits2(from + c)) = 2
         /\ CellsAt(l, from, a, c, Digits2(from + c), Chars(l, c))
<1> DEFINE up == TRUE
           down == FALSE
           one == [offset |-> from + c, high |-> up]
           two == [offset |-> from + c, high |-> down]
           p == Chars(l, c)
<1>1. l.capacity \in Nat \ {0}
  BY LayoutFacts
<1>2. c \in 0..l.capacity /\ c \in a..c
  BY <1>1
<1>3. p \in Nat
  BY <1>2, CharsFacts
<1>4. one \in Cells /\ two \in Cells
  BY DEF Cells
<1>5. Digits2(from + c) = <<one, two>>
  BY DEF Digits2
<1> HIDE DEF one, two, p
<1>6. <<one, two>> \in Seq(Cells) /\ Len(<<one, two>>) = 2 /\ <<one, two>>[1] = one /\ <<one, two>>[2] = two
  BY <1>4
<1>7. CellAt(l, from, a, c, one, p + 0)
  <2>1. one = [offset |-> from + c, high |-> up] /\ p + 0 = p + (IF up THEN 0 ELSE 1)
    BY DEF one
  <2>2. up \in BOOLEAN
    OBVIOUS
  <2> HIDE DEF up
  <2> QED BY <1>2, <2>1, <2>2 DEF CellAt, p
<1>8. CellAt(l, from, a, c, two, p + 1)
  <2>1. two = [offset |-> from + c, high |-> down] /\ p + 1 = p + (IF down THEN 0 ELSE 1)
    BY DEF two
  <2>2. down \in BOOLEAN
    OBVIOUS
  <2> HIDE DEF down
  <2> QED BY <1>2, <2>1, <2>2 DEF CellAt, p
<1>9. CellsAt(l, from, a, c, <<one, two>>, p)
  <2>1. \A k \in 1..2 : CellAt(l, from, a, c, <<one, two>>[k], p + (k - 1))
    <3>1. ASSUME NEW k \in 1..2 PROVE CellAt(l, from, a, c, <<one, two>>[k], p + (k - 1))
      <4>1. k = 1 \/ k = 2
        OBVIOUS
      <4>2. CASE k = 1
        <5>1. <<one, two>>[k] = one /\ p + (k - 1) = p + 0
          BY <1>6, <4>2
        <5> QED BY <1>7, <5>1
      <4>3. CASE k = 2
        <5>1. <<one, two>>[k] = two /\ p + (k - 1) = p + 1
          BY <1>6, <4>3
        <5> QED BY <1>8, <5>1
      <4> QED BY <4>1, <4>2, <4>3
    <3> QED BY <3>1
  <2> QED BY <1>6, <2>1, Zenon DEF CellsAt
<1> QED BY <1>5, <1>6, <1>9 DEF p

\* A string of t bytes of one item, from the column a on.
StringAt(l, layer, from, r, a, t) ==
  /\ r.from = from + a /\ Len(r.text) = t /\ t >= 1 /\ a + t <= l.capacity
  /\ r.item # NoItem
  /\ \A k \in 1..t : r.text[k] = from + a + (k - 1) /\ layer[from + a + (k - 1)] = r.item
  /\ CellsAt(l, from, a, a + t - 1, r.hex, Chars(l, a))
  /\ Chars(l, a) + Len(r.hex) <= Chars(l, l.capacity - 1) + 2

\* It ends with the digits of the column before m.
EndsAt(l, r, a, t, m) == a + t = m /\ Chars(l, a) + Len(r.hex) = Chars(l, m - 1) + 2

Strings(S) == [item : S, from : Nat, hex : Seq(Cells), text : Seq(Nat)]

Begun(layer, o, r) == r = [item |-> layer[o], from |-> o, hex |-> Digits2(o), text |-> <<o>>]
WentOn(l, r, m, o, s) ==
  s = [item |-> r.item, from |-> r.from,
       hex |-> (r.hex \o Spaces(l, m)) \o Digits2(o), text |-> Append(r.text, o)]
EndedBy(r, gaps, s) ==
  s = [item |-> r.item, from |-> r.from, hex |-> r.hex \o gaps, text |-> r.text]

\* A string begins with a byte's digits.
LEMMA StringBegins ==
  ASSUME NEW l \in Layouts, NEW from \in Nat, NEW S, NEW layer, NEW m \in 0..l.capacity - 1,
         layer[from + m] \in S, layer[from + m] # NoItem,
         NEW r, Begun(layer, from + m, r)
  PROVE  /\ r \in Strings(S) /\ r.text = <<from + m>>
         /\ StringAt(l, layer, from, r, m, 1) /\ EndsAt(l, r, m, 1, m + 1)
<1> DEFINE o == from + m
           last == l.capacity - 1
           item == layer[o]
           text == <<o>>
           hex == Digits2(o)
<1>1. /\ o \in Nat /\ last \in Nat /\ m \in 0..last /\ last \in 0..l.capacity /\ m \in 0..l.capacity
      /\ m \in Nat /\ m \in 0..m
  BY LayoutFacts
<1>2. m + 1 - 1 = m /\ from + m + (1 - 1) = o /\ m + 1 <= l.capacity
  <2>1. l.capacity \in Int
    BY LayoutFacts
  <2> QED BY <1>1, <2>1
<1>3. hex \in Seq(Cells) /\ Len(hex) = 2 /\ CellsAt(l, from, m, m, hex, Chars(l, m))
  BY <1>1, DigitsStand
<1>4. Chars(l, m) <= Chars(l, last) /\ Chars(l, m) \in Nat /\ Chars(l, last) \in Nat
  BY <1>1, CharsInOrder, CharsFacts
<1>5. text \in Seq(Nat) /\ Len(text) = 1 /\ text[1] = o
  BY <1>1
<1>6. r = [item |-> item, from |-> o, hex |-> hex, text |-> text] /\ item \in S /\ item # NoItem
  BY DEF Begun
<1> HIDE DEF last, item, text, hex
<1>7. r.item = item /\ r.from = o /\ r.hex = hex /\ r.text = text
  BY <1>6
<1>8. r \in Strings(S)
  BY <1>1, <1>3, <1>5, <1>6 DEF Strings
<1>9. ASSUME NEW k \in 1..1 PROVE r.text[k] = from + m + (k - 1) /\ layer[from + m + (k - 1)] = r.item
  <2>1. k = 1
    OBVIOUS
  <2>2. from + m + (k - 1) = o
    BY <1>2, <2>1
  <2>3. r.text[k] = o
    BY <1>5, <1>7, <2>1
  <2>4. layer[o] = r.item
    BY <1>7 DEF item
  <2> HIDE DEF o
  <2> QED BY <2>2, <2>3, <2>4
<1>10. CellsAt(l, from, m, m + 1 - 1, r.hex, Chars(l, m))
  BY <1>2, <1>3, <1>7
<1>11. Len(r.hex) = 2 /\ Len(r.text) = 1
  BY <1>3, <1>5, <1>7
<1>12. Chars(l, m) + Len(r.hex) <= Chars(l, last) + 2 /\ Chars(l, m) + Len(r.hex) = Chars(l, m + 1 - 1) + 2
  BY <1>2, <1>4, <1>11
<1>13. StringAt(l, layer, from, r, m, 1)
  BY <1>2, <1>6, <1>7, <1>9, <1>10, <1>11, <1>12 DEF StringAt, last
<1>14. EndsAt(l, r, m, 1, m + 1)
  BY <1>12 DEF EndsAt
<1> QED BY <1>7, <1>8, <1>13, <1>14 DEF text

\* It goes on with the next byte, if that is of the same item.
LEMMA StringGoesOn ==
  ASSUME NEW l \in Layouts, NEW from \in Nat, NEW S, NEW layer, NEW m \in 0..l.capacity - 1,
         NEW r \in Strings(S), NEW a \in Nat, NEW t \in Nat,
         StringAt(l, layer, from, r, a, t), EndsAt(l, r, a, t, m), layer[from + m] = r.item,
         NEW s, WentOn(l, r, m, from + m, s)
  PROVE  /\ s \in Strings(S) /\ s.text = Append(r.text, from + m)
         /\ StringAt(l, layer, from, s, a, t + 1) /\ EndsAt(l, s, a, t + 1, m + 1)
<1> DEFINE o == from + m
           cap == l.capacity
           last == cap - 1
           b == m - 1
           p == Chars(l, a)
           old == r.hex
           gaps == Spaces(l, m)
           hex == old \o gaps
           digits == Digits2(o)
           all == hex \o digits
           text == Append(r.text, o)
           n == Len(old)
           item == r.item
<1>1. old \in Seq(Cells) /\ r.text \in Seq(Nat) /\ r.from \in Nat /\ item \in S
  BY DEF Strings
<1>2. /\ r.from = from + a /\ Len(r.text) = t /\ t >= 1 /\ item # NoItem
      /\ \A k \in 1..t : r.text[k] = from + a + (k - 1) /\ layer[from + a + (k - 1)] = item
      /\ CellsAt(l, from, a, a + t - 1, old, p)
      /\ a + t = m /\ p + n = Chars(l, b) + 2
  BY DEF StringAt, EndsAt
<1>3. cap \in Nat \ {0}
  BY LayoutFacts
<1>4. n \in Nat
  BY <1>1
<1>5. s = [item |-> item, from |-> r.from, hex |-> all, text |-> text]
  BY DEF WentOn
<1>6. layer[o] = item
  OBVIOUS
<1> HIDE DEF old, gaps, hex, digits, all, text, n, item
<1>7. /\ o \in Nat /\ last \in Nat /\ m \in Nat /\ m \in 1..last /\ b \in 0..l.capacity - 2 /\ a \in 0..b
      /\ b + 1 = m /\ b <= b /\ b <= m /\ b \in Int /\ a + t - 1 = b
      /\ a \in 0..l.capacity /\ m \in 0..l.capacity /\ last \in 0..l.capacity /\ m \in 0..last /\ a \in 0..m
  BY <1>2, <1>3
<1> HIDE DEF p, b, o, last
<1>8. p \in Nat /\ Chars(l, m) \in Nat /\ Chars(l, last) \in Nat /\ Chars(l, m) <= Chars(l, last)
  BY <1>7, CharsFacts, CharsInOrder DEF p
<1>9. gaps \in Seq(Cells) /\ CellsAt(l, from, a, b, gaps, Chars(l, b) + 2) /\ Chars(l, b) + 2 + Len(gaps) = Chars(l, m)
  <2>1. /\ Spaces(l, b + 1) \in Seq(Cells) /\ CellsAt(l, from, a, b, Spaces(l, b + 1), Chars(l, b) + 2)
        /\ Chars(l, b) + 2 + Len(Spaces(l, b + 1)) = Chars(l, b + 1)
    BY <1>7, SpacesStand
  <2> QED BY <1>7, <2>1 DEF gaps
<1>10. digits \in Seq(Cells) /\ CellsAt(l, from, a, m, digits, Chars(l, m))
  BY <1>7, DigitsStand DEF digits, o
<1>11. Len(digits) = 2
  BY <1>7, DigitsStand DEF digits, o
<1>12. CellsAt(l, from, a, b, old, p)
  BY <1>2, <1>7
<1> DEFINE q == p + n
           h == Len(hex)
           e == p + h
<1>13. CellsAt(l, from, a, b, gaps, q)
  BY <1>2, <1>9
<1>14. hex \in Seq(Cells) /\ h = n + Len(gaps) /\ CellsAt(l, from, a, b, hex, p)
  <2> HIDE DEF q
  <2>1. Behind(old, p, gaps, q, hex)
    BY DEF Behind, n, hex, q
  <2>2. hex \in Seq(Cells) /\ Len(hex) = Len(old) + Len(gaps) /\ CellsAt(l, from, a, b, hex, p)
    BY <1>1, <1>7, <1>8, <1>9, <1>12, <1>13, <2>1, CellsMore
  <2> QED BY <2>2 DEF n
<1>15. h \in Nat
  BY <1>14
<1>16. e = Chars(l, m)
  <2>1. Len(gaps) \in Nat
    BY <1>9
  <2> HIDE DEF h
  <2> QED BY <1>2, <1>4, <1>8, <1>9, <1>14, <2>1
<1>17. CellsAt(l, from, a, m, digits, e)
  BY <1>10, <1>16
<1>18. all \in Seq(Cells) /\ Len(all) = h + 2 /\ CellsAt(l, from, a, m, all, p)
  <2> HIDE DEF e, h
  <2>1. Behind(hex, p, digits, e, all)
    BY DEF Behind, h, all, e
  <2>2. m \in Int
    BY <1>7
  <2>3. all \in Seq(Cells) /\ Len(all) = Len(hex) + Len(digits) /\ CellsAt(l, from, a, m, all, p)
    BY <1>7, <1>8, <1>10, <1>14, <1>17, <2>1, <2>2, CellsMore
  <2> QED BY <1>11, <2>3 DEF h
<1>19. /\ text \in Seq(Nat) /\ Len(text) = t + 1 /\ text[t + 1] = o
       /\ \A k \in 1..t : text[k] = r.text[k]
  <2> DEFINE given == r.text
  <2>1. given \in Seq(Nat) /\ Len(given) = t /\ o \in Nat
    BY <1>1, <1>2, <1>7
  <2> HIDE DEF given
  <2>2. /\ Append(given, o) \in Seq(Nat) /\ Len(Append(given, o)) = t + 1 /\ Append(given, o)[t + 1] = o
        /\ \A k \in 1..t : Append(given, o)[k] = given[k]
    BY <2>1, AppendProperties
  <2> QED BY <2>2 DEF given, text
<1>20. s.item = item /\ s.from = r.from /\ s.hex = all /\ s.text = text
  BY <1>5
<1>21. s \in Strings(S)
  BY <1>1, <1>5, <1>18, <1>19 DEF Strings
<1>22. a + (t + 1) = m + 1 /\ a + (t + 1) - 1 = m /\ m + 1 - 1 = m /\ a + (t + 1) <= cap /\ from + a + (t + 1 - 1) = o
  BY <1>2, <1>3, <1>7 DEF o, last
<1>23. ASSUME NEW k \in 1..t + 1
       PROVE  s.text[k] = from + a + (k - 1) /\ layer[from + a + (k - 1)] = s.item
  <2>1. CASE k = t + 1
    <3>1. from + a + (k - 1) = o
      BY <1>22, <2>1
    <3> QED BY <1>6, <1>19, <1>20, <2>1, <3>1
  <2>2. CASE k # t + 1
    <3>1. k \in 1..t
      BY <2>2
    <3> QED BY <1>2, <1>19, <1>20, <3>1
  <2> QED BY <2>1, <2>2
<1>24. p + Len(s.hex) = Chars(l, m) + 2
  <2> HIDE DEF h
  <2> QED BY <1>8, <1>15, <1>16, <1>18, <1>20
<1>25. CellsAt(l, from, a, a + (t + 1) - 1, s.hex, Chars(l, a))
  BY <1>18, <1>20, <1>22 DEF p
<1>26. p + Len(s.hex) <= Chars(l, last) + 2
  BY <1>8, <1>24
<1>27. s.from = from + a /\ Len(s.text) = t + 1 /\ t + 1 >= 1 /\ s.item # NoItem
  BY <1>2, <1>19, <1>20
<1>28. StringAt(l, layer, from, s, a, t + 1)
  BY <1>22, <1>23, <1>25, <1>26, <1>27 DEF StringAt, p, last
<1>29. EndsAt(l, s, a, t + 1, m + 1)
  BY <1>22, <1>24 DEF EndsAt, p
<1> QED BY <1>20, <1>21, <1>28, <1>29 DEF text, o

\* It ends, with the spaces before the column it ends at, or with none.
LEMMA StringEnds ==
  ASSUME NEW l \in Layouts, NEW from \in Nat, NEW S, NEW layer, NEW m \in 0..l.capacity,
         NEW r \in Strings(S), NEW a \in Nat, NEW t \in Nat,
         StringAt(l, layer, from, r, a, t), EndsAt(l, r, a, t, m),
         NEW gaps, gaps = <<>> \/ (m < l.capacity /\ gaps = Spaces(l, m)),
         NEW s, EndedBy(r, gaps, s)
  PROVE  s \in Strings(S) /\ s.text = r.text /\ StringAt(l, layer, from, s, a, t)
<1> DEFINE cap == l.capacity
           last == cap - 1
           b == m - 1
           p == Chars(l, a)
           old == r.hex
           hex == old \o gaps
           text == r.text
           n == Len(old)
           item == r.item
<1>1. old \in Seq(Cells) /\ text \in Seq(Nat) /\ r.from \in Nat /\ item \in S
  BY DEF Strings
<1>2. /\ r.from = from + a /\ Len(text) = t /\ t >= 1 /\ item # NoItem /\ a + t <= cap
      /\ \A k \in 1..t : text[k] = from + a + (k - 1) /\ layer[from + a + (k - 1)] = item
      /\ CellsAt(l, from, a, a + t - 1, old, p)
      /\ a + t = m /\ p + n = Chars(l, b) + 2 /\ p + n <= Chars(l, last) + 2
  BY DEF StringAt, EndsAt
<1>3. cap \in Nat \ {0}
  BY LayoutFacts
<1>4. n \in Nat
  BY <1>1
<1>5. s = [item |-> item, from |-> r.from, hex |-> hex, text |-> text]
  BY DEF EndedBy
<1> HIDE DEF old, hex, text, n, item
<1>6. /\ last \in Nat /\ m \in Nat /\ b \in Int /\ b <= b /\ a + t - 1 = b /\ a \in 0..b /\ b + 1 = m
      /\ a \in 0..l.capacity
  BY <1>2, <1>3
<1> HIDE DEF p, b, last
<1>7. CellsAt(l, from, a, b, old, p)
  BY <1>2, <1>6
<1>8. hex \in Seq(Cells) /\ CellsAt(l, from, a, b, hex, p) /\ p + Len(hex) <= Chars(l, last) + 2
  <2>1. CASE gaps = <<>>
    <3>1. hex = old
      BY <1>1, <2>1 DEF hex
    <3> QED BY <1>1, <1>2, <1>7, <3>1 DEF n
  <2>2. CASE m < l.capacity /\ gaps = Spaces(l, m)
    <3>1. /\ b \in 0..l.capacity - 2 /\ m \in 0..l.capacity /\ last \in 0..l.capacity /\ m \in 0..last
      BY <1>3, <1>6, <2>2 DEF last
    <3>2. p \in Nat /\ Chars(l, m) \in Nat /\ Chars(l, last) \in Nat /\ Chars(l, m) <= Chars(l, last)
      BY <1>6, <3>1, CharsFacts, CharsInOrder DEF p
    <3>3. gaps \in Seq(Cells) /\ CellsAt(l, from, a, b, gaps, Chars(l, b) + 2) /\ Chars(l, b) + 2 + Len(gaps) = Chars(l, m)
      <4>1. /\ Spaces(l, b + 1) \in Seq(Cells) /\ CellsAt(l, from, a, b, Spaces(l, b + 1), Chars(l, b) + 2)
            /\ Chars(l, b) + 2 + Len(Spaces(l, b + 1)) = Chars(l, b + 1)
        BY <1>6, <3>1, SpacesStand
      <4> QED BY <1>6, <2>2, <4>1
    <3> DEFINE q == p + n
    <3>4. CellsAt(l, from, a, b, gaps, q)
      BY <1>2, <3>3
    <3>5. hex \in Seq(Cells) /\ Len(hex) = n + Len(gaps) /\ CellsAt(l, from, a, b, hex, p)
      <4> HIDE DEF q
      <4>1. Behind(old, p, gaps, q, hex)
        BY DEF Behind, n, hex, q
      <4>2. hex \in Seq(Cells) /\ Len(hex) = Len(old) + Len(gaps) /\ CellsAt(l, from, a, b, hex, p)
        BY <1>1, <1>6, <1>7, <3>2, <3>3, <3>4, <4>1, CellsMore
      <4> QED BY <4>2 DEF n
    <3>6. Len(gaps) \in Nat
      BY <3>3
    <3>7. p + Len(hex) = Chars(l, m)
      BY <1>2, <1>4, <3>2, <3>3, <3>5, <3>6
    <3> QED BY <3>2, <3>5, <3>7
  <2> QED BY <2>1, <2>2
<1>9. s.item = item /\ s.from = r.from /\ s.hex = hex /\ s.text = text
  BY <1>5
<1>10. s \in Strings(S)
  BY <1>1, <1>5, <1>8 DEF Strings
<1>11. CellsAt(l, from, a, a + t - 1, s.hex, p)
  BY <1>6, <1>8, <1>9
<1>12. p + Len(s.hex) <= Chars(l, last) + 2
  BY <1>8, <1>9
<1>13. StringAt(l, layer, from, s, a, t)
  BY <1>2, <1>9, <1>11, <1>12 DEF StringAt, p, last
<1> QED BY <1>9, <1>10, <1>13 DEF text

StringOf(l, layer, from, r) == \E a, t \in Nat : StringAt(l, layer, from, r, a, t)
OpenAt(l, layer, from, r, m) ==
  \E a, t \in Nat : StringAt(l, layer, from, r, a, t) /\ EndsAt(l, r, a, t, m)

InText(r, o) == \E k \in 1..Len(r.text) : r.text[k] = o
InDone(done, o) == \E i \in 1..Len(done) : InText(done[i], o)
InRun(run, o) == run # NoRun /\ InText(run, o)
OfLine(layer, from, m, o) == \E c \in 0..m - 1 : o = from + c /\ layer[o] # NoItem

DoneOK(l, layer, S, from, done) ==
  done \in Seq(Strings(S)) /\ \A i \in 1..Len(done) : StringOf(l, layer, from, done[i])
RunOK(l, layer, S, from, run, m) ==
  run = NoRun \/ (run \in Strings(S) /\ OpenAt(l, layer, from, run, m))

\* What is drawn of the first m bytes of a line, and what is yet to be.
LineInv(l, layer, S, from, s, m) ==
  /\ s = [done |-> s.done, run |-> s.run]
  /\ DoneOK(l, layer, S, from, s.done)
  /\ RunOK(l, layer, S, from, s.run, m)
  /\ \A o : InDone(s.done, o) \/ InRun(s.run, o) <=> OfLine(layer, from, m, o)

LEMMA MoreDone ==
  ASSUME NEW l, NEW layer, NEW S, NEW from, NEW done, DoneOK(l, layer, S, from, done),
         NEW r \in Strings(S), StringOf(l, layer, from, r),
         NEW new, new = Append(done, r)
  PROVE  /\ DoneOK(l, layer, S, from, new)
         /\ \A o : InDone(new, o) <=> InDone(done, o) \/ InText(r, o)
<1> DEFINE n == Len(done)
           T == Strings(S)
<1>1. done \in Seq(T) /\ n \in Nat /\ \A i \in 1..n : StringOf(l, layer, from, done[i])
  BY DEF DoneOK
<1> HIDE DEF T, n
<1>2. r \in T
  BY DEF T
<1>3. /\ new \in Seq(T) /\ Len(new) = n + 1 /\ new[n + 1] = r
      /\ \A i \in 1..n : new[i] = done[i]
  BY <1>1, <1>2, AppendProperties DEF n
<1>4. \A i \in 1..n + 1 : i \in 1..n \/ i = n + 1
  BY <1>1
<1>5. (\A i \in 1..n : i \in 1..n + 1) /\ n + 1 \in 1..n + 1
  BY <1>1
<1>6. \A i \in 1..n + 1 : StringOf(l, layer, from, new[i])
  BY <1>1, <1>3, <1>4
<1>7. ASSUME NEW o PROVE InDone(new, o) <=> InDone(done, o) \/ InText(r, o)
  <2>1. InDone(new, o) <=> \E i \in 1..n + 1 : InText(new[i], o)
    BY <1>3 DEF InDone
  <2>2. InDone(done, o) <=> \E i \in 1..n : InText(done[i], o)
    BY DEF InDone, n
  <2> QED BY <1>3, <1>4, <1>5, <2>1, <2>2
<1>8. DoneOK(l, layer, S, from, new)
  BY <1>3, <1>6 DEF DoneOK, T
<1> QED BY <1>7, <1>8

\* A string with other characters.
Changes(r, hex, text) ==
  /\ [r EXCEPT !.hex = hex] = [item |-> r.item, from |-> r.from, hex |-> hex, text |-> r.text]
  /\ [[r EXCEPT !.hex = hex] EXCEPT !.text = text]
       = [item |-> r.item, from |-> r.from, hex |-> hex, text |-> text]

LEMMA StringIs ==
  ASSUME NEW S, NEW r \in Strings(S), NEW hex, NEW text
  PROVE  Changes(r, hex, text)
<1> DEFINE A == S
           B == Nat
           C == Seq(Cells)
           D == Seq(Nat)
           new == [r EXCEPT !.hex = hex]
<1>0. r \in [item : A, from : B, hex : C, text : D]
  BY DEF Strings
<1> HIDE DEF A, B, C, D
<1>1. new = [item |-> r.item, from |-> r.from, hex |-> hex, text |-> r.text]
  BY <1>0
<1> HIDE DEF new
<1>2. new.item = r.item /\ new.from = r.from /\ new.hex = hex
  BY <1>1
<1>3. new \in [item : A, from : B, hex : {hex}, text : D]
  BY <1>0, <1>1
<1>4. [new EXCEPT !.text = text] = [item |-> new.item, from |-> new.from, hex |-> new.hex, text |-> text]
  BY <1>3
<1>5. [new EXCEPT !.text = text] = [item |-> r.item, from |-> r.from, hex |-> hex, text |-> text]
  BY <1>2, <1>4
<1> QED BY <1>1, <1>5 DEF new, Changes

\* The open string ends.
LEMMA EndedIs ==
  ASSUME NEW l \in Layouts, NEW from \in Nat, NEW S, NEW layer, NEW m \in 0..l.capacity,
         NEW s, LineInv(l, layer, S, from, s, m),
         NEW gaps, gaps = <<>> \/ (m < l.capacity /\ gaps = Spaces(l, m))
  PROVE  /\ DoneOK(l, layer, S, from, Ended(s, gaps))
         /\ \A o : InDone(Ended(s, gaps), o) <=> OfLine(layer, from, m, o)
<1> DEFINE run == s.run
           done == s.done
<1>1. /\ DoneOK(l, layer, S, from, done) /\ RunOK(l, layer, S, from, run, m)
      /\ \A o : InDone(done, o) \/ InRun(run, o) <=> OfLine(layer, from, m, o)
  BY DEF LineInv
<1>2. CASE run = NoRun
  <2>1. Ended(s, gaps) = done
    BY <1>2 DEF Ended
  <2>2. \A o : ~InRun(run, o)
    BY <1>2 DEF InRun
  <2> QED BY <1>1, <2>1, <2>2
<1>3. CASE run # NoRun
  <2>1. run \in Strings(S) /\ OpenAt(l, layer, from, run, m)
    BY <1>1, <1>3 DEF RunOK
  <2>2. PICK a \in Nat, t \in Nat : StringAt(l, layer, from, run, a, t) /\ EndsAt(l, run, a, t, m)
    BY <2>1 DEF OpenAt
  <2> DEFINE r == [run EXCEPT !.hex = @ \o gaps]
             new == Append(done, r)
  <2>3. Ended(s, gaps) = new
    BY <1>3 DEF Ended
  <2>4. EndedBy(run, gaps, r)
    <3> HIDE DEF run
    <3> DEFINE hex == run.hex \o gaps
    <3>1. Changes(run, hex, run.text)
      BY <2>1, StringIs
    <3>2. [run EXCEPT !.hex = hex] = [item |-> run.item, from |-> run.from, hex |-> hex, text |-> run.text]
      BY <3>1 DEF Changes
    <3> QED BY <3>2 DEF EndedBy
  <2> HIDE DEF run, r, done, new
  <2>5. r \in Strings(S) /\ r.text = run.text /\ StringAt(l, layer, from, r, a, t)
    BY <2>1, <2>2, <2>4, StringEnds
  <2>6. StringOf(l, layer, from, r)
    BY <2>5 DEF StringOf
  <2>7. new = Append(done, r)
    BY DEF new
  <2>8. /\ DoneOK(l, layer, S, from, new)
        /\ \A o : InDone(new, o) <=> InDone(done, o) \/ InText(r, o)
    BY <1>1, <2>5, <2>6, <2>7, MoreDone
  <2>9. \A o : InText(r, o) <=> InRun(run, o)
    BY <1>3, <2>5 DEF InText, InRun
  <2> QED BY <1>1, <2>3, <2>8, <2>9
<1> QED BY <1>2, <1>3

LEMMA NextOfLine ==
  ASSUME NEW from \in Nat, NEW layer, NEW m \in Nat, NEW o
  PROVE  OfLine(layer, from, m + 1, o) <=> OfLine(layer, from, m, o) \/ (o = from + m /\ layer[o] # NoItem)
<1> DEFINE C == 0..m - 1
           D == 0..m + 1 - 1
           Is(c) == o = from + c /\ layer[o] # NoItem
<1>1. \A c : c \in D <=> c \in C \/ c = m
  OBVIOUS
<1>2. OfLine(layer, from, m + 1, o) <=> \E c \in D : Is(c)
  BY DEF OfLine
<1>3. OfLine(layer, from, m, o) <=> \E c \in C : Is(c)
  BY DEF OfLine
<1>4. Is(m) <=> o = from + m /\ layer[o] # NoItem
  OBVIOUS
<1> HIDE DEF C, D, Is
<1> QED BY <1>1, <1>2, <1>3, <1>4

\* The next byte of a line.
LEMMA ByteStep ==
  ASSUME NEW l \in Layouts, NEW from \in Nat, NEW S, NEW layer, NEW m \in 0..l.capacity - 1,
         layer[from + m] \in S, NEW s, LineInv(l, layer, S, from, s, m)
  PROVE  LineInv(l, layer, S, from, DrawByte(l, layer, s, from + m, m), m + 1)
<1> DEFINE o == from + m
           run == s.run
           done == s.done
           next == DrawByte(l, layer, s, o, m)
           spaces == Spaces(l, m)
           none == <<>>
<1>1. /\ s = [done |-> done, run |-> run]
      /\ DoneOK(l, layer, S, from, done) /\ RunOK(l, layer, S, from, run, m)
      /\ \A e : InDone(done, e) \/ InRun(run, e) <=> OfLine(layer, from, m, e)
  BY DEF LineInv
<1>2. m \in Nat /\ m \in 0..l.capacity /\ m < l.capacity /\ o \in Nat
  BY LayoutFacts
<1>3. \A e : OfLine(layer, from, m + 1, e) <=> OfLine(layer, from, m, e) \/ (e = o /\ layer[e] # NoItem)
  BY <1>2, NextOfLine
<1>4. /\ DoneOK(l, layer, S, from, Ended(s, none))
      /\ \A e : InDone(Ended(s, none), e) <=> OfLine(layer, from, m, e)
  <2>1. none = <<>>
    OBVIOUS
  <2> HIDE DEF none
  <2> QED BY <1>2, <2>1, EndedIs
<1>5. /\ DoneOK(l, layer, S, from, Ended(s, spaces))
      /\ \A e : InDone(Ended(s, spaces), e) <=> OfLine(layer, from, m, e)
  <2>1. spaces = Spaces(l, m)
    OBVIOUS
  <2> HIDE DEF spaces
  <2> QED BY <1>2, <2>1, EndedIs
<1>6. CASE layer[o] = NoItem
  <2>1. next = [done |-> Ended(s, none), run |-> NoRun]
    BY <1>6 DEF DrawByte
  <2> HIDE DEF next, none
  <2>2. next.done = Ended(s, none) /\ next.run = NoRun /\ next = [done |-> next.done, run |-> next.run]
    BY <2>1
  <2>3. RunOK(l, layer, S, from, next.run, m + 1) /\ \A e : ~InRun(next.run, e)
    BY <2>2 DEF RunOK, InRun
  <2>4. \A e : OfLine(layer, from, m + 1, e) <=> OfLine(layer, from, m, e)
    BY <1>3, <1>6
  <2>5. LineInv(l, layer, S, from, next, m + 1)
    BY <1>4, <2>2, <2>3, <2>4 DEF LineInv
  <2> QED BY <2>5 DEF next
<1>7. CASE layer[o] # NoItem /\ run.item = layer[o]
  <2>1. run # NoRun
    BY <1>7 DEF NoRun
  <2>2. run \in Strings(S) /\ OpenAt(l, layer, from, run, m)
    BY <1>1, <2>1 DEF RunOK
  <2>3. PICK a \in Nat, t \in Nat : StringAt(l, layer, from, run, a, t) /\ EndsAt(l, run, a, t, m)
    BY <2>2 DEF OpenAt
  <2> DEFINE new == [item |-> run.item, from |-> run.from,
                     hex |-> (run.hex \o spaces) \o Digits2(o), text |-> Append(run.text, o)]
  <2>4. next = [done |-> done, run |-> new]
    <3>1. next = [s EXCEPT !.run.hex = @ \o spaces \o Digits2(o), !.run.text = Append(@, o)]
      BY <1>7 DEF DrawByte
    <3> DEFINE hex == run.hex \o spaces \o Digits2(o)
               text == Append(run.text, o)
    <3>3. next = [s EXCEPT !.run = [[run EXCEPT !.hex = hex] EXCEPT !.text = text]]
      BY <1>1, <3>1
    <3> HIDE DEF next, run, done, hex, text
    <3>4. [[run EXCEPT !.hex = hex] EXCEPT !.text = text]
            = [item |-> run.item, from |-> run.from, hex |-> hex, text |-> text]
      <4>1. Changes(run, hex, text)
        BY <2>2, StringIs
      <4> QED BY <4>1 DEF Changes
    <3>5. new = [item |-> run.item, from |-> run.from, hex |-> hex, text |-> text]
      BY DEF hex, text
    <3> HIDE DEF new
    <3> QED BY <1>1, <3>3, <3>4, <3>5
  <2>5. WentOn(l, run, m, o, new)
    BY DEF WentOn
  <2>6. layer[o] = run.item
    BY <1>7
  <2> HIDE DEF next, new, run, done
  <2>7. /\ new \in Strings(S) /\ new.text = Append(run.text, o)
        /\ StringAt(l, layer, from, new, a, t + 1) /\ EndsAt(l, new, a, t + 1, m + 1)
    BY <2>2, <2>3, <2>5, <2>6, StringGoesOn
  <2>8. OpenAt(l, layer, from, new, m + 1) /\ new.item # NoItem
    <3>1. t + 1 \in Nat
      OBVIOUS
    <3>2. OpenAt(l, layer, from, new, m + 1)
      BY <2>7, <3>1 DEF OpenAt
    <3>3. new.item # NoItem
      BY <2>7 DEF StringAt
    <3> QED BY <3>2, <3>3
  <2>9. new # NoRun
    BY <2>8 DEF NoRun
  <2>10. \A e : InText(new, e) <=> InText(run, e) \/ e = o
    <3> DEFINE text == run.text
               all == new.text
               n == Len(text)
    <3>1. text \in Seq(Nat) /\ n \in Nat
      BY <2>2 DEF Strings
    <3>2. all = Append(text, o)
      BY <2>7
    <3> HIDE DEF text, all, n, o
    <3>3. Len(all) = n + 1 /\ all[n + 1] = o /\ \A k \in 1..n : all[k] = text[k]
      BY <1>2, <3>1, <3>2, AppendProperties DEF n
    <3>4. \A k : k \in 1..n + 1 <=> k \in 1..n \/ k = n + 1
      BY <3>1
    <3>5. \A e : InText(new, e) <=> \E k \in 1..n + 1 : all[k] = e
      BY <3>3 DEF InText, all
    <3>6. \A e : InText(run, e) <=> \E k \in 1..n : text[k] = e
      BY DEF InText, text, n
    <3> QED BY <3>3, <3>4, <3>5, <3>6
  <2>11. next.done = done /\ next.run = new /\ next = [done |-> next.done, run |-> next.run]
    BY <2>4
  <2>12. \A e : InRun(next.run, e) <=> InRun(run, e) \/ e = o
    BY <2>1, <2>9, <2>10, <2>11 DEF InRun
  <2>13. RunOK(l, layer, S, from, next.run, m + 1)
    BY <2>7, <2>8, <2>11 DEF RunOK
  <2>14. \A e : OfLine(layer, from, m + 1, e) <=> OfLine(layer, from, m, e) \/ e = o
    BY <1>3, <1>7
  <2> HIDE DEF o
  <2>15. \A e : InDone(next.done, e) \/ InRun(next.run, e) <=> OfLine(layer, from, m + 1, e)
    BY <1>1, <2>11, <2>12, <2>14
  <2>16. LineInv(l, layer, S, from, next, m + 1)
    BY <1>1, <2>11, <2>13, <2>15 DEF LineInv
  <2> QED BY <2>16 DEF next, o
<1>8. CASE layer[o] # NoItem /\ run.item # layer[o]
  <2> DEFINE new == [item |-> layer[o], from |-> o, hex |-> Digits2(o), text |-> <<o>>]
  <2>1. next = [done |-> Ended(s, spaces), run |-> new]
    BY <1>8 DEF DrawByte
  <2>2. Begun(layer, o, new)
    BY DEF Begun
  <2>3. \A e : InText(new, e) <=> e = o
    <3> DEFINE text == <<o>>
    <3>1. new.text = text
      OBVIOUS
    <3>2. Len(text) = 1 /\ text[1] = o
      OBVIOUS
    <3> HIDE DEF text, new, o
    <3>3. \A k : k \in 1..1 <=> k = 1
      OBVIOUS
    <3> QED BY <3>1, <3>2, <3>3 DEF InText
  <2> HIDE DEF next, new, spaces
  <2>4. /\ new \in Strings(S)
        /\ StringAt(l, layer, from, new, m, 1) /\ EndsAt(l, new, m, 1, m + 1)
    BY <1>8, <2>2, StringBegins
  <2>5. OpenAt(l, layer, from, new, m + 1) /\ new.item # NoItem
    <3>1. 1 \in Nat
      OBVIOUS
    <3> QED BY <1>2, <2>4, <3>1 DEF OpenAt, StringAt
  <2>6. new # NoRun
    BY <2>5 DEF NoRun
  <2>7. next.done = Ended(s, spaces) /\ next.run = new /\ next = [done |-> next.done, run |-> next.run]
    BY <2>1
  <2>8. \A e : InRun(next.run, e) <=> e = o
    BY <2>3, <2>6, <2>7 DEF InRun
  <2>9. RunOK(l, layer, S, from, next.run, m + 1)
    BY <2>4, <2>5, <2>7 DEF RunOK
  <2>10. \A e : OfLine(layer, from, m + 1, e) <=> OfLine(layer, from, m, e) \/ e = o
    BY <1>3, <1>8
  <2> HIDE DEF o
  <2>11. \A e : InDone(next.done, e) \/ InRun(next.run, e) <=> OfLine(layer, from, m + 1, e)
    BY <1>5, <2>7, <2>8, <2>10
  <2>12. LineInv(l, layer, S, from, next, m + 1)
    BY <1>5, <2>7, <2>9, <2>11 DEF LineInv
  <2> QED BY <2>12 DEF next, o
<1> QED BY <1>6, <1>7, <1>8

\* Before the first byte of a line.
NoneDrawn == [done |-> <<>>, run |-> NoRun]

LEMMA NoneDrawnInv ==
  ASSUME NEW l, NEW layer, NEW S, NEW from
  PROVE  LineInv(l, layer, S, from, NoneDrawn, 0)
<1> DEFINE none == <<>>
<1>1. NoneDrawn.done = none /\ NoneDrawn.run = NoRun /\ NoneDrawn = [done |-> NoneDrawn.done, run |-> NoneDrawn.run]
  BY DEF NoneDrawn
<1>2. none \in Seq(Strings(S)) /\ Len(none) = 0
  OBVIOUS
<1> HIDE DEF none
<1>3. \A i : i \notin 1..0
  OBVIOUS
<1>4. DoneOK(l, layer, S, from, none) /\ \A o : ~InDone(none, o)
  BY <1>2, <1>3 DEF DoneOK, InDone
<1>5. RunOK(l, layer, S, from, NoRun, 0) /\ \A o : ~InRun(NoRun, o)
  BY DEF RunOK, InRun
<1>6. \A o : ~OfLine(layer, from, 0, o)
  <2>1. \A c : c \notin 0..0 - 1
    OBVIOUS
  <2> QED BY <2>1 DEF OfLine
<1> QED BY <1>1, <1>4, <1>5, <1>6 DEF LineInv

\* A line's bytes, drawn one after the other.
Draws(l, layer, S, from, count, f) ==
  /\ f[0] = NoneDrawn
  /\ \A k \in 1..count :
       LineInv(l, layer, S, from, DrawByte(l, layer, f[k - 1], from + (k - 1), k - 1), k)
         => f[k] = DrawByte(l, layer, f[k - 1], from + (k - 1), k - 1)

LEMMA AllDrawn ==
  ASSUME NEW l \in Layouts, NEW from \in Nat, NEW S, NEW layer, NEW count \in 0..l.capacity,
         \A m \in 0..count - 1 : layer[from + m] \in S,
         NEW f, Draws(l, layer, S, from, count, f)
  PROVE  \A k \in 0..count : LineInv(l, layer, S, from, f[k], k)
<1> DEFINE Bad == {k \in 0..count : ~LineInv(l, layer, S, from, f[k], k)}
<1>1. Bad = {}
  <2> SUFFICES ASSUME Bad # {} PROVE FALSE
    OBVIOUS
  <2>1. PICK k \in Bad : \A j \in Bad : k <= j
    <3>1. Bad \in SUBSET Nat
      OBVIOUS
    <3> HIDE DEF Bad
    <3> QED BY <3>1, LeastOf
  <2>2. f[0] = NoneDrawn
    BY DEF Draws
  <2>3. LineInv(l, layer, S, from, f[0], 0)
    BY <2>2, NoneDrawnInv
  <2>4. k # 0
    BY <2>1, <2>3
  <2> DEFINE m == k - 1
             s == f[m]
  <2>5. l.capacity \in Nat \ {0}
    BY LayoutFacts
  <2>6. k \in 1..count /\ m \in 0..count - 1 /\ m \in 0..count /\ m \in 0..l.capacity - 1 /\ m + 1 = k /\ ~(k <= m)
    BY <2>1, <2>4, <2>5
  <2>7. m \notin Bad
    BY <2>1, <2>6
  <2>8. LineInv(l, layer, S, from, s, m)
    BY <2>6, <2>7
  <2>9. layer[from + m] \in S
    BY <2>6
  <2>10. LineInv(l, layer, S, from, DrawByte(l, layer, s, from + m, m), m + 1)
    <3> HIDE DEF m, s
    <3> QED BY <2>6, <2>8, <2>9, ByteStep
  <2>11. f[k] = DrawByte(l, layer, s, from + m, m)
    BY <2>6, <2>10 DEF Draws
  <2>12. LineInv(l, layer, S, from, f[k], k)
    BY <2>6, <2>10, <2>11
  <2> QED BY <2>1, <2>12
<1> QED BY <1>1

LEMMA RunsAre ==
  ASSUME NEW l \in Layouts, NEW S, NEW layer, NEW line \in Nat, NEW from \in Nat, from = line * l.capacity,
         dataSize \in Nat, from < dataSize, \A o \in 0..dataSize - 1 : layer[o] \in S
  PROVE  /\ BytesToDraw(l, line, 1) \in 1..l.capacity
         /\ \A c \in 0..l.capacity - 1 : from + c < dataSize <=> c < BytesToDraw(l, line, 1)
         /\ DoneOK(l, layer, S, from, LineRuns(l, layer, line))
         /\ \A o : InDone(LineRuns(l, layer, line), o) <=> OfLine(layer, from, BytesToDraw(l, line, 1), o)
<1> DEFINE count == BytesToDraw(l, line, 1)
           cap == l.capacity
           none == <<>>
           Set == [done : Seq(Strings(S)), run : Strings(S) \cup {NoRun}]
           Draw(s, k) == DrawByte(l, layer, s, from + k - 1, k - 1)
           F == [k \in 1..count |-> [s \in Set |-> IF Draw(s, k) \in Set THEN Draw(s, k) ELSE s]]
           G(upTo) == [n \in 0..count |-> IF n = 0 THEN NoneDrawn ELSE Draw(upTo[n - 1], n)]
           drawn == CHOOSE upTo : upTo = G(upTo)
<1>1. cap \in Nat \ {0}
  BY LayoutFacts
<1>2. count = IF cap <= dataSize - from THEN cap ELSE dataSize - from
  <2>1. 1 * cap = cap
    BY <1>1
  <2> QED BY <2>1 DEF BytesToDraw, Least
<1>3. /\ count \in 1..cap /\ count \in 0..cap /\ count \in Nat
      /\ \A c \in 0..cap - 1 : from + c < dataSize <=> c < count
  <2> HIDE DEF count
  <2> QED BY <1>1, <1>2
<1>4. LineRuns(l, layer, line) = Ended(drawn[count], none)
  BY Zenon DEF LineRuns, NoneDrawn
<1> HIDE DEF count
<1>5. \A k \in 1..count : from + k - 1 = from + (k - 1)
  BY <1>3
<1>6. \A m \in 0..count - 1 : layer[from + m] \in S
  <2>1. ASSUME NEW m \in 0..count - 1 PROVE layer[from + m] \in S
    <3>1. m \in 0..cap - 1 /\ m < count
      BY <1>1, <1>3
    <3>2. from + m < dataSize
      BY <1>3, <3>1
    <3>3. from + m \in 0..dataSize - 1
      BY <3>1, <3>2
    <3> QED BY <3>3
  <2> QED BY <2>1
<1>7. ASSUME NEW s, NEW k, LineInv(l, layer, S, from, s, k) PROVE s \in Set
  <2>1. s = [done |-> s.done, run |-> s.run] /\ s.done \in Seq(Strings(S)) /\ s.run \in Strings(S) \cup {NoRun}
    BY <1>7 DEF LineInv, DoneOK, RunOK
  <2> DEFINE D == Seq(Strings(S))
             R == Strings(S) \cup {NoRun}
             d == s.done
             r == s.run
  <2>2. s = [done |-> d, run |-> r] /\ d \in D /\ r \in R
    BY <2>1
  <2> HIDE DEF D, R, d, r
  <2>3. s \in [done : D, run : R]
    BY <2>2
  <2> QED BY <2>3 DEF D, R
<1>8. LineInv(l, layer, S, from, NoneDrawn, 0)
  BY NoneDrawnInv
<1>9. NoneDrawn \in Set
  <2> HIDE DEF Set
  <2> QED BY <1>7, <1>8
<1>10. F \in [1..count -> [Set -> Set]]
  <2> HIDE DEF Set, Draw
  <2> QED OBVIOUS
<1>11. PICK f \in [0..count -> Set] : Recurs(f, count, NoneDrawn, F)
  <2> HIDE DEF F, Set
  <2> QED BY <1>3, <1>9, <1>10, RecursionExists
<1>12. f[0] = NoneDrawn /\ \A k \in 1..count : f[k] = IF Draw(f[k - 1], k) \in Set THEN Draw(f[k - 1], k) ELSE f[k - 1]
  <2>1. f[0] = NoneDrawn /\ \A k \in 1..count : f[k] = F[k][f[k - 1]]
    BY <1>11 DEF Recurs
  <2>2. ASSUME NEW k \in 1..count
        PROVE  f[k] = IF Draw(f[k - 1], k) \in Set THEN Draw(f[k - 1], k) ELSE f[k - 1]
    <3>1. k - 1 \in 0..count
      BY <1>3
    <3> DEFINE s == f[k - 1]
    <3>2. s \in Set
      BY <1>11, <3>1
    <3>3. f[k] = F[k][s]
      BY <2>1
    <3> HIDE DEF Set, Draw, s
    <3>4. F[k][s] = IF Draw(s, k) \in Set THEN Draw(s, k) ELSE s
      BY <3>2
    <3> HIDE DEF F
    <3> QED BY <3>3, <3>4 DEF s
  <2> QED BY <2>1, <2>2
<1> HIDE DEF Set, F
<1>13. Draws(l, layer, S, from, count, f)
  <2>1. ASSUME NEW k \in 1..count, LineInv(l, layer, S, from, DrawByte(l, layer, f[k - 1], from + (k - 1), k - 1), k)
        PROVE  f[k] = DrawByte(l, layer, f[k - 1], from + (k - 1), k - 1)
    <3>1. Draw(f[k - 1], k) = DrawByte(l, layer, f[k - 1], from + (k - 1), k - 1)
      BY <1>5
    <3> HIDE DEF Draw
    <3>2. Draw(f[k - 1], k) \in Set
      BY <1>7, <2>1, <3>1
    <3> QED BY <1>12, <3>1, <3>2
  <2> HIDE DEF Draw
  <2> QED BY <1>12, <2>1 DEF Draws
<1>14. \A k \in 0..count : LineInv(l, layer, S, from, f[k], k)
  BY <1>3, <1>6, <1>13, AllDrawn
<1>15. f = G(f)
  <2>1. ASSUME NEW k \in 1..count PROVE f[k] = Draw(f[k - 1], k)
    <3> DEFINE m == k - 1
               s == f[m]
    <3>1. m \in 0..count - 1 /\ m \in 0..count /\ m \in 0..l.capacity - 1 /\ m + 1 = k
      BY <1>1, <1>3
    <3>2. LineInv(l, layer, S, from, s, m) /\ layer[from + m] \in S
      BY <1>6, <1>14, <3>1
    <3>3. LineInv(l, layer, S, from, DrawByte(l, layer, s, from + m, m), m + 1)
      <4> HIDE DEF m, s
      <4> QED BY <3>1, <3>2, ByteStep
    <3>4. Draw(f[k - 1], k) = DrawByte(l, layer, s, from + m, m)
      BY <1>5
    <3>5. LineInv(l, layer, S, from, Draw(f[k - 1], k), k)
      BY <3>1, <3>3, <3>4
    <3> HIDE DEF Draw, m, s
    <3>6. Draw(f[k - 1], k) \in Set
      BY <1>7, <3>5
    <3> QED BY <1>12, <3>6
  <2> HIDE DEF Draw
  <2> QED BY <1>11, <1>12, <2>1
<1>16. drawn = G(drawn)
  <2> HIDE DEF G
  <2> QED BY <1>15, Zenon
<1>17. \A k \in 0..count : drawn[k] = IF k = 0 THEN NoneDrawn ELSE Draw(drawn[k - 1], k)
  <2> HIDE DEF drawn, Draw
  <2> QED BY <1>16
<1> HIDE DEF drawn
<1>18. Draws(l, layer, S, from, count, drawn)
  <2>1. ASSUME NEW k \in 1..count PROVE drawn[k] = DrawByte(l, layer, drawn[k - 1], from + (k - 1), k - 1)
    <3>1. k \in 0..count /\ k # 0
      BY <1>3
    <3>2. drawn[k] = Draw(drawn[k - 1], k)
      <4> HIDE DEF Draw
      <4> QED BY <1>17, <3>1
    <3> QED BY <1>5, <3>2
  <2>2. drawn[0] = NoneDrawn
    <3>1. 0 \in 0..count
      BY <1>3
    <3> HIDE DEF Draw
    <3> QED BY <1>17, <3>1
  <2> QED BY <2>1, <2>2 DEF Draws
<1>19. LineInv(l, layer, S, from, drawn[count], count)
  <2>1. count \in 0..count
    BY <1>3
  <2> QED BY <1>3, <1>6, <1>18, <2>1, AllDrawn
<1>20. /\ DoneOK(l, layer, S, from, Ended(drawn[count], none))
       /\ \A o : InDone(Ended(drawn[count], none), o) <=> OfLine(layer, from, count, o)
  <2>1. none = <<>>
    OBVIOUS
  <2> HIDE DEF none
  <2> QED BY <1>3, <1>19, <2>1, EndedIs
<1> QED BY <1>3, <1>4, <1>20 DEF count

-----------------------------------------------------------------------------
(* Painting: each string in its place                                      *)

LEMMA ByteOfRow ==
  ASSUME NEW l \in Layouts, NEW v \in ViewRec, NEW line \in Nat, NEW c \in 0..l.capacity - 1,
         NEW o, o = line * l.capacity + c
  PROVE  /\ o \in Nat /\ LineOf(l, o) = line /\ ColumnOf(l, o) = c
         /\ HexChunkX(l, v, o) = ColumnAt(l, c) - v.pos["H"]
         /\ TextChunkX(l, v, o) = IndentText(l) + c * ExtraWidth - v.pos["H"]
<1> DEFINE cap == l.capacity
<1>1. cap \in Nat \ {0} /\ c \in Nat
  BY LayoutFacts
<1>2. o \in Nat /\ o = cap * line + c
  <2>1. line * cap \in Nat /\ line * cap = cap * line
    BY <1>1
  <2> QED BY <1>1, <2>1
<1> HIDE DEF cap
<1>3. o \div cap = line /\ o % cap = c
  BY <1>1, <1>2, QuotientIs DEF cap
<1> DEFINE X(d) == FirstHex + (IF d >= cap \div 2 THEN BetweenBlocks(l) ELSE 0)
                   + d * HexByte + (d \div l.group) * ExtraWidth - v.pos["H"]
           x == c * HexByte
           y == (c \div l.group) * ExtraWidth
           z == IF c >= cap \div 2 THEN BetweenBlocks(l) ELSE 0
           T(d) == IndentText(l) + d * ExtraWidth - v.pos["H"]
<1>4. HexChunkX(l, v, o) = ColumnAt(l, c) - v.pos["H"]
  <2>1. HexChunkX(l, v, o) = X(o % cap)
    BY DEF HexChunkX, cap
  <2>2. X(c) = ColumnAt(l, c) - v.pos["H"]
    <3>1. /\ FirstHex \in Nat /\ HexByte \in Nat /\ ExtraWidth \in Nat /\ BetweenBlocks(l) \in Nat
          /\ l.group \in Nat \ {0}
      BY WidthFacts, LayoutFacts
    <3>2. x \in Nat /\ z \in Nat
      BY <1>1, <3>1
    <3>3. c \div l.group \in Nat
      BY <1>1, <3>1, ModFacts
    <3>4. y \in Nat
      BY <3>1, <3>3
    <3>5. v.pos["H"] \in Nat
      BY BarsAre DEF ViewRec
    <3>6. ColumnAt(l, c) = FirstHex + z + x + y
      BY DEF ColumnAt, cap
    <3>7. X(c) = FirstHex + z + x + (y - v.pos["H"])
      OBVIOUS
    <3> HIDE DEF x, y, z, X
    <3> QED BY <3>1, <3>2, <3>4, <3>5, <3>6, <3>7
  <2> HIDE DEF X
  <2> QED BY <1>3, <2>1, <2>2
<1>5. TextChunkX(l, v, o) = IndentText(l) + c * ExtraWidth - v.pos["H"]
  <2>1. TextChunkX(l, v, o) = T(o % cap)
    BY DEF TextChunkX, cap
  <2>2. T(c) = IndentText(l) + c * ExtraWidth - v.pos["H"]
    OBVIOUS
  <2> HIDE DEF T
  <2> QED BY <1>3, <2>1, <2>2
<1> QED BY <1>2, <1>3, <1>4, <1>5 DEF LineOf, ColumnOf, cap

\* A string's first and last characters are between the lines of the columns.
LEMMA StringBetween ==
  ASSUME ViewInv, NEW line \in Nat, NEW layer, NEW r, NEW a \in Nat, NEW t \in Nat, NEW S, r \in Strings(S),
         StringAt(layout, layer, line * layout.capacity, r, a, t)
  PROVE  /\ Len(r.hex) <= 3 * layout.capacity + 1
         /\ LET lines == VertLines(layout, view)
            IN  /\ lines[2] < HexAt(layout, view, r, 1)
                /\ HexAt(layout, view, r, Len(r.hex) + 1) < lines[3]
                /\ lines[3] < TextAt(layout, view, r, 1)
                /\ TextAt(layout, view, r, Len(r.text) + 1) < lines[4]
<1> DEFINE l == layout
           cap == l.capacity
           last == cap - 1
           E == ExtraWidth
           p == Chars(l, a)
           n == Len(r.hex)
           h == view.pos["H"]
           lines == VertLines(layout, view)
           second == SecondLine
           third == ThirdLine(l)
           indent == IndentText(l)
           fourth == FourthLine(l)
<1>1. l \in Layouts /\ cap \in Nat \ {0} /\ h \in Nat
  BY InvFacts, BarsAre DEF ViewRec
<1>2. /\ E \in Nat \ {0} /\ CharWidth \in Nat \ {0} /\ FirstHex = second + CharWidth /\ second \in Nat /\ FirstHex \in Nat
  <2>1. (Digits + 2) * CharWidth \in Nat
    BY ViewAssumption
  <2> QED BY <1>1, <2>1, WidthFacts, ShowAssumption DEF SecondLine, FirstHex
<1>3. n \in Nat
  BY DEF Strings
<1>4. /\ r.from = line * cap + a /\ Len(r.text) = t /\ t >= 1 /\ a + t <= cap
      /\ p + n <= Chars(l, last) + 2
  BY DEF StringAt
<1>5. a \in 0..cap - 1 /\ a \in 0..cap /\ cap \in 0..cap /\ last \in 0..cap
  BY <1>1, <1>4
<1>6. HexChunkX(l, view, r.from) = ColumnAt(l, a) - h /\ TextChunkX(l, view, r.from) = indent + a * E - h
  <2> DEFINE o == r.from
  <2>1. o = line * cap + a
    BY <1>4
  <2> HIDE DEF o
  <2>2. /\ HexChunkX(l, view, o) = ColumnAt(l, a) - view.pos["H"]
        /\ TextChunkX(l, view, o) = IndentText(l) + a * ExtraWidth - view.pos["H"]
    <3>1. l \in Layouts /\ view \in ViewRec /\ a \in 0..l.capacity - 1 /\ o = line * l.capacity + a
      BY <1>1, <1>5, <2>1, InvFacts
    <3> HIDE DEF l
    <3> QED BY <3>1, ByteOfRow
  <2> QED BY <2>2 DEF o
<1>7. /\ p \in Nat /\ ColumnAt(l, a) = FirstHex + p * E
      /\ Chars(l, cap) \in Nat /\ ColumnAt(l, cap) = FirstHex + Chars(l, cap) * E
      /\ Chars(l, last) \in Nat
  BY <1>1, <1>5, CharsFacts
<1>8. /\ Chars(l, last) + 3 <= Chars(l, cap) /\ Chars(l, last) + 2 <= 3 * cap + 1
      /\ third = ColumnAt(l, cap)
  BY <1>1, CharsEnd
<1>9. lines[2] = second - h /\ lines[3] = third - h /\ lines[4] = fourth - h
  BY DEF VertLines
<1>10. indent = third + CharWidth /\ fourth = indent + E * cap + CharWidth
  BY DEF IndentText, FourthLine
<1>11. HexAt(l, view, r, 1) = ColumnAt(l, a) - h + (1 - 1) * E /\ HexAt(l, view, r, n + 1) = ColumnAt(l, a) - h + (n + 1 - 1) * E
  BY <1>6 DEF HexAt
<1>12. /\ TextAt(l, view, r, 1) = indent + a * E - h + (1 - 1) * E
       /\ TextAt(l, view, r, Len(r.text) + 1) = indent + a * E - h + (t + 1 - 1) * E
  BY <1>4, <1>6 DEF TextAt
<1> HIDE DEF l, cap, last, E, p, n, h, lines, second, third, indent, fourth
<1> DEFINE x == p * E
           y == n * E
           z == Chars(l, cap) * E
<1>13. x \in Nat /\ y \in Nat /\ z \in Nat /\ (1 - 1) * E = 0 /\ n + 1 - 1 = n /\ (n + 1 - 1) * E = y
  BY <1>2, <1>3, <1>7
<1>14. x + y + E <= z
  <2>1. p + n + 1 <= Chars(l, cap)
    BY <1>3, <1>4, <1>7, <1>8
  <2>2. E * (p + n + 1) <= E * Chars(l, cap)
    <3>1. p + n + 1 \in Nat
      BY <1>3, <1>7
    <3> QED BY <1>2, <1>7, <2>1, <3>1, MulMono
  <2>3. E * (p + n + 1) = x + y + E /\ E * Chars(l, cap) = z
    BY <1>2, <1>3, <1>7
  <2> QED BY <2>2, <2>3
<1> HIDE DEF x, y, z
<1>15. third = FirstHex + z /\ ColumnAt(l, a) = FirstHex + x
  BY <1>7, <1>8 DEF x, z
<1>16. n <= 3 * cap + 1
  BY <1>1, <1>3, <1>4, <1>7, <1>8
<1>17. lines[2] < HexAt(l, view, r, 1)
  <2>1. HexAt(l, view, r, 1) = FirstHex + x - h + 0
    <3> DEFINE none == (1 - 1) * E
    <3>1. HexAt(l, view, r, 1) = ColumnAt(l, a) - h + none /\ none = 0
      BY <1>11, <1>13
    <3> HIDE DEF none
    <3> QED BY <1>1, <1>2, <1>13, <1>15, <3>1
  <2> QED BY <1>1, <1>2, <1>9, <1>13, <2>1
<1>18. HexAt(l, view, r, n + 1) < lines[3]
  <2>1. HexAt(l, view, r, n + 1) = FirstHex + x - h + y
    <3> DEFINE all == (n + 1 - 1) * E
    <3>1. HexAt(l, view, r, n + 1) = ColumnAt(l, a) - h + all /\ all = y
      BY <1>11, <1>13
    <3> HIDE DEF all
    <3> QED BY <1>1, <1>2, <1>13, <1>15, <3>1
  <2> QED BY <1>1, <1>2, <1>9, <1>13, <1>14, <1>15, <2>1
<1> DEFINE u == a * E
           w == t * E
           m == E * cap
<1>19. u \in Nat /\ w \in Nat /\ m \in Nat /\ t + 1 - 1 = t /\ (t + 1 - 1) * E = w
  BY <1>1, <1>2
<1>20. u + w <= m
  <2>1. E * (a + t) <= E * cap
    BY <1>1, <1>2, <1>4, MulMono
  <2>2. E * (a + t) = u + w
    BY <1>2
  <2> QED BY <2>1, <2>2
<1> HIDE DEF u, w, m
<1>21. lines[3] < TextAt(l, view, r, 1)
  <2>1. TextAt(l, view, r, 1) = indent + u - h + 0
    BY <1>12, <1>13 DEF u
  <2> QED BY <1>1, <1>2, <1>9, <1>10, <1>13, <1>15, <1>19, <2>1
<1>22. TextAt(l, view, r, Len(r.text) + 1) < lines[4]
  <2>1. TextAt(l, view, r, Len(r.text) + 1) = indent + u - h + w
    BY <1>12, <1>19 DEF u
  <2>2. fourth = indent + m + CharWidth
    BY <1>10 DEF m
  <2> QED BY <1>1, <1>2, <1>9, <1>10, <1>13, <1>15, <1>19, <1>20, <2>1, <2>2
<1> QED BY <1>16, <1>17, <1>18, <1>21, <1>22 DEF l, cap, n, lines

\* A row in sight, the x of a place among its characters, and a character that
\* stands where a byte of its columns a to b is.
RowFrom(line, from) == line \in PaintedLines(layout, view) /\ from = line * layout.capacity
IsPlace(q, x) == x = FirstHex + q * ExtraWidth - view.pos["H"]
CellHits(line, from, a, b, cell, x) ==
  \E c \in a..b :
    /\ HitTest(layout, view, dataSize, x, LineY(layout, line - TopLine(layout, view))) = {from + c}
    /\ cell = Gap \/ (/\ cell # Gap /\ cell.offset = from + c
                      /\ x = HexChunkX(layout, view, cell.offset) + (IF cell.high THEN 0 ELSE ExtraWidth))

\* A character of the bytes' columns is hit as the byte it is of.
LEMMA CellHit ==
  ASSUME ViewInv, dataSize > 0, HasRoom(layout, view), NEW line, NEW from, RowFrom(line, from),
         NEW a \in Nat, NEW b \in 0..layout.capacity - 1, from + b < dataSize,
         NEW cell, NEW q \in Nat, CellAt(layout, from, a, b, cell, q), NEW x, IsPlace(q, x)
  PROVE  CellHits(line, from, a, b, cell, x)
<1> DEFINE l == layout
           cap == l.capacity
           E == ExtraWidth
           h == view.pos["H"]
           y == LineY(layout, line - TopLine(layout, view))
<1>1. l \in Layouts /\ view \in ViewRec /\ cap \in Nat \ {0} /\ dataSize \in Nat
  BY InvFacts
<1>2. h \in Nat
  BY <1>1, BarsAre DEF ViewRec
<1>3. E \in Nat \ {0} /\ FirstHex \in Nat
  BY <1>1, WidthFacts
<1>4. /\ line \in Nat /\ from \in Nat /\ InWorkLines(l, view, y) /\ LineAt(l, view, y) = line
      /\ from = line * cap
  <2>1. line \in PaintedLines(layout, view) /\ from = line * layout.capacity
    BY DEF RowFrom
  <2> QED BY <2>1, PaintedFacts
<1>5. PICK c \in a..b :
        \/ cell = Gap /\ Chars(l, c) + 2 <= q /\ q < Chars(l, c + 1)
        \/ \E high \in BOOLEAN :
             cell = [offset |-> from + c, high |-> high] /\ q = Chars(l, c) + (IF high THEN 0 ELSE 1)
  BY DEF CellAt
<1>6. c \in Nat /\ c \in 0..cap - 1 /\ c \in 0..cap /\ c + 1 \in 0..cap /\ from + c < dataSize
  BY <1>1, <1>4
<1> HIDE DEF l, cap, E, h, y
<1>7. /\ Chars(l, c) \in Nat /\ ColumnAt(l, c) = FirstHex + Chars(l, c) * E
      /\ Chars(l, c + 1) \in Nat /\ ColumnAt(l, c + 1) = FirstHex + Chars(l, c + 1) * E
      /\ Chars(l, c) + 2 <= Chars(l, c + 1)
  BY <1>1, <1>6, CharsFacts, CharsNext DEF cap, E
<1>8. Chars(l, c) <= q /\ q + 1 <= Chars(l, c + 1)
  BY <1>5, <1>7
<1> DEFINE u == Chars(l, c) * E
           w == Chars(l, c + 1) * E
           m == q * E
<1>9. u \in Nat /\ w \in Nat /\ m \in Nat
  BY <1>3, <1>7
<1>10. u <= m /\ m + E <= w
  <2>1. E * Chars(l, c) <= E * q
    BY <1>3, <1>7, <1>8, MulMono
  <2>2. E * (q + 1) <= E * Chars(l, c + 1)
    <3>1. q + 1 \in Nat
      OBVIOUS
    <3> QED BY <1>3, <1>7, <1>8, <3>1, MulMono
  <2>3. E * Chars(l, c) = u /\ E * q = m /\ E * (q + 1) = m + E /\ E * Chars(l, c + 1) = w
    BY <1>3, <1>7
  <2> QED BY <2>1, <2>2, <2>3
<1>11. x = FirstHex + m - h
  BY DEF h, E, IsPlace
<1> HIDE DEF u, w, m
<1>12. x \in Int /\ x + h = FirstHex + m
  BY <1>2, <1>3, <1>9, <1>11
<1>13. ColumnAt(l, c) <= x + h /\ x + h < ColumnAt(l, c + 1)
  <2>1. ColumnAt(l, c) = FirstHex + u /\ ColumnAt(l, c + 1) = FirstHex + w
    BY <1>7 DEF u, w
  <2> QED BY <1>3, <1>9, <1>10, <1>12, <2>1
<1>14. HitTest(l, view, dataSize, x, y) = {from + c}
  <2>1. HitTest(l, view, dataSize, x, y) = {line * l.capacity + c}
    <3>1. line * l.capacity + c < dataSize /\ c \in 0..l.capacity - 1
      BY <1>4, <1>6 DEF l, cap
    <3> QED BY <1>1, <1>4, <1>12, <1>13, <3>1, HexHit DEF h
  <2> QED BY <1>4, <2>1 DEF l, cap
<1>15. cell = Gap \/ (/\ cell # Gap /\ cell.offset = from + c
                      /\ x = HexChunkX(l, view, cell.offset) + (IF cell.high THEN 0 ELSE E))
  <2>1. CASE cell = Gap
    BY <2>1
  <2>2. CASE \E high \in BOOLEAN :
               cell = [offset |-> from + c, high |-> high] /\ q = Chars(l, c) + (IF high THEN 0 ELSE 1)
    <3>1. PICK high \in BOOLEAN : cell = [offset |-> from + c, high |-> high] /\ q = Chars(l, c) + (IF high THEN 0 ELSE 1)
      BY <2>2
    <3> DEFINE o == from + c
               k == IF high THEN 0 ELSE 1
    <3>2. o = line * l.capacity + c /\ o \in Nat
      BY <1>4, <1>6 DEF l, cap
    <3>3. cell = [offset |-> o, high |-> high] /\ q = Chars(l, c) + k
      BY <3>1
    <3> HIDE DEF o
    <3>4. cell.offset = o /\ cell.high = high
      BY <3>3
    <3>5. cell # Gap
      <4>1. Gap.offset = -1
        BY DEF Gap
      <4>2. o # -1
        BY <3>2
      <4> QED BY <3>4, <4>1, <4>2
    <3>6. HexChunkX(l, view, o) = ColumnAt(l, c) - h
      <4>1. c \in 0..l.capacity - 1
        BY <1>6 DEF cap
      <4> QED BY <1>1, <1>4, <3>2, <4>1, ByteOfRow DEF h
    <3>7. m = u + (IF high THEN 0 ELSE E)
      <4>1. CASE high
        <5>1. q = Chars(l, c)
          BY <1>7, <3>3, <4>1
        <5> QED BY <1>9, <4>1, <5>1 DEF m, u
      <4>2. CASE ~high
        <5>1. q = Chars(l, c) + 1
          BY <3>3, <4>2
        <5>2. (Chars(l, c) + 1) * E = Chars(l, c) * E + E
          BY <1>3, <1>7
        <5> QED BY <4>2, <5>1, <5>2 DEF m, u
      <4> QED BY <4>1, <4>2
    <3>8. ColumnAt(l, c) = FirstHex + u
      BY <1>7 DEF u
    <3> DEFINE half == IF high THEN 0 ELSE E
    <3>9. half \in Nat
      BY <1>3
    <3>10. m = u + half
      BY <3>7
    <3> HIDE DEF half
    <3>11. x = HexChunkX(l, view, o) + half
      BY <1>2, <1>3, <1>9, <1>11, <3>6, <3>8, <3>9, <3>10
    <3>12. half = IF cell.high THEN 0 ELSE E
      BY <3>4 DEF half
    <3> QED BY <3>4, <3>5, <3>11, <3>12 DEF o
  <2> QED BY <1>5, <2>1, <2>2
<1> QED BY <1>14, <1>15 DEF l, y, E, CellHits

\* A string of the bytes of a line in sight stands where these are.
LEMMA StringInPlace ==
  ASSUME ViewInv, dataSize > 0, HasRoom(layout, view), NEW line, NEW from, RowFrom(line, from), NEW layer, NEW S, NEW r \in Strings(S), StringOf(layout, layer, from, r),
         \A o : InText(r, o) => o < dataSize
  PROVE  RunInPlace(layer, r, LineY(layout, line - TopLine(layout, view)))
<1> DEFINE l == layout
           cap == l.capacity
           E == ExtraWidth
           h == view.pos["H"]
           y == LineY(layout, line - TopLine(layout, view))
           hex == r.hex
           text == r.text
           n == Len(hex)
<1>1. l \in Layouts /\ view \in ViewRec /\ cap \in Nat \ {0} /\ dataSize \in Nat
  BY InvFacts
<1>2. h \in Nat
  BY <1>1, BarsAre DEF ViewRec
<1>3. E \in Nat \ {0} /\ FirstHex \in Nat
  BY <1>1, WidthFacts
<1>4. /\ line \in Nat /\ from \in Nat /\ InWorkLines(l, view, y) /\ LineAt(l, view, y) = line
      /\ from = line * cap
  <2>1. line \in PaintedLines(layout, view) /\ from = line * layout.capacity
    BY DEF RowFrom
  <2> QED BY <2>1, PaintedFacts
<1>5. PICK a \in Nat, t \in Nat : StringAt(l, layer, from, r, a, t)
  BY DEF StringOf
<1> DEFINE p == Chars(l, a)
           b == a + t - 1
<1>6. /\ r.from = from + a /\ Len(text) = t /\ t >= 1 /\ a + t <= cap /\ r.item # NoItem
      /\ \A k \in 1..t : text[k] = from + a + (k - 1) /\ layer[from + a + (k - 1)] = r.item
      /\ CellsAt(l, from, a, b, hex, p)
  BY <1>5 DEF StringAt
<1>7. hex \in Seq(Cells) /\ n \in Nat
  BY DEF Strings
<1>8. a \in 0..cap - 1 /\ a \in 0..cap /\ b \in 0..cap - 1 /\ b \in Nat
  BY <1>1, <1>6
<1>9. p \in Nat /\ ColumnAt(l, a) = FirstHex + p * E
  BY <1>1, <1>8, CharsFacts
<1>10. ASSUME NEW c \in a..b
       PROVE  layer[from + c] = r.item /\ from + c < dataSize
  <2> DEFINE k == c - a + 1
  <2>1. k \in 1..t /\ from + a + (k - 1) = from + c
    BY <1>4, <1>8
  <2> HIDE DEF k, b, text
  <2>2. text[k] = from + c /\ layer[from + c] = r.item
    BY <1>6, <2>1
  <2>3. InText(r, from + c)
    BY <1>6, <2>1, <2>2 DEF InText, text
  <2> QED BY <2>2, <2>3
<1>11. HexChunkX(l, view, r.from) = ColumnAt(l, a) - h /\ TextChunkX(l, view, r.from) = IndentText(l) + a * E - h
  <2> DEFINE o == r.from
  <2>1. o = line * l.capacity + a
    BY <1>4, <1>6
  <2> HIDE DEF o, l
  <2> QED BY <1>1, <1>4, <1>8, <2>1, ByteOfRow DEF o
<1> HIDE DEF b, p, E, h, n, hex, text, l, cap, y
<1>12. b \in 0..layout.capacity - 1 /\ from + b < dataSize
  <2>1. b \in a..b
    BY <1>6, <1>8 DEF b
  <2> QED BY <1>8, <1>10, <2>1 DEF l, cap
<1>13. ASSUME NEW k \in 1..n
       PROVE  IF hex[k] = Gap
              THEN \E o \in Hits(HexAt(l, view, r, k), y) : layer[o] = r.item
              ELSE /\ Hits(HexAt(l, view, r, k), y) = {hex[k].offset}
                   /\ HexAt(l, view, r, k) = HexChunkX(l, view, hex[k].offset) + (IF hex[k].high THEN 0 ELSE E)
  <2> DEFINE q == p + (k - 1)
             x == HexAt(l, view, r, k)
             cell == hex[k]
  <2>1. q \in Nat
    BY <1>7, <1>9
  <2>2. CellAt(layout, from, a, b, cell, q)
    BY <1>6 DEF CellsAt, n, l
  <2>3. x = FirstHex + q * ExtraWidth - view.pos["H"]
    <3> DEFINE u == p * E
               w == (k - 1) * E
    <3>1. x = ColumnAt(l, a) - h + w
      BY <1>11 DEF HexAt, E
    <3>2. q * E = u + w /\ u \in Int /\ w \in Int
      BY <1>3, <1>9
    <3>3. ColumnAt(l, a) = FirstHex + u
      BY <1>9
    <3> HIDE DEF u, w, x
    <3>4. x = FirstHex + (u + w) - h
      BY <1>2, <1>3, <3>1, <3>2, <3>3
    <3> QED BY <3>2, <3>4 DEF E, h
  <2> HIDE DEF q, x, cell
  <2>4. PICK c \in a..b :
          /\ HitTest(layout, view, dataSize, x, LineY(layout, line - TopLine(layout, view))) = {from + c}
          /\ cell = Gap \/ (/\ cell # Gap /\ cell.offset = from + c
                            /\ x = HexChunkX(layout, view, cell.offset) + (IF cell.high THEN 0 ELSE ExtraWidth))
    <3>1. IsPlace(q, x)
      BY <2>3 DEF IsPlace
    <3>2. CellHits(line, from, a, b, cell, x)
      BY <1>12, <2>1, <2>2, <3>1, CellHit
    <3> QED BY <3>2 DEF CellHits
  <2>5. Hits(x, y) = {from + c}
    BY <2>4 DEF Hits, y
  <2>6. layer[from + c] = r.item
    BY <1>10
  <2>7. CASE cell = Gap
    <3>1. \E o \in Hits(x, y) : layer[o] = r.item
      BY <2>5, <2>6
    <3> QED BY <2>7, <3>1 DEF x, cell
  <2>8. CASE cell # Gap
    <3>1. Hits(x, y) = {cell.offset}
      BY <2>4, <2>5, <2>8
    <3>2. x = HexChunkX(l, view, cell.offset) + (IF cell.high THEN 0 ELSE E)
      BY <2>4, <2>8 DEF l, E
    <3> QED BY <2>8, <3>1, <3>2 DEF x, cell
  <2> QED BY <2>7, <2>8
<1>14. ASSUME NEW k \in 1..t
       PROVE  Hits(TextAt(l, view, r, k), y) = {text[k]}
  <2> DEFINE c == a + (k - 1)
             x == TextAt(l, view, r, k)
             indent == IndentText(l)
             u == a * E
             w == (k - 1) * E
  <2>1. c \in a..b /\ c \in 0..cap - 1 /\ c \in Nat
    BY <1>1, <1>6 DEF b
  <2>2. indent \in Nat
    <3>1. ThirdLine(l) \in Nat
      BY <1>1, <1>8, ColumnFacts DEF cap
    <3> QED BY <1>1, <3>1, WidthFacts DEF IndentText
  <2>3. x = indent + u - h + w
    BY <1>11 DEF TextAt, E
  <2>4. u \in Nat /\ w \in Nat /\ c * E = u + w
    BY <1>3
  <2> HIDE DEF x, indent, u, w, c
  <2>5. x \in Int /\ x + h = indent + c * E
    BY <1>2, <2>2, <2>3, <2>4
  <2>6. from + c < dataSize
    BY <1>10, <2>1
  <2>7. HitTest(l, view, dataSize, x, y) = {line * l.capacity + c}
    <3>1. line * l.capacity + c < dataSize /\ c \in 0..l.capacity - 1 /\ x + view.pos["H"] = IndentText(l) + c * ExtraWidth
      BY <1>4, <2>1, <2>5, <2>6 DEF l, cap, h, indent, E
    <3> QED BY <1>1, <1>4, <2>5, <3>1, TextHit
  <2>8. text[k] = from + c
    <3>1. text[k] = from + a + (k - 1)
      BY <1>6
    <3> QED BY <1>4, <3>1 DEF c
  <2> QED BY <1>4, <2>7, <2>8 DEF Hits, x, l, cap
<1>15. /\ Len(r.hex) <= 3 * layout.capacity + 1
       /\ LET lines == VertLines(layout, view)
          IN  /\ lines[2] < HexAt(layout, view, r, 1)
              /\ HexAt(layout, view, r, Len(r.hex) + 1) < lines[3]
              /\ lines[3] < TextAt(layout, view, r, 1)
              /\ TextAt(layout, view, r, Len(r.text) + 1) < lines[4]
  <2>1. StringAt(layout, layer, line * layout.capacity, r, a, t)
    BY <1>4, <1>5 DEF l, cap
  <2> QED BY <1>4, <2>1, StringBetween
<1>16. \A k \in 1..Len(r.hex) :
         LET cell == r.hex[k]
             x    == HexAt(layout, view, r, k)
         IN  IF cell = Gap
             THEN \E o \in Hits(x, y) : layer[o] = r.item
             ELSE /\ Hits(x, y) = {cell.offset}
                  /\ x = HexChunkX(layout, view, cell.offset) + (IF cell.high THEN 0 ELSE ExtraWidth)
  BY <1>13 DEF n, hex, l, E
<1>17. \A k \in 1..Len(r.text) : Hits(TextAt(layout, view, r, k), y) = {r.text[k]}
  BY <1>6, <1>14 DEF text, l
<1>18. RunInPlace(layer, r, y)
  <2> HIDE DEF Hits
  <2> QED BY <1>15, <1>16, <1>17, Zenon DEF RunInPlace
<1> QED BY <1>18 DEF y

-----------------------------------------------------------------------------
(* Painting: a line of each layer                                          *)

\* The bytes of a row are those whose line it is.
LEMMA RowBytes ==
  ASSUME NEW l \in Layouts, NEW line \in Nat, NEW from \in Nat, from = line * l.capacity, NEW o
  PROVE  (\E c \in 0..l.capacity - 1 : o = from + c) <=> o \in Nat /\ LineOf(l, o) = line
<1> DEFINE cap == l.capacity
<1>1. cap \in Nat \ {0}
  BY LayoutFacts
<1>2. ASSUME NEW c \in 0..cap - 1, o = from + c PROVE o \in Nat /\ LineOf(l, o) = line
  <2>1. cap * line = line * cap /\ o \in Nat
    BY <1>1, <1>2
  <2>2. o = cap * line + c
    BY <1>2, <2>1
  <2> QED BY <1>1, <2>1, <2>2, QuotientIs DEF LineOf
<1>3. ASSUME o \in Nat, LineOf(l, o) = line PROVE \E c \in 0..cap - 1 : o = from + c
  <2> DEFINE q == o \div cap
             r == o % cap
  <2>1. r \in 0..cap - 1 /\ o = cap * q + r
    BY <1>1, <1>3, ModFacts, DivMod
  <2>2. q = line
    BY <1>3 DEF LineOf
  <2> HIDE DEF q, r
  <2>3. o = from + r
    BY <1>1, <2>1, <2>2
  <2> QED BY <2>1, <2>3
<1> QED BY <1>2, <1>3

\* A layer of all bytes draws those of a line that belong to one of its items,
\* each string in its place.
LEMMA LayerDrawn ==
  ASSUME ViewInv, dataSize > 0, HasRoom(layout, view), NEW line, NEW from, RowFrom(line, from),
         NEW layer, DOMAIN layer = 0..dataSize - 1
  PROVE  LayerInPlace(layer, LineRuns(layout, layer, line), line)
<1> DEFINE l == layout
           S == {layer[o] : o \in 0..dataSize - 1}
           runs == LineRuns(l, layer, line)
           count == BytesToDraw(l, line, 1)
           y == LineY(layout, line - TopLine(layout, view))
<1>1. l \in Layouts /\ l.capacity \in Nat \ {0} /\ dataSize \in Nat
  BY InvFacts
<1>2. line \in Nat /\ from \in Nat /\ from = line * l.capacity /\ from < dataSize
  <2>1. line \in PaintedLines(layout, view) /\ from = line * layout.capacity
    BY DEF RowFrom
  <2> QED BY <2>1, PaintedFacts
<1>3. \A o \in 0..dataSize - 1 : layer[o] \in S
  OBVIOUS
<1> HIDE DEF l, S, runs, count, y
<1>4. /\ count \in 1..l.capacity
      /\ \A c \in 0..l.capacity - 1 : from + c < dataSize <=> c < count
      /\ DoneOK(l, layer, S, from, runs)
      /\ \A o : InDone(runs, o) <=> OfLine(layer, from, count, o)
  BY <1>1, <1>2, <1>3, RunsAre DEF count, runs
<1>5. runs \in Seq(Strings(S)) /\ \A i \in 1..Len(runs) : runs[i] \in Strings(S) /\ StringOf(l, layer, from, runs[i])
  <2>1. runs \in Seq(Strings(S)) /\ \A i \in 1..Len(runs) : StringOf(l, layer, from, runs[i])
    BY <1>4 DEF DoneOK
  <2>2. \A i \in 1..Len(runs) : runs[i] \in Strings(S)
    BY <2>1, ElementOfSeq
  <2> QED BY <2>1, <2>2
<1>6. \A o : OfLine(layer, from, count, o) <=> o \in 0..dataSize - 1 /\ LineOf(l, o) = line /\ layer[o] # NoItem
  <2>1. ASSUME NEW o PROVE OfLine(layer, from, count, o) <=> o \in 0..dataSize - 1 /\ LineOf(l, o) = line /\ layer[o] # NoItem
    <3>1. (\E c \in 0..l.capacity - 1 : o = from + c) <=> o \in Nat /\ LineOf(l, o) = line
      BY <1>1, <1>2, RowBytes
    <3>2. ASSUME NEW c \in 0..count - 1, o = from + c, layer[o] # NoItem
          PROVE  o \in 0..dataSize - 1 /\ LineOf(l, o) = line
      <4>1. c \in 0..l.capacity - 1 /\ c < count
        BY <1>1, <1>4
      <4>2. from + c < dataSize /\ o \in Nat /\ LineOf(l, o) = line
        BY <1>4, <3>1, <3>2, <4>1
      <4> QED BY <1>1, <3>2, <4>2
    <3>3. ASSUME o \in 0..dataSize - 1, LineOf(l, o) = line
          PROVE  \E c \in 0..count - 1 : o = from + c
      <4>1. PICK c \in 0..l.capacity - 1 : o = from + c
        BY <3>1, <3>3
      <4>2. c < count
        BY <1>1, <1>4, <3>3, <4>1
      <4>3. c \in 0..count - 1
        BY <1>4, <4>1, <4>2
      <4> QED BY <4>1, <4>3
    <3> QED BY <3>2, <3>3 DEF OfLine
  <2> QED BY <2>1
<1>7. \A i \in 1..Len(runs) : \A o : o \in ToSet(runs[i].text) <=> InText(runs[i], o)
  <2>1. ASSUME NEW i \in 1..Len(runs), NEW o PROVE o \in ToSet(runs[i].text) <=> InText(runs[i], o)
    <3> DEFINE text == runs[i].text
    <3>1. runs[i] \in Strings(S)
      BY <1>5
    <3>2. text \in Seq(Nat)
      BY <3>1 DEF Strings
    <3> HIDE DEF text
    <3>3. DOMAIN text = 1..Len(text)
      BY <3>2
    <3>4. o \in ToSet(text) <=> \E k \in 1..Len(text) : text[k] = o
      BY <3>3 DEF ToSet
    <3> QED BY <3>4 DEF text, InText
  <2> QED BY <2>1
<1>8. \A o : o \in DrawnBy(runs) <=> InDone(runs, o)
  BY <1>7 DEF DrawnBy, InDone
<1>9. DrawnBy(runs) = {o \in DOMAIN layer : LineOf(l, o) = line /\ layer[o] # NoItem}
  BY <1>4, <1>6, <1>8
<1>10. ASSUME NEW k \in 1..Len(runs) PROVE RunInPlace(layer, runs[k], y)
  <2> DEFINE r == runs[k]
  <2>1. r \in Strings(S) /\ StringOf(layout, layer, from, r)
    BY <1>5 DEF l
  <2>2. ASSUME NEW o, InText(r, o) PROVE o < dataSize
    <3>1. InDone(runs, o)
      BY <2>2 DEF InDone
    <3>2. o \in 0..dataSize - 1
      BY <1>4, <1>6, <3>1
    <3> QED BY <1>1, <3>2
  <2> HIDE DEF r
  <2>3. RunInPlace(layer, r, LineY(layout, line - TopLine(layout, view)))
    BY <2>1, <2>2, StringInPlace
  <2> QED BY <2>3 DEF r, y
<1> QED BY <1>9, <1>10 DEF LayerInPlace, y, l, runs

\* All layers of a line.
LEMMA LayersDrawn ==
  ASSUME ViewInv, dataSize > 0, HasRoom(layout, view), NEW line \in PaintedLines(layout, view),
         DOMAIN items = 0..dataSize - 1, NEW d \in Drawn(line)
  PROVE  LayerInPlace(d[1], d[2], line)
<1>1. RowFrom(line, line * layout.capacity)
  BY DEF RowFrom
<1>2. \A layer : DOMAIN layer = 0..dataSize - 1 => LayerInPlace(layer, LineRuns(layout, layer, line), line)
  BY <1>1, LayerDrawn
<1>3. DOMAIN Colours = 0..dataSize - 1 /\ DOMAIN Selection = 0..dataSize - 1
  BY DEF Colours, Selection
<1>4. \A size : DOMAIN Interpreted(size) = 0..dataSize - 1
  BY DEF Interpreted
<1>5. PICK layer : DOMAIN layer = 0..dataSize - 1 /\ d = <<layer, LineRuns(layout, layer, line)>>
  <2>1. \/ d = <<Colours, LineRuns(layout, Colours, line)>>
        \/ d = <<items, LineRuns(layout, items, line)>>
        \/ d = <<Selection, LineRuns(layout, Selection, line)>>
        \/ \E size \in {1, 4} : d = <<Interpreted(size), LineRuns(layout, Interpreted(size), line)>>
    BY Zenon DEF Drawn, DrawHexText, DrawTemplates, DrawBookmarks, DrawSelection, DrawSelHighlight, DrawDataInterp
  <2> QED BY <1>3, <1>4, <2>1, Zenon
<1>6. d[1] = layer /\ d[2] = LineRuns(layout, layer, line)
  BY <1>5
<1> QED BY <1>2, <1>5, <1>6
-----------------------------------------------------------------------------
(* Painting: the lines in sight                                            *)

\* An offset's line is drawn where HexChunkPoint says it is.
LEMMA ChunkYIs ==
  ASSUME NEW l \in Layouts, NEW v \in ViewRec, NEW o \in Nat
  PROVE  /\ LineOf(l, o) \in Nat /\ TopLine(l, v) \in Nat
         /\ ChunkY(l, v, o) = LineY(l, LineOf(l, o) - TopLine(l, v))
<1> DEFINE k == o \div l.capacity
           p == v.pos["V"]
           cy == l.cy
           top == p \div cy
<1>1. l.capacity \in Nat \ {0} /\ cy \in Nat \ {0} /\ p \in Nat
  BY LayoutFacts, BarsAre DEF ViewRec
<1>2. k \in Nat /\ top \in Nat
  BY <1>1, ModFacts
<1>3. p = cy * top + (p % cy) /\ p % cy \in Nat
  BY <1>1, DivMod, ModFacts
<1>4. StartY(l) \in Nat
  <2>1. 0 \in Nat
    OBVIOUS
  <2> QED BY <2>1, LimitFacts
<1>5. ChunkY(l, v, o) = StartY(l) + k * cy - (p - (p % cy))
  BY DEF ChunkY
<1>6. LineY(l, LineOf(l, o) - TopLine(l, v)) = StartY(l) + (k - top) * cy
  BY DEF LineY, LineOf, TopLine
<1> DEFINE rest == p % cy
           a == k * cy
           b == cy * top
<1> HIDE DEF k, p, top, rest, cy
<1>7. a \in Nat /\ b \in Nat /\ (k - top) * cy = a - b
  BY <1>1, <1>2
<1> HIDE DEF a, b
<1>8. p = b + rest /\ rest \in Nat
  BY <1>3 DEF b, rest
<1>9. ChunkY(l, v, o) = StartY(l) + a - (p - rest)
  BY <1>5 DEF a, rest
<1>10. StartY(l) + a - (p - rest) = StartY(l) + (a - b)
  BY <1>1, <1>4, <1>7, <1>8
<1>11. ChunkY(l, v, o) = LineY(l, LineOf(l, o) - TopLine(l, v))
  BY <1>6, <1>7, <1>9, <1>10
<1> QED BY <1>2, <1>11 DEF LineOf, TopLine, k, top, p, cy

\* Only a byte in the lines of the work area can be hit.
LEMMA HitInLines ==
  ASSUME NEW l, NEW v, NEW size, NEW x, NEW y, NEW o, o \in HitTest(l, v, size, x, y)
  PROVE  InWorkLines(l, v, y)
<1>1. ASSUME ~InWorkLines(l, v, y) PROVE HitTest(l, v, size, x, y) = {}
  BY <1>1 DEF HitTest
<1> QED BY <1>1

\* All lines in sight are drawn.
LEMMA LinesAreComplete ==
  ASSUME RoomForLines, ViewInv, dataSize > 0
  PROVE  LinesComplete
<1> DEFINE l == layout
           top == TopLine(layout, view)
           cy == layout.cy
<1>1. /\ layout \in Layouts /\ view \in ViewRec /\ dataSize \in Nat \ {0}
      /\ layout.capacity \in Nat \ {0} /\ cy \in Nat \ {0}
  BY InvFacts, LayoutFacts
<1>2. top \in Nat /\ top <= Lines(layout, dataSize) - 1
  BY TopInData
<1>3. Shown(layout, view) \in Int /\ Under(layout, view) \in Nat /\ WorkHeight(layout, view) = cy * Shown(layout, view)
  BY <1>1, ShownFacts
<1>4. StartY(layout) \in Nat
  <2>1. 0 \in Nat
    OBVIOUS
  <2> QED BY <1>1, <2>1, LimitFacts
<1>5. top \in InSight
  <2>1. top * layout.capacity < dataSize
    BY <1>1, <1>2, LineBelow
  <2> HIDE DEF top
  <2>2. top \in Int /\ top <= top + Under(layout, view)
    BY <1>2, <1>3
  <2> QED BY <2>1, <2>2, PaintedIff DEF top, InSight
<1>6. ASSUME NEW o \in 0..dataSize - 1,
             Hits(HexChunkX(layout, view, o), ChunkY(layout, view, o)) = {o},
             ChunkY(layout, view, o) < EndWork(layout, view)
      PROVE  LineOf(layout, o) \in InSight
  <2> DEFINE k == LineOf(layout, o)
             y == ChunkY(layout, view, o)
             n == Shown(layout, view)
             start == StartY(layout)
             d == k - top
  <2>1. o \in Nat /\ o < dataSize
    BY <1>1
  <2>2. k \in Nat /\ y = start + d * cy
    BY <1>1, <2>1, ChunkYIs DEF LineY
  <2>3. InWorkLines(layout, view, y)
    <3> HIDE DEF y
    <3>1. o \in HitTest(layout, view, dataSize, HexChunkX(layout, view, o), y)
      BY <1>6 DEF Hits, y
    <3> QED BY <3>1, HitInLines
  <2>4. start <= y /\ y < start + cy * n
    BY <1>3, <1>6, <2>3 DEF InWorkLines, EndWork
  <2> HIDE DEF k, y, n, start, top, cy, d
  <2>5. d \in Int /\ k = top + d
    BY <1>2, <2>2 DEF d
  <2>6. d * cy \in Int /\ cy * n \in Int /\ 0 <= d * cy /\ d * cy < cy * n
    BY <1>1, <1>3, <1>4, <2>2, <2>4, <2>5 DEF n, start
  <2>7. d >= 0
    <3>1. ASSUME d <= -1 PROVE FALSE
      <4>1. PICK m \in Nat : d = -1 - m
        <5>1. -1 - d \in Nat /\ d = -1 - (-1 - d)
          BY <2>5, <3>1
        <5> QED BY <5>1
      <4>2. d * cy = -cy - m * cy /\ m * cy \in Nat
        BY <1>1, <4>1
      <4> QED BY <1>1, <2>6, <4>2
    <3> QED BY <2>5, <3>1
  <2>8. d < n
    <3>1. ASSUME n <= d PROVE FALSE
      <4>1. PICK m \in Nat : d = n + m
        <5>1. d - n \in Nat /\ d = n + (d - n)
          BY <1>3, <2>5, <3>1 DEF n
        <5> QED BY <5>1
      <4>2. d * cy = cy * n + m * cy /\ m * cy \in Nat
        BY <1>1, <1>3, <4>1 DEF n
      <4> QED BY <2>6, <4>2
    <3> QED BY <1>3, <2>5, <3>1 DEF n
  <2>9. top <= k /\ k <= top + Under(layout, view)
    <3>1. Under(layout, view) = n - 1
      BY <1>3, <2>5, <2>7, <2>8 DEF Under, n
    <3> QED BY <1>2, <1>3, <2>5, <2>7, <2>8, <3>1 DEF n
  <2>10. k * layout.capacity < dataSize
    <3> DEFINE c == layout.capacity
    <3>1. o = c * k + (o % c) /\ o % c \in Nat
      BY <1>1, <2>1, DivMod, ModFacts DEF k, LineOf
    <3> DEFINE rest == o % c
    <3> HIDE DEF c, rest
    <3>2. c * k = k * c /\ k * c \in Nat
      BY <1>1, <2>2 DEF c
    <3>3. o = c * k + rest /\ rest \in Nat
      BY <3>1 DEF rest
    <3> QED BY <1>1, <2>1, <3>2, <3>3 DEF c
  <2> QED BY <2>2, <2>9, <2>10, PaintedIff DEF k, top, InSight
<1>7. InSight # {}
  BY <1>5
<1> HIDE DEF Hits
<1> QED BY <1>6, <1>7 DEF LinesComplete
-----------------------------------------------------------------------------
(* Painting: the rows                                                      *)

\* The spans of a selection are not empty.
SpansOK ==
  /\ Len(spans) \in Nat
  /\ \A k \in 1..Len(spans) : spans[k].offset \in Nat /\ spans[k].size \in Nat \ {0}

\* A row is marked if bytes of it are selected.
LEMMA RowMarked ==
  ASSUME SpansOK, NEW l \in Layouts, NEW line \in Nat, NEW from \in Nat, from = line * l.capacity
  PROVE  OffsetSelected(l, line) <=> \E o \in from..from + l.capacity - 1 : Selected(o)
<1> DEFINE cap == l.capacity
           Meets(k) ==
             LET begin == spans[k].offset
                 to    == begin + spans[k].size
             IN  \/ begin <= from /\ from < to
                 \/ from <= begin /\ begin < from + cap
                 \/ begin < from + cap /\ from + cap <= to
<1>1. cap \in Nat \ {0}
  BY LayoutFacts
<1>2. OffsetSelected(l, line) <=> \E k \in 1..Len(spans) : Meets(k)
  BY DEF OffsetSelected
<1>3. ASSUME NEW k \in 1..Len(spans)
      PROVE  Meets(k) <=> \E o \in from..from + cap - 1 :
                             o \in spans[k].offset..spans[k].offset + spans[k].size - 1
  <2> DEFINE begin == spans[k].offset
             size == spans[k].size
             to == begin + size
  <2>1. begin \in Nat /\ size \in Nat \ {0}
    BY DEF SpansOK
  <2> HIDE DEF cap, begin, size
  <2>2. ASSUME NEW o \in from..from + cap - 1, o \in begin..to - 1
        PROVE  (begin <= from /\ from < to) \/ (from <= begin /\ begin < from + cap)
    BY <1>1, <2>1, <2>2
  <2>3. ASSUME begin <= from, from < to PROVE from \in from..from + cap - 1 /\ from \in begin..to - 1
    BY <1>1, <2>1, <2>3
  <2>4. ASSUME from <= begin, begin < from + cap PROVE begin \in from..from + cap - 1 /\ begin \in begin..to - 1
    BY <1>1, <2>1, <2>4
  <2>5. ASSUME begin < from + cap, from + cap <= to, ~(from <= begin)
        PROVE  from + cap - 1 \in from..from + cap - 1 /\ from + cap - 1 \in begin..to - 1
    BY <1>1, <2>1, <2>5
  <2>6. Meets(k) <=> \/ begin <= from /\ from < to
                     \/ from <= begin /\ begin < from + cap
                     \/ begin < from + cap /\ from + cap <= to
    BY DEF begin, size
  <2>7. (\E o \in from..from + cap - 1 : o \in begin..to - 1) <=> Meets(k)
    <3> HIDE DEF Meets, to
    <3> QED BY <2>2, <2>3, <2>4, <2>5, <2>6
  <2>8. begin + size - 1 = to - 1
    BY <2>1
  <2> QED BY <2>7, <2>8 DEF begin, size
<1>4. \A o : Selected(o) <=> \E k \in 1..Len(spans) : o \in spans[k].offset..spans[k].offset + spans[k].size - 1
  BY DEF Selected
<1> HIDE DEF Meets, cap
<1> QED BY <1>2, <1>3, <1>4, Zenon DEF cap

\* The last byte of the lines down to one of the data is in that line.
LEMMA LastOfLine ==
  ASSUME NEW l \in Layouts, dataSize \in Nat, NEW top \in Nat, NEW line \in Nat, top <= line,
         line * l.capacity < dataSize
  PROVE  LineOf(l, top * l.capacity + (BytesToDraw(l, top, line - top + 1) - 1)) = line
<1> DEFINE cap == l.capacity
           a == top * cap
           b == line * cap
           count == BytesToDraw(l, top, line - top + 1)
           o == a + (count - 1)
           rest == Least(cap, dataSize - b) - 1
<1>1. cap \in Nat \ {0}
  BY LayoutFacts
<1>2. a \in Nat /\ b \in Nat /\ (line - top + 1) * cap = (b - a) + cap /\ cap * line = b
  BY <1>1
<1>3. count = Least((line - top + 1) * cap, dataSize - a)
  BY DEF BytesToDraw
<1> HIDE DEF a, b, cap, count, o
<1>4. b < dataSize
  BY DEF b, cap
<1>5. count = Least((b - a) + cap, dataSize - a)
  BY <1>2, <1>3
<1>6. rest \in 0..cap - 1 /\ o = b + rest /\ o \in Nat
  BY <1>1, <1>2, <1>4, <1>5 DEF Least, o
<1> HIDE DEF rest
<1>7. o = cap * line + rest
  BY <1>2, <1>6
<1>8. o \div cap = line
  BY <1>1, <1>6, <1>7, QuotientIs
<1> QED BY <1>8 DEF LineOf, o, a, count, cap

\* Each row drawn is in its place.
LEMMA RowsAreInPlace ==
  ASSUME ViewInv, SpansOK, dataSize > 0, HasRoom(layout, view), NEW line \in InSight
  PROVE  RowInPlace(line)
<1> DEFINE l == layout
           cap == l.capacity
           top == TopLine(layout, view)
           from == line * cap
           y == LineY(layout, line - top)
           row == DrawOffsets(layout, view)[line]
<1>1. layout \in Layouts /\ view \in ViewRec /\ dataSize \in Nat /\ cap \in Nat \ {0}
  BY InvFacts
<1>2. /\ line \in Nat /\ from \in Nat /\ from < dataSize /\ top \in Nat /\ top <= line
      /\ y \in Int /\ EndWork(layout, view) \in Int /\ StartY(layout) \in Nat /\ StartY(layout) <= y
      /\ y < EndWork(layout, view) => y + layout.cy <= EndWork(layout, view)
      /\ EndWork(layout, view) <= view.client["V"] - BottomOff(layout)
  BY PaintedFacts DEF InSight
<1>3. row = [offset |-> from, y |-> y, selected |-> OffsetSelected(layout, line)]
  BY DEF DrawOffsets, InSight
<1>4. row.offset = from /\ row.y = y /\ row.selected = OffsetSelected(layout, line)
  BY <1>3
<1>5. OffsetSelected(layout, line) <=> \E o \in from..from + cap - 1 : Selected(o)
  BY <1>1, <1>2, RowMarked
<1>6. ChunkY(layout, view, from) = y
  <2>1. from = cap * line + 0 /\ 0 \in 0..cap - 1
    BY <1>1, <1>2
  <2> HIDE DEF cap, from
  <2>2. from \div cap = line
    BY <1>1, <1>2, <2>1, QuotientIs
  <2>3. ChunkY(layout, view, from) = LineY(layout, LineOf(layout, from) - TopLine(layout, view))
    BY <1>1, <1>2, ChunkYIs
  <2> QED BY <2>2, <2>3 DEF LineOf, cap
<1>7. LineOf(layout, top * cap + (BytesToDraw(layout, top, line - top + 1) - 1)) = line
  BY <1>1, <1>2, LastOfLine
<1>8. /\ HorzLines(layout, view)[2] = StartY(layout) - 1
      /\ HorzLines(layout, view)[3] = view.client["V"] - BottomOff(layout)
  BY DEF HorzLines
<1>9. layout.cy \in Nat /\ view.client["V"] \in Int /\ BottomOff(layout) \in Nat
  <2>1. 0 \in Nat
    OBVIOUS
  <2> QED BY <1>1, <2>1, LayoutFacts, LimitFacts, BarsAre DEF ViewRec
<1> HIDE DEF row, y, from, top
<1>10. HorzLines(layout, view)[2] < y
  BY <1>2, <1>8
<1>11. y < EndWork(layout, view) => y + layout.cy <= HorzLines(layout, view)[3]
  BY <1>2, <1>8, <1>9
<1>12. row.selected <=> \E o \in from..from + cap - 1 : Selected(o)
  BY <1>4, <1>5
<1>13. row.y = ChunkY(layout, view, row.offset)
  BY <1>4, <1>6
<1> DEFINE last == BytesToDraw(layout, top, line - top + 1) - 1
<1>14. LineOf(layout, top * cap + last) = line
  BY <1>7
<1> HIDE DEF last
<1>15. row.y < EndWork(layout, view) => row.y + layout.cy <= HorzLines(layout, view)[3]
  BY <1>4, <1>11
<1>16. HorzLines(layout, view)[2] < row.y
  BY <1>4, <1>10
<1> QED BY <1>2, <1>12, <1>13, <1>14, <1>15, <1>16, Zenon DEF RowInPlace, row, from, top, last, cap
-----------------------------------------------------------------------------
(* Painting: the lines of the pages                                        *)

IsProduct(a, m, n) == a = m * n

\* Pages of whole lines: the quotient and the rest of a line's offset.
LEMMA PageOfLine ==
  ASSUME NEW line \in Nat, NEW cap \in Nat \ {0}, NEW m \in Nat \ {0},
         NEW size, IsProduct(size, m, cap), NEW d, IsProduct(d, line, cap)
  PROVE  d \div size = line \div m /\ (d % size = 0 <=> line % m = 0)
<1> DEFINE q == line \div m
           r == line % m
           rest == r * cap
<1>1. size = m * cap /\ d = line * cap
  BY DEF IsProduct
<1>2. q \in Nat /\ r \in 0..m - 1 /\ line = m * q + r
  BY ModFacts, DivMod
<1> HIDE DEF q, r
<1>3. rest \in Nat /\ size \in Nat \ {0}
  BY <1>1, <1>2
<1>4. d = size * q + rest
  BY <1>1, <1>2
<1>5. rest \in 0..size - 1
  <2>1. cap * (r + 1) <= cap * m
    BY <1>2, MulMono
  <2>2. cap * (r + 1) = rest + cap /\ cap * m = size
    BY <1>1, <1>2
  <2> HIDE DEF rest
  <2> QED BY <1>3, <2>1, <2>2
<1>6. rest = 0 <=> r = 0
  <2>1. ASSUME r # 0 PROVE rest # 0
    <3>1. cap * 1 <= cap * r
      BY <1>2, <2>1, MulMono
    <3>2. cap * 1 = cap /\ cap * r = rest
      BY <1>2
    <3> QED BY <3>1, <3>2
  <2>2. ASSUME r = 0 PROVE rest = 0
    BY <2>2
  <2> QED BY <2>1, <2>2
<1>7. d \in Nat
  BY <1>1
<1> HIDE DEF rest
<1>8. d \div size = q /\ d % size = rest
  BY <1>2, <1>3, <1>4, <1>5, <1>7, QuotientIs
<1> QED BY <1>6, <1>8 DEF q, r

LEMMA BottomIsInt ==
  ASSUME NEW l \in Layouts, NEW v \in ViewRec, NEW size \in Nat
  PROVE  BottomLine(l, v, size) \in Int
<1>1. l.capacity \in Nat \ {0} /\ TopLine(l, v) \in Nat /\ Under(l, v) \in Nat
  BY LayoutFacts, TopLineFacts, ShownFacts
<1> DEFINE total == size \div l.capacity
           end == TopLine(l, v) + Under(l, v)
<1>2. BottomLine(l, v, size)
        = IF end >= total THEN total - (IF size % l.capacity = 0 THEN 1 ELSE 0) ELSE end
  BY DEF BottomLine, Under, Shown
<1>3. total \in Nat
  BY <1>1, ModFacts
<1> HIDE DEF total
<1>4. end \in Nat
  BY <1>1
<1> HIDE DEF end
<1> QED BY <1>2, <1>3, <1>4

\* A line is drawn only between lines of two pages, and between all of them.
LEMMA PagesAreApart ==
  ASSUME ViewInv, dataSize > 0, NEW size \in Nat \ {0}
  PROVE  PagesApart(InSight, size)
<1> DEFINE l == layout
           cap == layout.capacity
           cy == layout.cy
           top == TopLine(layout, view)
           bottom == BottomLine(layout, view, dataSize)
           pageOf(k) == (k * layout.capacity) \div size
           yOf(k) == LineY(layout, k - TopLine(layout, view))
           drawn == DrawPageLines(layout, view, size)
<1>1. /\ layout \in Layouts /\ view \in ViewRec /\ dataSize \in Nat /\ cap \in Nat \ {0}
      /\ cy \in Nat \ {0}
  BY InvFacts, LayoutFacts
<1>2. top \in Nat /\ InSight = top..bottom /\ StartY(layout) \in Nat
  <2>1. 0 \in Nat
    OBVIOUS
  <2> QED BY <1>1, <2>1, TopLineFacts, LimitFacts DEF InSight, PaintedLines
<1>3. bottom \in Int
  BY <1>1, BottomIsInt
<1>4. SUFFICES ASSUME NEW line \in InSight
               PROVE  yOf(line) \in drawn <=> /\ line - 1 \in InSight
                                              /\ size % layout.capacity = 0
                                              /\ pageOf(line - 1) # pageOf(line)
  BY DEF PagesApart
<1>5. line \in Nat /\ top <= line /\ line <= bottom
  BY <1>2
<1>6. line - 1 \in InSight <=> top <= line - 1
  <2> HIDE DEF top, bottom
  <2> QED BY <1>2, <1>5, <1>3
<1>7. CASE size % cap # 0
  <2>1. drawn = {}
    BY <1>7 DEF DrawPageLines, IsPageVisible
  <2> QED BY <1>7, <2>1
<1>8. CASE size % cap = 0
  <2>1. PICK m \in Nat \ {0} : size = m * cap
    BY <1>1, <1>8, Divides
  <2>2. size >= cap
    <3> HIDE DEF cap
    <3>1. cap * 1 <= cap * m
      BY <1>1, <2>1, MulMono
    <3>2. cap * 1 = cap /\ cap * m = size
      BY <1>1, <2>1
    <3> QED BY <1>1, <3>1, <3>2
  <2> DEFINE Ends(n) == ((top + n) * cap) % size = 0
  <2>3. drawn = {LineY(layout, n) : n \in {n \in 1..bottom - top : Ends(n)}}
    BY <1>8, <2>2 DEF DrawPageLines, IsPageVisible
  <2>4. yOf(line) \in drawn <=> top <= line - 1 /\ (line * cap) % size = 0
    <3> DEFINE d == line - top
    <3> HIDE DEF Ends, top, bottom, cy, drawn
    <3>1. d \in Nat /\ top + d = line /\ (d >= 1 <=> top <= line - 1) /\ d <= bottom - top
      BY <1>2, <1>5, <1>3
    <3> HIDE DEF d
    <3>2. yOf(line) = LineY(layout, d)
      BY DEF d, top
    <3>3. ASSUME yOf(line) \in drawn PROVE d >= 1 /\ Ends(d)
      <4>1. PICK n \in 1..bottom - top : Ends(n) /\ yOf(line) = LineY(layout, n)
        BY <2>3, <3>3
      <4>2. LineY(layout, d) = LineY(layout, n)
        BY <3>2, <4>1
      <4>3. n \in Nat /\ n >= 1
        BY <4>1
      <4> DEFINE a == d * cy
                 b == n * cy
      <4>4. a \in Nat /\ b \in Nat /\ StartY(layout) + a = StartY(layout) + b
        BY <1>1, <3>1, <4>2, <4>3 DEF LineY, cy
      <4> HIDE DEF a, b
      <4>5. a = b
        BY <1>2, <4>4
      <4>6. n = d
        <5>1. ASSUME NEW i \in Nat, NEW j \in Nat, i < j PROVE i * cy # j * cy
          <6>1. cy * (i + 1) <= cy * j
            BY <1>1, <5>1, MulMono
          <6>2. cy * (i + 1) = i * cy + cy /\ cy * j = j * cy /\ i * cy \in Nat
            BY <1>1
          <6> DEFINE e == i * cy
          <6> HIDE DEF e
          <6>3. e + cy <= j * cy /\ e \in Nat
            BY <6>1, <6>2 DEF e
          <6>4. ASSUME e = j * cy PROVE FALSE
            BY <1>1, <6>3, <6>4
          <6> QED BY <6>4 DEF e
        <5>2. ~(n < d) /\ ~(d < n)
          BY <3>1, <4>3, <4>5, <5>1 DEF a, b
        <5> QED BY <3>1, <4>3, <5>2
      <4> QED BY <4>1, <4>3, <4>6
    <3>4. ASSUME d >= 1, Ends(d) PROVE yOf(line) \in drawn
      <4>1. d \in 1..bottom - top
        BY <1>2, <1>3, <3>1, <3>4
      <4> QED BY <2>3, <3>2, <3>4, <4>1
    <3>5. Ends(d) <=> (line * cap) % size = 0
      BY <3>1 DEF Ends
    <3> QED BY <3>1, <3>3, <3>4, <3>5
  <2>5. /\ (line * cap) % size = 0 <=> line % m = 0
        /\ pageOf(line) = line \div m
    <3> HIDE DEF cap
    <3>1. line \in Nat /\ cap \in Nat \ {0}
      BY <1>1, <1>5
    <3> DEFINE d == line * cap
    <3>2. IsProduct(d, line, cap) /\ IsProduct(size, m, cap)
      BY <2>1 DEF IsProduct
    <3> HIDE DEF d
    <3>3. d \div size = line \div m /\ (d % size = 0 <=> line % m = 0)
      BY <3>1, <3>2, PageOfLine
    <3> QED BY <3>3 DEF d, cap
  <2>6. ASSUME top <= line - 1
        PROVE  line % m = 0 <=> pageOf(line - 1) # pageOf(line)
    <3>1. line - 1 \in Nat /\ (line - 1) + 1 = line
      BY <1>2, <1>5, <2>6
    <3> DEFINE k == line - 1
    <3> HIDE DEF k
    <3>2. pageOf(k) = k \div m /\ k \div m \in Nat
      <4> HIDE DEF cap
      <4>1. k \in Nat
        BY <3>1 DEF k
      <4>2. (k * cap) \div size = k \div m
        <5>1. IsProduct(k * cap, k, cap) /\ IsProduct(size, m, cap)
          BY <2>1 DEF IsProduct
        <5> QED BY <1>1, <4>1, <5>1, PageOfLine
      <4> QED BY <4>1, <4>2, ModFacts DEF cap
    <3>3. line \div m = (k \div m) + (IF line % m = 0 THEN 1 ELSE 0)
      <4>1. (k + 1) \div m = (k \div m) + (IF (k + 1) % m = 0 THEN 1 ELSE 0)
        BY <3>1, NextQuotient DEF k
      <4>2. k + 1 = line
        BY <3>1 DEF k
      <4> QED BY <4>1, <4>2
    <3> DEFINE q == k \div m
    <3> HIDE DEF q, pageOf
    <3>4. pageOf(k) = q /\ q \in Nat /\ pageOf(line) = q + (IF line % m = 0 THEN 1 ELSE 0)
      BY <2>5, <3>2, <3>3 DEF q
    <3>5. line % m = 0 <=> pageOf(k) # pageOf(line)
      BY <3>4
    <3> QED BY <3>5 DEF k
  <2> HIDE DEF pageOf, yOf, drawn, top
  <2> QED BY <1>6, <1>8, <2>4, <2>5, <2>6 DEF cap
<1> QED BY <1>7, <1>8
-----------------------------------------------------------------------------
(* Painting: the caret                                                     *)

\* The caret is drawn where its byte is hit.
LEMMA CaretIsInPlace ==
  ASSUME ViewInv, dataSize > 0, HasRoom(layout, view)
  PROVE  CaretInPlace
<1> DEFINE o == caretPos
           cap == layout.capacity
           line == LineOf(layout, o)
           from == line * cap
           c == o % cap
           h == view.pos["H"]
           E == ExtraWidth
<1>1. /\ layout \in Layouts /\ view \in ViewRec /\ dataSize \in Nat \ {0}
      /\ cap \in Nat \ {0} /\ o \in 0..dataSize - 1
  BY InvFacts DEF ViewInv, Greatest
<1>2. o \in Nat /\ line \in Nat /\ from \in Nat /\ c \in 0..cap - 1 /\ o = from + c
  <2>1. o \in Nat /\ line = o \div cap
    BY <1>1 DEF LineOf
  <2>2. c \in 0..cap - 1 /\ line \in Nat /\ o = cap * line + c
    BY <1>1, <2>1, ModFacts, DivMod
  <2> HIDE DEF line, c, cap
  <2> QED BY <1>1, <2>1, <2>2
<1>3. E \in Nat \ {0} /\ FirstHex \in Nat /\ h \in Nat
  BY <1>1, WidthFacts, BarsAre DEF ViewRec
<1>4. SUFFICES ASSUME VertVisible(layout, view, dataSize, o)
               PROVE  /\ line \in InSight
                      /\ \A high \in BOOLEAN : Hits(CaretX(layout, view, high), ChunkY(layout, view, o)) = {o}
  <2> HIDE DEF Hits
  <2> QED BY DEF CaretInPlace
<1>5. line \in InSight
  <2>1. TopLine(layout, view) <= line /\ line <= TopLine(layout, view) + Under(layout, view)
    BY <1>1, <1>4, InSightIff DEF LineOf
  <2>2. from < dataSize
    <3> HIDE DEF from, c, cap, o
    <3> QED BY <1>1, <1>2
  <2> HIDE DEF line
  <2> QED BY <1>2, <2>1, <2>2, PaintedIff DEF InSight
<1>6. ChunkY(layout, view, o) = LineY(layout, line - TopLine(layout, view))
  BY <1>1, <1>2, ChunkYIs
<1>7. HexChunkX(layout, view, o) = ColumnAt(layout, c) - h
  <2> HIDE DEF line, c, h
  <2> QED BY <1>1, <1>2, ByteOfRow DEF h
<1>8. Chars(layout, c) \in Nat /\ ColumnAt(layout, c) = FirstHex + Chars(layout, c) * E
  <2> HIDE DEF c
  <2>1. c \in 0..layout.capacity
    BY <1>1, <1>2
  <2> QED BY <1>1, <2>1, CharsFacts
<1> HIDE DEF c, o, line, from, h, E, cap
<1>9. ASSUME NEW high \in BOOLEAN
      PROVE  Hits(CaretX(layout, view, high), ChunkY(layout, view, o)) = {o}
  <2> DEFINE half == IF high THEN 0 ELSE 1
             q == Chars(layout, c) + half
             x == CaretX(layout, view, high)
             cell == [offset |-> from + c, high |-> high]
  <2>1. q \in Nat
    BY <1>8
  <2>2. x = FirstHex + q * E - h
    <3> DEFINE u == Chars(layout, c) * E
    <3>1. x = (ColumnAt(layout, c) - h) + (IF high THEN 0 ELSE E)
      BY <1>7 DEF CaretX, o, E
    <3>2. u \in Nat /\ q * E = u + (IF high THEN 0 ELSE E)
      BY <1>3, <1>8
    <3> HIDE DEF u, q, x
    <3> QED BY <1>3, <1>8, <3>1, <3>2 DEF u
  <2>3. CellAt(layout, from, c, c, cell, q)
    <3> HIDE DEF cell, q
    <3>1. c \in c..c
      BY <1>1, <1>2
    <3>2. cell = [offset |-> from + c, high |-> high] /\ q = Chars(layout, c) + (IF high THEN 0 ELSE 1)
      BY DEF cell, q
    <3> QED BY <3>1, <3>2 DEF CellAt
  <2> HIDE DEF q, x, cell
  <2>4. IsPlace(q, x)
    BY <2>2 DEF IsPlace, h, E
  <2>5. RowFrom(line, from)
    BY <1>5 DEF RowFrom, InSight, from, cap
  <2>6. c \in Nat /\ c \in 0..layout.capacity - 1 /\ from + c < dataSize
    BY <1>1, <1>2 DEF cap
  <2>7. CellHits(line, from, c, c, cell, x)
    BY <1>4, <2>1, <2>3, <2>4, <2>5, <2>6, CellHit
  <2>8. PICK d \in c..c : HitTest(layout, view, dataSize, x, LineY(layout, line - TopLine(layout, view))) = {from + d}
    BY <2>7 DEF CellHits
  <2>9. d = c
    BY <1>1, <1>2, <2>6
  <2> QED BY <1>2, <1>6, <2>8, <2>9 DEF Hits, x
<1> QED BY <1>5, <1>9
-----------------------------------------------------------------------------
(* Painting: the caption                                                   *)

\* What the caption has for its column n.
CaptionPart(l, n) ==
  Digits2(n - 1)
    \o (IF n % l.group = 0 /\ n < l.capacity THEN <<Gap>> ELSE <<>>)
    \o (IF l.group = 1 /\ n = l.capacity \div 2 THEN <<Gap, Gap>> ELSE <<>>)

\* The number of the column and, but for the last, the spaces before the next.
LEMMA PartIs ==
  ASSUME NEW l \in Layouts, NEW c \in 0..l.capacity - 1
  PROVE  CaptionPart(l, c + 1) = Digits2(c) \o (IF c + 1 < l.capacity THEN Spaces(l, c + 1) ELSE <<>>)
<1> DEFINE cap == l.capacity
           more == (c + 1) % l.group = 0
           apart == l.group = 1 /\ c + 1 = cap \div 2
           one == IF more /\ c + 1 < cap THEN <<Gap>> ELSE <<>>
           two == IF apart THEN <<Gap, Gap>> ELSE <<>>
           digits == Digits2(c)
           none == <<>>
<1>1. cap \in Nat \ {0} /\ (c + 1) - 1 = c /\ c + 1 <= cap
  BY LayoutFacts
<1>2. CaptionPart(l, c + 1) = digits \o one \o two
  BY <1>1 DEF CaptionPart
<1>3. digits \in Seq(Cells)
  <2>1. c \in 0..c /\ 0 \in Nat
    OBVIOUS
  <2>2. Digits2(0 + c) \in Seq(Cells) /\ 0 + c = c
    <3>1. 0 \in Nat /\ c \in 0..l.capacity - 1 /\ 0 \in 0..c
      BY <1>1
    <3>2. Digits2(0 + c) \in Seq(Cells)
      BY <3>1, DigitsStand
    <3> QED BY <1>1, <3>2
  <2> QED BY <2>2
<1>4. one \in Seq(Cells) /\ two \in Seq(Cells) /\ none \in Seq(Cells)
  <2>1. Gap \in Cells
    BY DEF Cells
  <2>2. <<Gap>> \in Seq(Cells) /\ <<Gap, Gap>> \in Seq(Cells) /\ none \in Seq(Cells)
    BY <2>1
  <2>3. one = <<Gap>> \/ one = none
    OBVIOUS
  <2>4. two = <<Gap, Gap>> \/ two = none
    OBVIOUS
  <2> HIDE DEF one, two, none
  <2> QED BY <2>2, <2>3, <2>4
<1>5. c + 1 < cap => one \o two = Spaces(l, c + 1)
  BY DEF Spaces
<1>6. ~(c + 1 < cap) => one = none /\ two = none
  <2>1. ~(cap <= cap \div 2)
    BY <1>1
  <2> QED BY <1>1, <2>1
<1>7. digits \o one \o two = digits \o (one \o two)
  <2> HIDE DEF one, two, digits
  <2> QED BY <1>3, <1>4, ConcatAssociative
<1>8. none \o none = none
  <2> HIDE DEF none
  <2>1. none = <<>>
    BY DEF none
  <2> QED BY <1>4, <2>1, ConcatEmptySeq
<1> DEFINE more2 == IF c + 1 < cap THEN Spaces(l, c + 1) ELSE none
<1>9. one \o two = more2
  <2> HIDE DEF one, two, none
  <2>1. CASE c + 1 < cap
    BY <1>5, <2>1
  <2>2. CASE ~(c + 1 < cap)
    BY <1>6, <1>8, <2>2
  <2> QED BY <2>1, <2>2
<1> HIDE DEF one, two, digits, more2
<1>10. CaptionPart(l, c + 1) = digits \o more2
  BY <1>2, <1>7, <1>9
<1> QED BY <1>10 DEF digits, more2, cap, none

\* It stands where the column does.
LEMMA PartStands ==
  ASSUME NEW l \in Layouts, NEW c \in 0..l.capacity - 1
  PROVE  /\ CaptionPart(l, c + 1) \in Seq(Cells)
         /\ CellsAt(l, 0, 0, c, CaptionPart(l, c + 1), Chars(l, c))
         /\ c + 1 < l.capacity => Chars(l, c) + Len(CaptionPart(l, c + 1)) = Chars(l, c + 1)
<1> DEFINE digits == Digits2(c)
           p == Chars(l, c)
           q == p + 2
           part == CaptionPart(l, c + 1)
           gaps == Spaces(l, c + 1)
           none == <<>>
<1>1. l.capacity \in Nat \ {0} /\ c \in Nat /\ c \in Int /\ c <= c /\ 0 \in 0..c /\ 0 \in Nat
  BY LayoutFacts
<1>2. p \in Nat
  <2>1. c \in 0..l.capacity
    BY <1>1
  <2> QED BY <2>1, CharsFacts
<1>3. digits \in Seq(Cells) /\ Len(digits) = 2 /\ CellsAt(l, 0, 0, c, digits, p)
  <2> DEFINE from == 0
             o == from + c
  <2>1. o = c /\ from \in Nat /\ 0 \in 0..c
    BY <1>1
  <2> HIDE DEF from
  <2>2. Digits2(o) \in Seq(Cells) /\ Len(Digits2(o)) = 2 /\ CellsAt(l, from, 0, c, Digits2(o), p)
    BY <2>1, DigitsStand
  <2> HIDE DEF o
  <2>3. Digits2(o) = digits
    BY <2>1
  <2> QED BY <2>2, <2>3 DEF from
<1>4. q = p + Len(digits)
  BY <1>3
<1> HIDE DEF digits, p, q
<1>5. CASE c + 1 < l.capacity
  <2>1. c \in 0..l.capacity - 2
    BY <1>1, <1>5
  <2>2. gaps \in Seq(Cells) /\ CellsAt(l, 0, 0, c, gaps, q) /\ q + Len(gaps) = Chars(l, c + 1)
    BY <1>1, <2>1, SpacesStand DEF p, q
  <2>3. part = digits \o gaps
    BY <1>5, PartIs DEF digits
  <2> HIDE DEF gaps, part
  <2>4. Behind(digits, p, gaps, q, part)
    BY <1>4, <2>3 DEF Behind
  <2>5. part \in Seq(Cells) /\ Len(part) = Len(digits) + Len(gaps) /\ CellsAt(l, 0, 0, c, part, p)
    BY <1>1, <1>2, <1>3, <2>2, <2>4, CellsMore
  <2>6. p + Len(part) = Chars(l, c + 1)
    <3>1. Len(gaps) \in Nat /\ Len(digits) \in Nat
      BY <1>3, <2>2, LenProperties
    <3> QED BY <1>2, <1>4, <2>2, <2>5, <3>1
  <2> QED BY <2>5, <2>6 DEF part, p
<1>6. CASE ~(c + 1 < l.capacity)
  <2>1. part = digits \o none
    BY <1>6, PartIs DEF digits
  <2>2. digits \o none = digits
    BY <1>3, ConcatEmptySeq
  <2> HIDE DEF part
  <2>3. part = digits
    BY <2>1, <2>2
  <2> QED BY <1>3, <1>6, <2>3 DEF part, p
<1> QED BY <1>5, <1>6

\* The caption up to a column.
UpTo(l, n, chars) ==
  /\ chars \in Seq(Cells) /\ CellsAt(l, 0, 0, n - 1, chars, 0)
  /\ n < l.capacity => Len(chars) = Chars(l, n)

LEMMA PartBehind ==
  ASSUME NEW l \in Layouts, NEW c \in 1..l.capacity - 1, NEW chars, UpTo(l, c, chars)
  PROVE  UpTo(l, c + 1, chars \o CaptionPart(l, c + 1))
<1> DEFINE part == CaptionPart(l, c + 1)
           all == chars \o part
           p == Chars(l, c)
<1>1. l.capacity \in Nat \ {0} /\ c \in Nat /\ c \in 0..l.capacity - 1 /\ c < l.capacity
      /\ c - 1 \in Int /\ c \in Int /\ c - 1 <= c /\ 0 \in Nat /\ (c + 1) - 1 = c
  BY LayoutFacts
<1>2. /\ part \in Seq(Cells) /\ CellsAt(l, 0, 0, c, part, p)
      /\ c + 1 < l.capacity => p + Len(part) = Chars(l, c + 1)
  BY <1>1, PartStands
<1>3. chars \in Seq(Cells) /\ CellsAt(l, 0, 0, c - 1, chars, 0) /\ Len(chars) = p
  BY <1>1 DEF UpTo
<1>4. p \in Nat
  <2>1. c \in 0..l.capacity
    BY <1>1
  <2> QED BY <2>1, CharsFacts
<1> HIDE DEF part, p
<1>5. Behind(chars, 0, part, p, all)
  BY <1>3, <1>4 DEF Behind
<1> HIDE DEF all
<1>6. all \in Seq(Cells) /\ Len(all) = Len(chars) + Len(part) /\ CellsAt(l, 0, 0, c, all, 0)
  <2> DEFINE b == c - 1
  <2>1. b \in Int /\ b <= c /\ CellsAt(l, 0, 0, b, chars, 0)
    BY <1>1, <1>3
  <2> HIDE DEF b
  <2> QED BY <1>1, <1>2, <1>3, <1>5, <2>1, CellsMore
<1>7. UpTo(l, c + 1, all)
  BY <1>1, <1>2, <1>3, <1>6 DEF UpTo
<1> QED BY <1>7 DEF all, part

\* The caption's numbers stand where their columns do.
LEMMA CaptionStands ==
  ASSUME NEW l \in Layouts
  PROVE  CellsAt(l, 0, 0, l.capacity - 1, Caption(l), 0)
<1> DEFINE cap == l.capacity
           parts == [n \in 1..cap |-> CaptionPart(l, n)]
<1>1. cap \in Nat \ {0}
  BY LayoutFacts
<1>2. Caption(l) = FlattenSeq(parts)
  BY DEF Caption, CaptionPart
<1>3. \A n \in 1..cap : CaptionPart(l, n) \in Seq(Cells)
  <2>1. ASSUME NEW n \in 1..cap PROVE CaptionPart(l, n) \in Seq(Cells)
    <3> DEFINE c == n - 1
    <3>1. c \in 0..l.capacity - 1 /\ c + 1 = n
      BY <1>1
    <3> HIDE DEF c
    <3>2. CaptionPart(l, c + 1) \in Seq(Cells)
      BY <3>1, PartStands
    <3> QED BY <3>1, <3>2
  <2> QED BY <2>1
<1>4. parts \in Seq(Seq(Cells)) /\ Len(parts) = cap /\ \A n \in 1..cap : parts[n] = CaptionPart(l, n)
  BY <1>1, <1>3
<1> HIDE DEF parts
<1>5. PICK f : Flattens(f, parts)
  <2>1. Len(parts) # 0
    BY <1>1, <1>4
  <2> QED BY <1>4, <2>1, FlattenIs
<1>6. /\ Caption(l) = f[cap] /\ f[1] = CaptionPart(l, 1)
      /\ \A n \in 2..cap : f[n] = f[n - 1] \o CaptionPart(l, n)
  <2>1. f[cap] = FlattenSeq(parts) /\ f[1] = parts[1] /\ \A n \in 2..cap : f[n] = f[n - 1] \o parts[n]
    BY <1>4, <1>5 DEF Flattens
  <2>2. 1 \in 1..cap /\ \A n \in 2..cap : n \in 1..cap
    BY <1>1
  <2> HIDE DEF cap
  <2> QED BY <1>2, <1>4, <2>1, <2>2
<1>7. UpTo(l, 1, f[1])
  <2> DEFINE zero == 0
  <2>1. zero \in 0..l.capacity - 1 /\ zero + 1 = 1 /\ 1 - 1 = zero
    BY <1>1
  <2>2. Chars(l, zero) = 0
    <3>1. l.group \in Nat \ {0} /\ 0 \div l.group = 0
      <4>1. l.group \in Nat \ {0} /\ 0 = l.group * 0 + 0 /\ 0 \in 0..l.group - 1
        BY LayoutFacts
      <4> QED BY <4>1, QuotientIs
    <3>2. l.capacity > 1 => ~(0 >= l.capacity \div 2)
      BY <1>1
    <3> QED BY <3>1, <3>2 DEF Chars
  <2> HIDE DEF zero
  <2>3. /\ CaptionPart(l, zero + 1) \in Seq(Cells)
        /\ CellsAt(l, 0, 0, zero, CaptionPart(l, zero + 1), Chars(l, zero))
        /\ zero + 1 < l.capacity => Chars(l, zero) + Len(CaptionPart(l, zero + 1)) = Chars(l, zero + 1)
    BY <2>1, PartStands
  <2>4. Len(CaptionPart(l, 1)) \in Nat
    BY <2>1, <2>3, LenProperties
  <2> QED BY <1>6, <2>1, <2>2, <2>3, <2>4 DEF UpTo
<1> DEFINE Bad == {n \in 1..cap : ~UpTo(l, n, f[n])}
<1>8. Bad = {}
  <2> SUFFICES ASSUME Bad # {} PROVE FALSE
    OBVIOUS
  <2>1. PICK n \in Bad : \A m \in Bad : n <= m
    <3>1. Bad \in SUBSET Nat
      OBVIOUS
    <3> HIDE DEF Bad
    <3> QED BY <3>1, LeastOf
  <2>2. n \in 1..cap /\ n # 1 /\ ~UpTo(l, n, f[n])
    BY <1>7, <2>1
  <2> DEFINE c == n - 1
  <2>3. n \in 2..cap /\ c \in 1..l.capacity - 1 /\ c \in 1..cap /\ c + 1 = n /\ ~(n <= c)
    BY <1>1, <2>2
  <2>4. c \notin Bad
    BY <2>1, <2>3
  <2>5. UpTo(l, c, f[c])
    BY <2>3, <2>4
  <2> HIDE DEF Bad
  <2>6. f[n] = f[c] \o CaptionPart(l, n)
    BY <1>6, <2>3
  <2> HIDE DEF c
  <2>7. UpTo(l, c + 1, f[c] \o CaptionPart(l, c + 1))
    BY <2>3, <2>5, PartBehind
  <2> QED BY <2>2, <2>3, <2>6, <2>7
<1>9. UpTo(l, cap, f[cap])
  <2>1. cap \in 1..cap
    BY <1>1
  <2> QED BY <1>8, <2>1
<1> QED BY <1>6, <1>9 DEF UpTo

\* Each number of the caption is drawn over the bytes of its column.
LEMMA CaptionIsInPlace ==
  ASSUME ViewInv
  PROVE  CaptionInPlace
<1> DEFINE l == layout
           caption == Caption(layout)
           h == view.pos["H"]
           E == ExtraWidth
           cap == layout.capacity
<1>1. layout \in Layouts /\ view \in ViewRec /\ cap \in Nat \ {0}
  BY InvFacts
<1>2. E \in Nat \ {0} /\ FirstHex \in Nat /\ h \in Nat
  BY <1>1, WidthFacts, BarsAre DEF ViewRec
<1>3. CellsAt(layout, 0, 0, cap - 1, caption, 0)
  BY <1>1, CaptionStands
<1> HIDE DEF caption, h, E
<1>4. ASSUME NEW k \in 1..Len(caption), caption[k] # Gap
      PROVE  FirstHex + (k - 1) * E - h
               = HexChunkX(layout, view, caption[k].offset) + (IF caption[k].high THEN 0 ELSE E)
  <2> DEFINE cell == caption[k]
             q == k - 1
             place == 0 + q
  <2>1. q \in Int /\ place = q
    BY <1>1
  <2>2. CellAt(layout, 0, 0, cap - 1, cell, place)
    BY <1>3 DEF CellsAt
  <2> HIDE DEF cell, q, place
  <2>3. PICK c \in 0..cap - 1, high \in BOOLEAN :
          cell = [offset |-> 0 + c, high |-> high] /\ place = Chars(layout, c) + (IF high THEN 0 ELSE 1)
    BY <1>4, <2>2 DEF CellAt, cell
  <2>4. c \in Nat /\ c \in 0..layout.capacity /\ 0 + c = c /\ c = 0 * layout.capacity + c /\ 0 \in Nat
    BY <1>1
  <2>5. cell.offset = c /\ cell.high = high
    BY <2>3, <2>4
  <2>6. Chars(layout, c) \in Nat /\ ColumnAt(layout, c) = FirstHex + Chars(layout, c) * E
    BY <1>1, <2>4, CharsFacts DEF E
  <2>7. HexChunkX(layout, view, c) = ColumnAt(layout, c) - h
    <3> DEFINE line == 0
               o == c
               v == view
    <3>1. l \in Layouts /\ v \in ViewRec /\ line \in Nat /\ c \in 0..l.capacity - 1
          /\ o = line * l.capacity + c
      BY <1>1, <2>4
    <3> HIDE DEF line, o, l, v
    <3>2. HexChunkX(l, v, o) = ColumnAt(l, c) - v.pos["H"]
      BY <3>1, ByteOfRow
    <3> QED BY <3>2 DEF o, l, v, h
  <2> DEFINE u == Chars(layout, c) * E
             half == IF high THEN 0 ELSE E
  <2>8. u \in Nat /\ half \in Nat /\ q * E = u + half
    BY <1>2, <2>1, <2>3, <2>6
  <2> HIDE DEF u, half
  <2>9. ColumnAt(layout, c) = FirstHex + u
    BY <2>6 DEF u
  <2>10. FirstHex + q * E - h = HexChunkX(layout, view, c) + half
    BY <1>2, <2>7, <2>8, <2>9
  <2> QED BY <2>5, <2>10 DEF q, cell, half
<1> QED BY <1>4 DEF CaptionInPlace, caption, h, E
-----------------------------------------------------------------------------
(* Painting: the theorem                                                   *)

\* What is selected and marked is of the data, besides what the view keeps.
ShowInv == ViewInv /\ DOMAIN items = 0..dataSize - 1 /\ SpansOK

\* A selection has no empty span, and neither has a rectangle.
LEMMA SelectionOK ==
  ASSUME ViewInv, NEW last \in Nat, NEW first \in 0..last, NEW block,
         \/ SetSpans(SpanFrom(first, last), block)
         \/ /\ ColumnOf(layout, first) <= ColumnOf(layout, last)
            /\ SetSpans(BlockFrom(layout, first, last), block)
  PROVE  SpansOK'
<1> DEFINE cap == layout.capacity
           n == LineOf(layout, last) - LineOf(layout, first) + 1
           width == ColumnOf(layout, last) - ColumnOf(layout, first) + 1
<1>1. cap \in Nat \ {0} /\ first \in Nat /\ first <= last
  BY InvFacts
<1>2. CASE SetSpans(SpanFrom(first, last), block)
  <2> DEFINE size == last - first + 1
             span == [offset |-> first, size |-> size]
  <2>1. spans' = <<span>>
    BY <1>2 DEF SetSpans, SpanFrom
  <2>2. span.offset = first /\ span.size = size /\ size \in Nat \ {0}
    BY <1>1
  <2> HIDE DEF span, size
  <2>3. Len(<<span>>) = 1 /\ <<span>>[1] = span
    OBVIOUS
  <2> QED BY <1>1, <2>1, <2>2, <2>3 DEF SpansOK
<1>3. CASE ColumnOf(layout, first) <= ColumnOf(layout, last) /\ SetSpans(BlockFrom(layout, first, last), block)
  <2> DEFINE Span(k) == [offset |-> first + (k - 1) * layout.capacity, size |-> width]
  <2>1. spans' = [k \in 1..n |-> Span(k)]
    BY <1>3 DEF SetSpans, BlockFrom
  <2>2. n \in Nat
    <3>1. /\ LineOf(layout, first) \in Nat /\ LineOf(layout, last) \in Nat
          /\ LineOf(layout, first) <= LineOf(layout, last)
      BY <1>1, QuotientSteps DEF LineOf
    <3> QED BY <3>1
  <2>3. width \in Nat \ {0}
    <3>1. ColumnOf(layout, first) \in Nat /\ ColumnOf(layout, last) \in Nat
      BY <1>1, ModFacts DEF ColumnOf
    <3> QED BY <1>3, <3>1
  <2>4. ASSUME NEW k \in 1..n PROVE Span(k).offset \in Nat /\ Span(k).size \in Nat \ {0}
    <3> DEFINE by == (k - 1) * layout.capacity
    <3>1. by \in Nat
      BY <1>1, <2>2
    <3> HIDE DEF by, width
    <3>2. Span(k).offset = first + by /\ Span(k).size = width
      BY DEF by
    <3> QED BY <1>1, <2>3, <3>1, <3>2
  <2> HIDE DEF Span, n
  <2>5. Len(spans') = n /\ \A k \in 1..n : spans'[k] = Span(k)
    BY <2>1, <2>2
  <2> QED BY <2>2, <2>4, <2>5 DEF SpansOK
<1> QED BY <1>2, <1>3

\* Nor has a client's.
LEMMA ClientSpansOK ==
  ASSUME ViewInv, NEW new \in ClientSpans, spans' = new
  PROVE  SpansOK'
<1> DEFINE size  == Least(dataSize, LastSpan)
           Spans == {span \in [offset : 0..size - 1, size : 1..size] : span.offset + span.size <= size}
<1>1. size \in Nat
  BY InvFacts, ShowAssumption DEF Least
<1>2. PICK n \in 0..MaxSpans : new \in [1..n -> Spans]
  BY Zenon DEF ClientSpans
<1>3. \A span \in Spans : span.offset \in Nat /\ span.size \in Nat \ {0}
  BY <1>1
<1> HIDE DEF Spans, size
<1>4. n \in Nat
  BY ShowAssumption
<1>5. Len(new) = n /\ \A k \in 1..n : new[k] \in Spans
  BY <1>2, <1>4
<1> QED BY <1>3, <1>4, <1>5 DEF SpansOK

LEMMA ShowStart ==
  ASSUME ShowInit
  PROVE  ShowInv
<1>1. ViewInv /\ items = [o \in 0..dataSize - 1 |-> NoItem] /\ spans = <<>>
  BY ViewInit DEF ShowInit
<1>2. DOMAIN items = 0..dataSize - 1
  BY <1>1
<1>3. SpansOK
  BY <1>1 DEF SpansOK
<1> QED BY <1>1, <1>2, <1>3 DEF ShowInv

LEMMA ShowStep ==
  ASSUME ShowInv, [ShowNext]_<<vars, showVars>>
  PROVE  ShowInv'
<1>1. ViewInv /\ DOMAIN items = 0..dataSize - 1 /\ SpansOK
  BY DEF ShowInv
<1>2. ASSUME UNCHANGED vars PROVE ViewInv' /\ dataSize' = dataSize
  BY <1>1, <1>2, ViewStep DEF vars
<1>3. ASSUME UNCHANGED spans PROVE SpansOK'
  BY <1>1, <1>3 DEF SpansOK
<1>4. CASE ViewNext
  <2>1. ViewInv'
    BY <1>1, <1>4, ViewStep DEF ViewNext
  <2>2. CASE dataSize' = dataSize
    <3>1. UNCHANGED <<items, spans>>
      BY <1>4, <2>2 DEF ViewNext, showVars
    <3> QED BY <1>1, <1>3, <2>1, <2>2, <3>1 DEF ShowInv
  <2>3. CASE dataSize' # dataSize
    <3>1. items' = [o \in 0..dataSize' - 1 |-> NoItem] /\ spans' = <<>>
      BY <1>4, <2>3 DEF ViewNext, Unmarked
    <3>2. DOMAIN items' = 0..dataSize' - 1
      BY <3>1
    <3>3. SpansOK'
      BY <3>1 DEF SpansOK
    <3> QED BY <2>1, <3>2, <3>3 DEF ShowInv
  <2> QED BY <2>2, <2>3
<1>5. CASE SelectNext
  <2>1. UNCHANGED vars /\ UNCHANGED items
    BY <1>5 DEF SelectNext, SetSpans
  <2>2. CASE \E new \in ClientSpans : SetSpans(new, selBlock)
    <3>1. PICK new \in ClientSpans : SetSpans(new, selBlock)
      BY <2>2
    <3>2. spans' = new
      BY <3>1 DEF SetSpans
    <3>3. SpansOK'
      BY <1>1, <3>2, ClientSpansOK
    <3> QED BY <1>1, <1>2, <2>1, <3>3 DEF ShowInv
  <2>3. CASE \E last \in 0..Least(dataSize, LastSpan) - 1 : \E first \in 0..last :
               \/ \E block \in BOOLEAN : SetSpans(SpanFrom(first, last), block)
               \/ /\ ColumnOf(layout, first) <= ColumnOf(layout, last)
                  /\ SetSpans(BlockFrom(layout, first, last), TRUE)
    <3>1. PICK last \in 0..Least(dataSize, LastSpan) - 1 : \E first \in 0..last :
            \/ \E block \in BOOLEAN : SetSpans(SpanFrom(first, last), block)
            \/ /\ ColumnOf(layout, first) <= ColumnOf(layout, last)
               /\ SetSpans(BlockFrom(layout, first, last), TRUE)
      BY <2>3
    <3>2. PICK first \in 0..last :
            \/ \E block \in BOOLEAN : SetSpans(SpanFrom(first, last), block)
            \/ /\ ColumnOf(layout, first) <= ColumnOf(layout, last)
               /\ SetSpans(BlockFrom(layout, first, last), TRUE)
      BY <3>1
    <3>3. last \in Nat
      OBVIOUS
    <3>4. PICK block :
            \/ SetSpans(SpanFrom(first, last), block)
            \/ /\ ColumnOf(layout, first) <= ColumnOf(layout, last)
               /\ SetSpans(BlockFrom(layout, first, last), block)
      BY <3>2, Zenon
    <3>5. SpansOK'
      BY <1>1, <3>3, <3>4, SelectionOK
    <3> QED BY <1>1, <1>2, <2>1, <3>5 DEF ShowInv
  <2> QED BY <1>5, <2>2, <2>3, Zenon DEF SelectNext
<1>6. CASE \E new \in [0..dataSize - 1 -> Items \cup {NoItem}] : SetItems(new)
  <2>1. PICK new \in [0..dataSize - 1 -> Items \cup {NoItem}] : SetItems(new)
    BY <1>6
  <2>2. items' = new /\ UNCHANGED vars /\ UNCHANGED spans
    BY <2>1 DEF SetItems
  <2> QED BY <1>2, <1>3, <2>2 DEF ShowInv
<1>7. CASE UNCHANGED <<vars, showVars>>
  BY <1>1, <1>2, <1>3, <1>7 DEF ShowInv, showVars
<1> QED BY <1>4, <1>5, <1>6, <1>7 DEF ShowNext

\* Whatever is scrolled, resized, laid out, marked and selected, in every window
\* with room for a few lines: each layer draws exactly its bytes in the lines in
\* sight, each character where a click on it hits its byte, under the number of
\* its column; all lines in sight are drawn, between the window's lines, each
\* with its offset and marked if bytes of it are selected, a line between any
\* two pages of the data and no other, and the caret where its byte is.
THEOREM PaintedAlwaysInPlace ==
  ASSUME RoomForLines
  PROVE  ShowSpec => []PaintedInPlace
<1>1. ASSUME ShowInv PROVE PaintedInPlace
  <2>1. ViewInv /\ DOMAIN items = 0..dataSize - 1 /\ SpansOK
    BY <1>1 DEF ShowInv
  <2>2. SUFFICES ASSUME dataSize > 0, HasRoom(layout, view)
                 PROVE  /\ LinesComplete
                        /\ \A line \in InSight :
                             RowInPlace(line) /\ \A d \in Drawn(line) : LayerInPlace(d[1], d[2], line)
                        /\ \A size \in DataPages : PagesApart(InSight, size)
                        /\ CaretInPlace
                        /\ CaptionInPlace
    BY Zenon DEF PaintedInPlace
  <2>3. LinesComplete
    BY <2>1, <2>2, LinesAreComplete
  <2>4. ASSUME NEW line \in InSight PROVE RowInPlace(line)
    BY <2>1, <2>2, RowsAreInPlace
  <2>5. ASSUME NEW line \in InSight, NEW d \in Drawn(line) PROVE LayerInPlace(d[1], d[2], line)
    <3>1. line \in PaintedLines(layout, view)
      BY DEF InSight
    <3> QED BY <2>1, <2>2, <3>1, LayersDrawn
  <2>6. ASSUME NEW size \in DataPages PROVE PagesApart(InSight, size)
    <3>1. size \in Nat \ {0}
      BY ShowAssumption
    <3> QED BY <2>1, <2>2, <3>1, PagesAreApart
  <2>7. CaretInPlace /\ CaptionInPlace
    BY <2>1, <2>2, CaretIsInPlace, CaptionIsInPlace
  <2> QED BY <2>3, <2>4, <2>5, <2>6, <2>7
<1>2. ShowInit => ShowInv
  BY ShowStart
<1>3. ShowInv /\ [ShowNext]_<<vars, showVars>> => ShowInv'
  BY ShowStep
<1> QED BY <1>1, <1>2, <1>3, PTL DEF ShowSpec
-----------------------------------------------------------------------------
(* The tooltip                                                             *)

\* The bookmarks are those ever added, each of them once.
BkmsOnce ==
  /\ fresh \subseteq Bkms
  /\ bkms \in Seq(Bkms \ fresh)
  /\ IsInjective(bkms)

\* What is seen is watched by the timer and by the address of what it is of.
TipWatched ==
  /\ tip # None => timer /\ (bkmTT # 0 \/ fieldTT # None)
  /\ timer => tip # None

\* Without a bookmark's address, what is seen is of the field's.
TipNamed == tip # None /\ bkmTT = 0 => fieldTT = tip

\* What the timer has hidden is what the mouse is on, and the addresses say so.
QuietKept ==
  quiet # None =>
    /\ tip = None /\ mouse # Outside
    /\ quiet = TipOf(mouse) /\ bkmTT = BkmAt(mouse)
    /\ bkmTT = 0 => fieldTT = quiet

\* The inductive invariant.
TooltipInv ==
  /\ TooltipTypeOK /\ BkmsOnce
  /\ TipWatched /\ TipNamed
  /\ QuietKept

\* A sequence's elements may be known one by one.
LEMMA SeqFromElements ==
  ASSUME NEW S, NEW n \in Nat, NEW s, s = [i \in 1..n |-> s[i]], \A i \in 1..n : s[i] \in S
  PROVE  s \in Seq(S)
<1>1. s \in [1..n -> S]
  OBVIOUS
<1> QED BY <1>1

\* What is left where one element is taken out.
LEMMA LeftByRemoval ==
  ASSUME NEW S, NEW s \in Seq(S), NEW at \in 1..Len(s)
  PROVE  LET left == RemoveAt(s, at)
         IN  /\ left \in Seq(S) /\ Len(left) = Len(s) - 1
             /\ \A i \in 1..Len(s) - 1 : left[i] = IF i < at THEN s[i] ELSE s[i + 1]
<1> DEFINE low == SubSeq(s, 1, at - 1)
           high == SubSeq(s, at + 1, Len(s))
<1>1. RemoveAt(s, at) = low \o high
  BY DEF RemoveAt
<1>2. Len(s) \in Nat /\ at - 1 \in Nat /\ Len(s) - at \in Nat
  OBVIOUS
<1>3. low \in Seq(S) /\ Len(low) = at - 1 /\ \A i \in 1..at - 1 : low[i] = s[i]
  OBVIOUS
<1>4. /\ high \in Seq(S) /\ Len(high) = Len(s) - at
      /\ \A i \in 1..Len(s) - at : high[i] = s[i + at]
  OBVIOUS
<1> HIDE DEF low, high
<1>5. low \o high \in Seq(S) /\ Len(low \o high) = Len(s) - 1
  <2>0. low \in Seq(S) /\ high \in Seq(S)
    BY <1>3, <1>4
  <2>1. low \o high \in Seq(S) /\ Len(low \o high) = Len(low) + Len(high)
    BY <2>0
  <2>2. Len(low) + Len(high) = Len(s) - 1
    BY <1>2, <1>3, <1>4
  <2> QED BY <2>1, <2>2
<1>6. \A i \in 1..Len(s) - 1 :
        (low \o high)[i] = IF i <= at - 1 THEN low[i] ELSE high[i - (at - 1)]
  BY <1>2, <1>3, <1>4
<1>7. ASSUME NEW i \in 1..Len(s) - 1
      PROVE  (low \o high)[i] = IF i < at THEN s[i] ELSE s[i + 1]
  <2>1. CASE i < at
    BY <1>2, <1>3, <1>6, <2>1
  <2>2. CASE ~(i < at)
    <3>1. i - (at - 1) \in 1..Len(s) - at /\ i - (at - 1) + at = i + 1 /\ ~(i <= at - 1)
      BY <2>2
    <3>2. high[i - (at - 1)] = s[i + 1]
      BY <1>4, <3>1
    <3> QED BY <1>6, <2>2, <3>1, <3>2
  <2> QED BY <2>1, <2>2
<1> QED BY <1>1, <1>5, <1>7

\* The bookmark at a place, if there is one, is the last that has the place.
LEMMA BkmAtFacts ==
  ASSUME BkmsOnce, NEW place
  PROVE  /\ BkmAt(place) \in 0..Len(bkms)
         /\ BkmAt(place) # 0 => bkms[BkmAt(place)] \in Bkms
<1> DEFINE I == {i \in 1..Len(bkms) : place \in AreaOf[bkms[i]]}
<1>1. Len(bkms) \in Nat /\ \A i \in 1..Len(bkms) : bkms[i] \in Bkms
  BY DEF BkmsOnce
<1>2. CASE I = {}
  BY <1>1, <1>2 DEF BkmAt, SelectLastInSeq
<1>3. CASE I # {}
  <2> DEFINE Above == {n \in Nat : \A i \in I : i <= n}
  <2>1. Len(bkms) \in Above
    BY <1>1
  <2>2. PICK n \in Above : \A m \in Above : n <= m
    BY <2>1, LeastOf
  <2>3. PICK j \in I : TRUE
    BY <1>3
  <2>4. n \in Nat \ {0} /\ n - 1 \in Nat /\ n - 1 \notin Above
    <3>1. j \in Nat \ {0} /\ n \in Nat /\ j <= n
      BY <1>1, <2>2, <2>3
    <3>2. n \in Nat \ {0} /\ n - 1 \in Nat /\ ~(n <= n - 1)
      BY <3>1
    <3> QED BY <2>2, <3>2
  <2>5. PICK i \in I : ~(i <= n - 1)
    BY <2>4
  <2>6. i = n
    BY <2>2, <2>4, <2>5
  <2>7. n \in I /\ \A k \in I : n >= k
    BY <2>2, <2>5, <2>6
  <2>8. Max(I) \in I
    BY <2>7 DEF Max
  <2>9. BkmAt(place) = Max(I)
    BY <1>3 DEF BkmAt, SelectLastInSeq
  <2> QED BY <1>1, <2>8, <2>9
<1> QED BY <1>2, <1>3

\* The field at a place, if there is one, has the place, which is in the data.
LEMMA FieldAtFacts ==
  ASSUME NEW place
  PROVE  /\ FieldAt(place) \in Fields \cup {None}
         /\ FieldAt(place) # None => FieldAt(place) \in Fields /\ place \in Offsets
<1>1. CASE applied /\ \E f \in Fields : place \in FieldOf[f]
  <2>1. FieldAt(place) \in Fields /\ place \in FieldOf[FieldAt(place)]
    BY <1>1 DEF FieldAt
  <2> QED BY <2>1, TooltipAssumption
<1>2. CASE ~(applied /\ \E f \in Fields : place \in FieldOf[f])
  BY <1>2 DEF FieldAt
<1> QED BY <1>1, <1>2

\* A tooltip is of the bookmark at the place, or else of a field and no bookmark.
LEMMA TipOfFacts ==
  ASSUME BkmsOnce, NEW place
  PROVE  /\ TipOf(place) \in Bkms \cup Fields \cup {None}
         /\ BkmAt(place) # 0 => TipOf(place) = bkms[BkmAt(place)] /\ TipOf(place) \in Bkms
         /\ BkmAt(place) = 0 => TipOf(place) \notin Bkms
         /\ BkmAt(place) = 0 /\ TipOf(place) # None =>
              tooltips /\ TipOf(place) = FieldAt(place)
         /\ ~HasTip(place) => TipOf(place) = None
BY BkmAtFacts, FieldAtFacts, TooltipAssumption DEF TipOf, HasTip

\* What is asked of TTMainShow: the addresses say what is shown.
TipsOK ==
  /\ bkmTT \in Nat \cup {Freed} /\ fieldTT \in Fields \cup {None}
  /\ tip \in Bkms \cup Fields \cup {None} /\ timer \in BOOLEAN /\ due \in BOOLEAN
  /\ TipWatched /\ TipNamed

\* The invariant's parts.
LEMMA TooltipParts ==
  TooltipInv <=>
    /\ BkmsOnce /\ TipsOK /\ QuietKept
    /\ applied \in BOOLEAN /\ tooltips \in BOOLEAN
    /\ mouse \in Offsets \cup {Margin, Outside}
    /\ quiet \in Bkms \cup Fields \cup {None}
BY DEF TooltipInv, TooltipTypeOK, TipsOK, BkmsOnce

\* The same of the next state.
LEMMA TooltipPartsNext ==
  TooltipInv' <=>
    /\ BkmsOnce' /\ TipsOK' /\ QuietKept'
    /\ applied' \in BOOLEAN /\ tooltips' \in BOOLEAN
    /\ mouse' \in Offsets \cup {Margin, Outside}
    /\ quiet' \in Bkms \cup Fields \cup {None}
BY DEF TooltipInv, TooltipTypeOK, TipsOK, BkmsOnce

\* Bookmarks and fields, shown or hidden.
LEMMA TipSteps ==
  ASSUME TooltipInv
  PROVE  /\ HideTip => TipsOK'
         /\ HideByTimer => TipsOK'
         /\ UNCHANGED tipVars => TipsOK'
         /\ \A slot \in 1..Len(bkms) : OverBkm(slot) => TipsOK'
         /\ \A field \in Fields : bkmTT = 0 /\ OverField(field) => TipsOK'
         /\ \A place : OverNothing(place) => TipsOK'
<1>1. /\ TipsOK
      /\ None \notin Bkms \cup Fields
      /\ \A slot \in 1..Len(bkms) : bkms[slot] \in Bkms
  BY TooltipParts, TooltipAssumption DEF BkmsOnce
<1>2. UNCHANGED tipVars => TipsOK'
  BY <1>1 DEF TipsOK, tipVars, TipWatched, TipNamed
<1>3. HideTip => TipsOK'
  <2>1. 0 \in Nat \cup {Freed}
    OBVIOUS
  <2> QED BY <1>1, <2>1, Zenon DEF TipsOK, HideTip, TipWatched, TipNamed
<1>4. HideByTimer => TipsOK'
  BY <1>1 DEF TipsOK, HideByTimer, TipWatched, TipNamed
<1>5. ASSUME NEW slot \in 1..Len(bkms), OverBkm(slot) PROVE TipsOK'
  <2>1. CASE bkmTT # slot
    <3>1. /\ bkmTT' = slot /\ tip' = bkms[slot] /\ timer' = TRUE /\ due' = FALSE
          /\ fieldTT' = fieldTT
      BY <1>5, <2>1 DEF OverBkm, Show
    <3>2. slot \in Nat \ {0}
      BY TooltipParts DEF BkmsOnce
    <3> QED BY <1>1, <3>1, <3>2 DEF TipsOK, TipWatched, TipNamed
  <2>2. CASE bkmTT = slot
    BY <1>2, <1>5, <2>2 DEF OverBkm
  <2> QED BY <2>1, <2>2
<1>6. ASSUME NEW field \in Fields, bkmTT = 0, OverField(field) PROVE TipsOK'
  <2>1. CASE fieldTT # field
    <3>1. /\ fieldTT' = field /\ tip' = field /\ timer' = TRUE /\ due' = FALSE
          /\ bkmTT' = bkmTT
      BY <1>6, <2>1 DEF OverField, Show
    <3> QED BY <1>1, <1>6, <3>1 DEF TipsOK, TipWatched, TipNamed
  <2>2. CASE fieldTT = field
    BY <1>2, <1>6, <2>2 DEF OverField
  <2> QED BY <2>1, <2>2
<1>7. ASSUME NEW place, OverNothing(place) PROVE TipsOK'
  BY <1>2, <1>3, <1>7 DEF OverNothing
<1> QED BY <1>2, <1>3, <1>4, <1>5, <1>6, <1>7

\* What the mouse finds depends on bookmarks, fields and where it is.
LEMMA SameFound ==
  ASSUME UNCHANGED listVars, NEW place
  PROVE  /\ BkmAt(place)' = BkmAt(place) /\ FieldAt(place)' = FieldAt(place)
         /\ TipOf(place)' = TipOf(place) /\ HasTip(place)' = HasTip(place)
<1>1. bkms' = bkms /\ applied' = applied /\ tooltips' = tooltips
  BY DEF listVars
<1>2. BkmAt(place)' = BkmAt(place)
  BY <1>1 DEF BkmAt, SelectLastInSeq
<1>3. FieldAt(place)' = FieldAt(place)
  BY <1>1 DEF FieldAt
<1> QED BY <1>1, <1>2, <1>3 DEF TipOf, HasTip

\* A move of the mouse keeps quiet on what has been hidden, hides where nothing
\* has a tooltip, and shows otherwise.
LEMMA MoveStep ==
  ASSUME TooltipInv, NEW place \in Offsets \cup {Margin}, OnMouseMove(place)
  PROVE  TooltipInv'
<1>1. /\ BkmsOnce /\ TipsOK /\ QuietKept /\ applied \in BOOLEAN /\ tooltips \in BOOLEAN
      /\ quiet \in Bkms \cup Fields \cup {None}
      /\ Bkms \cap Fields = {} /\ None \notin Bkms \cup Fields
  BY TooltipParts, TooltipAssumption
<1>2. /\ mouse' = place /\ mouse' \in Offsets \cup {Margin, Outside} /\ mouse' # Outside
      /\ UNCHANGED listVars /\ bkms' = bkms /\ fresh' = fresh
      /\ applied' = applied /\ tooltips' = tooltips
  BY TooltipAssumption DEF OnMouseMove, listVars, Margin, Outside
<1>3. BkmsOnce'
  BY <1>1, <1>2 DEF BkmsOnce, IsInjective
<1>4. /\ BkmAt(place) \in 0..Len(bkms) /\ Len(bkms) \in Nat
      /\ BkmAt(place) # 0 => BkmAt(place) \in 1..Len(bkms)
  BY <1>1, BkmAtFacts DEF BkmsOnce
<1>5. TipsOK'
  <2>1. CASE BkmAt(place) # 0
    BY <1>4, <2>1, TipSteps DEF OnMouseMove
  <2>2. CASE BkmAt(place) = 0 /\ place \in Offsets /\ bkmTT = 0 /\ tooltips
               /\ FieldAt(place) # None
    BY <2>2, TipSteps, FieldAtFacts DEF OnMouseMove
  <2>3. CASE BkmAt(place) = 0
               /\ ~(place \in Offsets /\ bkmTT = 0 /\ tooltips /\ FieldAt(place) # None)
    BY <2>3, TipSteps DEF OnMouseMove
  <2> QED BY <2>1, <2>2, <2>3
<1>6. quiet' = (IF TipOf(place) = quiet THEN quiet ELSE None)
  BY DEF OnMouseMove
<1>7. quiet' \in Bkms \cup Fields \cup {None}
  BY <1>1, <1>6
<1>8. ASSUME quiet' # None
      PROVE  tip' = None /\ quiet' = TipOf(place) /\ bkmTT' = BkmAt(place)
               /\ (bkmTT' = 0 => fieldTT' = quiet')
  <2>1. /\ quiet' = quiet /\ quiet = TipOf(place) /\ quiet # None
        /\ tip = None /\ quiet = TipOf(mouse) /\ bkmTT = BkmAt(mouse)
        /\ bkmTT = 0 => fieldTT = quiet
    BY <1>1, <1>6, <1>8 DEF QuietKept
  <2>2. UNCHANGED tipVars /\ bkmTT = BkmAt(place)
    <3>1. CASE BkmAt(place) # 0
      <4>1. quiet = bkms[BkmAt(place)] /\ quiet \in Bkms
        BY <1>1, <2>1, <3>1, TipOfFacts
      <4>2. BkmAt(mouse) # 0 /\ quiet = bkms[BkmAt(mouse)] /\ BkmAt(mouse) \in 1..Len(bkms)
        <5>1. BkmAt(mouse) = 0 => TipOf(mouse) \notin Bkms
          BY <1>1, TipOfFacts
        <5>2. BkmAt(mouse) # 0 => TipOf(mouse) = bkms[BkmAt(mouse)]
          BY <1>1, TipOfFacts
        <5>3. BkmAt(mouse) \in 0..Len(bkms)
          BY <1>1, BkmAtFacts
        <5>4. BkmAt(mouse) # 0 => BkmAt(mouse) \in 1..Len(bkms)
          BY <1>4, <5>3
        <5> QED BY <2>1, <4>1, <5>1, <5>2, <5>4
      <4>3. BkmAt(mouse) = BkmAt(place)
        <5>1. \A i, j \in 1..Len(bkms) : bkms[i] = bkms[j] => i = j
          BY <1>1 DEF BkmsOnce, IsInjective
        <5> QED BY <1>4, <3>1, <4>1, <4>2, <5>1
      <4> QED BY <2>1, <3>1, <4>3 DEF OnMouseMove, OverBkm
    <3>2. CASE BkmAt(place) = 0
      <4>1. quiet \notin Bkms /\ tooltips /\ quiet = FieldAt(place)
        BY <1>1, <2>1, <3>2, TipOfFacts
      <4>2. BkmAt(mouse) = 0
        BY <1>1, <2>1, <4>1, TipOfFacts
      <4>3. place \in Offsets /\ FieldAt(place) # None
        BY <2>1, <4>1, FieldAtFacts
      <4> QED BY <2>1, <3>2, <4>1, <4>2, <4>3 DEF OnMouseMove, OverField
    <3> QED BY <3>1, <3>2
  <2>3. tip' = tip /\ bkmTT' = bkmTT /\ fieldTT' = fieldTT
    BY <2>2 DEF tipVars
  <2> QED BY <2>1, <2>2, <2>3
<1>9. QuietKept'
  <2>1. TipOf(place)' = TipOf(place) /\ BkmAt(place)' = BkmAt(place)
    BY <1>2, SameFound
  <2>2. TipOf(mouse)' = TipOf(place)' /\ BkmAt(mouse)' = BkmAt(place)'
    BY <1>2
  <2>3. quiet' # None => quiet' = TipOf(mouse)' /\ bkmTT' = BkmAt(mouse)'
    BY <1>8, <2>1, <2>2
  <2> QED BY <1>2, <1>8, <2>3 DEF QuietKept
<1> QED BY <1>1, <1>2, <1>3, <1>5, <1>7, <1>9, TooltipPartsNext

\* Time, the timer, and the mouse that leaves.
LEMMA TimeSteps ==
  ASSUME TooltipInv, MouseLeaves \/ PassFiveSeconds \/ OnTimer
  PROVE  TooltipInv'
<1>1. /\ BkmsOnce /\ TipsOK /\ QuietKept /\ applied \in BOOLEAN /\ tooltips \in BOOLEAN
      /\ mouse \in Offsets \cup {Margin, Outside}
      /\ quiet \in Bkms \cup Fields \cup {None}
  BY TooltipParts
<1>2. /\ UNCHANGED listVars /\ bkms' = bkms /\ fresh' = fresh
      /\ applied' = applied /\ tooltips' = tooltips
  BY DEF MouseLeaves, PassFiveSeconds, OnTimer, listVars
<1>3. BkmsOnce'
  BY <1>1, <1>2 DEF BkmsOnce, IsInjective
<1>4. CASE MouseLeaves
  <2>1. mouse' = Outside /\ quiet' = None /\ UNCHANGED tipVars
    BY <1>4 DEF MouseLeaves
  <2>2. TipsOK' /\ QuietKept'
    BY <2>1, TipSteps DEF QuietKept
  <2> QED BY <1>1, <1>2, <1>3, <2>1, <2>2, TooltipPartsNext
<1>5. CASE PassFiveSeconds
  <2>1. /\ mouse' = mouse /\ quiet' = quiet /\ bkmTT' = bkmTT /\ fieldTT' = fieldTT
        /\ tip' = tip /\ timer' = timer /\ due' = TRUE
    BY <1>5 DEF PassFiveSeconds
  <2>2. TipsOK'
    BY <1>1, <2>1 DEF TipsOK, TipWatched, TipNamed
  <2>3. TipOf(mouse)' = TipOf(mouse) /\ BkmAt(mouse)' = BkmAt(mouse)
    BY <1>2, <2>1 DEF TipOf, BkmAt, FieldAt, SelectLastInSeq
  <2>4. QuietKept'
    BY <1>1, <2>1, <2>3 DEF QuietKept
  <2> QED BY <1>1, <1>2, <1>3, <2>1, <2>2, <2>4, TooltipPartsNext
<1>6. CASE OnTimer
  <2>1. mouse' = mouse /\ quiet' = EndedOn(mouse)
    BY <1>6 DEF OnTimer
  <2>2. TipsOK'
    BY <1>6, TipSteps DEF OnTimer
  <2>3. quiet' \in Bkms \cup Fields \cup {None}
    BY <1>1, <2>1 DEF EndedOn, TipsOK
  <2>4. TipOf(mouse)' = TipOf(mouse) /\ BkmAt(mouse)' = BkmAt(mouse)
    BY <1>2, <2>1 DEF TipOf, BkmAt, FieldAt, SelectLastInSeq
  <2>5. ASSUME quiet' # None
        PROVE  tip' = None /\ mouse' # Outside /\ quiet' = TipOf(mouse) /\ bkmTT' = BkmAt(mouse)
                 /\ (bkmTT' = 0 => fieldTT' = quiet')
    <3>1. mouse # Outside /\ tip = TipOf(mouse) /\ bkmTT = BkmAt(mouse) /\ quiet' = tip
      BY <2>1, <2>5 DEF EndedOn
    <3>2. tip' = None /\ bkmTT' = bkmTT /\ fieldTT' = fieldTT
      BY <1>6, <3>1 DEF OnTimer, HideByTimer
    <3>3. bkmTT = 0 => fieldTT = tip
      BY <1>1, <2>5, <3>1 DEF TipsOK, TipNamed
    <3> QED BY <2>1, <3>1, <3>2, <3>3
  <2>6. QuietKept'
    BY <2>4, <2>5 DEF QuietKept
  <2> QED BY <1>1, <1>2, <1>3, <2>1, <2>2, <2>3, <2>6, TooltipPartsNext
<1> QED BY <1>4, <1>5, <1>6

\* Bookmarks come, go and change places, and stay different.
LEMMA ListSteps ==
  ASSUME BkmsOnce
  PROVE  /\ \A bkm \in Bkms : AddBkm(bkm) => BkmsOnce'
         /\ \A slot \in DOMAIN bkms : RemoveBkm(slot) => BkmsOnce'
         /\ SortBookmarks => BkmsOnce'
<1>1. /\ fresh \subseteq Bkms /\ bkms \in Seq(Bkms \ fresh) /\ Len(bkms) \in Nat
      /\ DOMAIN bkms = 1..Len(bkms)
      /\ \A i \in 1..Len(bkms) : bkms[i] \in Bkms \ fresh
      /\ \A i, j \in 1..Len(bkms) : bkms[i] = bkms[j] => i = j
  BY DEF BkmsOnce, IsInjective
<1>2. ASSUME NEW bkm \in Bkms, AddBkm(bkm) PROVE BkmsOnce'
  <2>1. bkm \in fresh /\ fresh' = fresh \ {bkm} /\ bkms' = Append(bkms, bkm)
    BY <1>2 DEF AddBkm
  <2>2. bkms' \in Seq(Bkms \ fresh')
    <3>1. bkms \in Seq(Bkms \ fresh')
      <4>1. \A i \in 1..Len(bkms) : bkms[i] \in Bkms \ fresh'
        BY <1>1, <2>1
      <4> QED BY <1>1, <4>1, SeqFromElements
    <3>2. bkm \in Bkms \ fresh'
      BY <2>1
    <3> HIDE <1>1, <2>1
    <3> QED BY <2>1, <3>1, <3>2
  <2>3. Len(bkms') = Len(bkms) + 1 /\ DOMAIN bkms' = 1..Len(bkms) + 1
    BY <1>1, <2>1
  <2>4. \A i \in 1..Len(bkms) + 1 : bkms'[i] = IF i <= Len(bkms) THEN bkms[i] ELSE bkm
    BY <1>1, <2>1
  <2>5. ASSUME NEW i \in 1..Len(bkms) + 1, NEW j \in 1..Len(bkms) + 1, bkms'[i] = bkms'[j]
        PROVE  i = j
    <3>1. (i \in 1..Len(bkms) \/ i = Len(bkms) + 1) /\ (j \in 1..Len(bkms) \/ j = Len(bkms) + 1)
      BY <1>1
    <3>2. \A k \in 1..Len(bkms) : bkms[k] # bkm
      BY <1>1, <2>1
    <3> QED BY <1>1, <2>4, <2>5, <3>1, <3>2
  <2>6. IsInjective(bkms')
    BY <2>3, <2>5 DEF IsInjective
  <2> QED BY <1>1, <2>1, <2>2, <2>6 DEF BkmsOnce
<1>3. ASSUME NEW slot \in DOMAIN bkms, RemoveBkm(slot) PROVE BkmsOnce'
  <2>1. bkms' = RemoveAt(bkms, slot) /\ fresh' = fresh /\ slot \in 1..Len(bkms)
    BY <1>1, <1>3 DEF RemoveBkm
  <2> DEFINE left == RemoveAt(bkms, slot)
  <2>2. /\ left \in Seq(Bkms \ fresh) /\ Len(left) = Len(bkms) - 1
        /\ \A i \in 1..Len(bkms) - 1 : left[i] = IF i < slot THEN bkms[i] ELSE bkms[i + 1]
    <3> DEFINE T == Bkms \ fresh
    <3>1. bkms \in Seq(T) /\ slot \in 1..Len(bkms)
      BY <1>1, <2>1
    <3> HIDE DEF T
    <3>2. left \in Seq(T) /\ Len(left) = Len(bkms) - 1
      BY <3>1, LeftByRemoval
    <3>3. \A i \in 1..Len(bkms) - 1 : left[i] = IF i < slot THEN bkms[i] ELSE bkms[i + 1]
      BY <3>1, LeftByRemoval
    <3> QED BY <3>2, <3>3 DEF T
  <2> HIDE DEF left
  <2>3. DOMAIN left = 1..Len(bkms) - 1
    BY <2>2
  <2>4. ASSUME NEW i \in 1..Len(bkms) - 1, NEW j \in 1..Len(bkms) - 1, left[i] = left[j]
        PROVE  i = j
    <3>1. (IF i < slot THEN i ELSE i + 1) = (IF j < slot THEN j ELSE j + 1)
      BY <1>1, <2>1, <2>2, <2>4
    <3> QED BY <1>1, <2>1, <3>1
  <2>5. IsInjective(left)
    BY <2>3, <2>4 DEF IsInjective
  <2>6. bkms' = left
    BY <2>1 DEF left
  <2> QED BY <1>1, <2>1, <2>2, <2>5, <2>6 DEF BkmsOnce
<1>4. ASSUME SortBookmarks PROVE BkmsOnce'
  <2>1. bkms' = [i \in 1..Len(bkms) |-> bkms[(Len(bkms) - i) + 1]] /\ fresh' = fresh
    BY <1>4 DEF SortBookmarks, Reverse
  <2>2. \A i \in 1..Len(bkms) : (Len(bkms) - i) + 1 \in 1..Len(bkms)
    BY <1>1
  <2>3. \A i \in 1..Len(bkms) : bkms'[i] = bkms[(Len(bkms) - i) + 1] /\ bkms'[i] \in Bkms \ fresh
    BY <1>1, <2>1, <2>2
  <2>4. bkms' \in Seq(Bkms \ fresh) /\ DOMAIN bkms' = 1..Len(bkms)
    BY <1>1, <2>1, <2>3, SeqFromElements
  <2>5. ASSUME NEW i \in 1..Len(bkms), NEW j \in 1..Len(bkms), bkms'[i] = bkms'[j]
        PROVE  i = j
    <3>1. (Len(bkms) - i) + 1 = (Len(bkms) - j) + 1
      BY <1>1, <2>2, <2>3, <2>5
    <3> QED BY <1>1, <3>1
  <2>6. IsInjective(bkms')
    BY <2>4, <2>5 DEF IsInjective
  <2> QED BY <1>1, <2>1, <2>4, <2>6 DEF BkmsOnce
<1> QED BY <1>2, <1>3, <1>4

\* What the user or the client changes under the tooltip leaves it watched.
LEMMA ChangeSteps ==
  ASSUME TooltipInv,
         \/ \E bkm \in Bkms : AddBkm(bkm)
         \/ \E slot \in DOMAIN bkms : RemoveBkm(slot)
         \/ SortBookmarks \/ ApplyOrDisapply \/ ShowTooltips
  PROVE  TooltipInv'
<1>1. /\ BkmsOnce /\ TipsOK /\ applied \in BOOLEAN /\ tooltips \in BOOLEAN
      /\ mouse \in Offsets \cup {Margin, Outside}
  BY TooltipParts
<1>2. /\ mouse' = mouse /\ quiet' = None /\ applied' \in BOOLEAN /\ tooltips' \in BOOLEAN
      /\ bkmTT' \in {bkmTT} \cup (IF bkmTT = 0 THEN {} ELSE {Freed})
      /\ fieldTT' = fieldTT /\ tip' = tip /\ timer' = timer /\ due' = due
  BY <1>1 DEF AddBkm, RemoveBkm, SortBookmarks, ApplyOrDisapply, ShowTooltips, tipVars
<1>3. BkmsOnce'
  <2>1. CASE ApplyOrDisapply \/ ShowTooltips
    BY <1>1, <2>1 DEF ApplyOrDisapply, ShowTooltips, BkmsOnce, IsInjective
  <2> QED BY <1>1, <2>1, ListSteps
<1>4. TipsOK'
  <2>1. bkmTT' = bkmTT \/ (bkmTT # 0 /\ bkmTT' = Freed /\ Freed # 0)
    BY <1>2 DEF Freed
  <2> QED BY <1>1, <1>2, <2>1 DEF TipsOK, TipWatched, TipNamed
<1>5. QuietKept'
  BY <1>2 DEF QuietKept
<1> QED BY <1>1, <1>2, <1>3, <1>4, <1>5, TooltipPartsNext

\* At first no bookmark is there and nothing is seen.
LEMMA TooltipStart ==
  ASSUME TooltipInit
  PROVE  TooltipInv
<1>1. BkmsOnce
  BY DEF TooltipInit, BkmsOnce, IsInjective
<1>2. TipsOK /\ QuietKept
  BY DEF TooltipInit, TipsOK, TipWatched, TipNamed, QuietKept
<1> QED BY <1>1, <1>2, TooltipParts DEF TooltipInit

\* Every step keeps the invariant.
LEMMA TooltipStep ==
  ASSUME TooltipInv, [TooltipNext]_tooltipVars
  PROVE  TooltipInv'
<1>1. CASE MouseMoves
  BY <1>1, MoveStep DEF MouseMoves
<1>2. CASE UNCHANGED tooltipVars
  <2>1. UNCHANGED <<bkms, fresh, applied, tooltips, mouse, bkmTT, fieldTT, tip, timer, due, quiet>>
    BY <1>2 DEF tooltipVars, listVars, tipVars
  <2>2. TipOf(mouse)' = TipOf(mouse) /\ BkmAt(mouse)' = BkmAt(mouse)
    BY <2>1 DEF TipOf, BkmAt, FieldAt, SelectLastInSeq
  <2>3. QuietKept'
    BY <2>1, <2>2 DEF TooltipInv, QuietKept
  <2>4. BkmsOnce' /\ TipsOK'
    BY <2>1, TooltipParts DEF BkmsOnce, IsInjective, TipsOK, TipWatched, TipNamed
  <2> QED BY <2>1, <2>3, <2>4, TooltipParts, TooltipPartsNext
<1> QED BY <1>1, <1>2, TimeSteps, ChangeSteps DEF TooltipNext

\* It is an invariant.
LEMMA TooltipCorrect == TooltipSpec => []TooltipInv
<1>1. TooltipInv /\ [TooltipNext]_tooltipVars => TooltipInv'
  BY TooltipStep
<1> QED BY <1>1, TooltipStart, PTL DEF TooltipSpec

\* Whatever bookmarks are removed, moved or added and whatever templates come and
\* go under a tooltip that is seen, the timer is set that ends it, and an address
\* is held by which the next move of the mouse may (TTMainShow).
THEOREM TooltipAlwaysWatched == TooltipSpec => []SeenIsWatched
<1>1. TooltipInv => SeenIsWatched
  BY DEF TooltipInv, TipWatched, SeenIsWatched
<1> QED BY <1>1, TooltipCorrect, PTL

\* A move of the mouse to where nothing has a tooltip always ends with none,
\* though what the last tooltip was of may be gone (OnMouseMove).
THEOREM TooltipOfSomething == TooltipSpec => NoTipOfNothing
<1>1. ASSUME TooltipInv, [TooltipNext]_tooltipVars
      PROVE  [MouseMoves /\ ~HasTip(mouse') => tip' = None]_tooltipVars
  <2>1. SUFFICES ASSUME NEW place \in Offsets \cup {Margin}, OnMouseMove(place), ~HasTip(mouse')
                 PROVE  tip' = None
    BY DEF MouseMoves
  <2>2. mouse' = place /\ ~HasTip(place)
    BY <2>1 DEF OnMouseMove
  <2>3. OverNothing(place)
    BY <2>1, <2>2 DEF HasTip, OnMouseMove
  <2>4. tip # None => bkmTT # 0 \/ fieldTT # None
    BY <1>1 DEF TooltipInv, TipWatched
  <2> QED BY <2>3, <2>4 DEF OverNothing, HideTip, tipVars
<1> QED BY <1>1, TooltipCorrect, PTL DEF TooltipSpec, NoTipOfNothing

\* What the timer has hidden is not shown again, however the mouse moves on it,
\* until it has been elsewhere or bookmarks or templates change (TTMainShow).
THEOREM TooltipStaysQuiet == TooltipSpec => QuietStays
<1>1. ASSUME TooltipInv, [TooltipNext]_tooltipVars
      PROVE  [quiet # None /\ quiet' = quiet => tip' = None]_tooltipVars
  <2>1. TooltipInv'
    BY <1>1, TooltipStep
  <2> QED BY <2>1 DEF TooltipInv, QuietKept
<1> QED BY <1>1, TooltipCorrect, PTL DEF TooltipSpec, QuietStays

\* Whatever bookmarks and templates do under it, the tooltip follows the mouse: it
\* is watched, it is of something, and stays hidden when it has ended.
THEOREM TooltipFollowsMouse == TooltipSpec => TipFollowsMouse
BY TooltipAlwaysWatched, TooltipOfSomething, TooltipStaysQuiet, PTL DEF TipFollowsMouse

=============================================================================
