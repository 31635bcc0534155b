----------------------------- MODULE MCHexView ------------------------------
\* The view in three parts: what scrolls it, with the sizes in pixels of the
\* cfg that make every case of the geometry occur; what is drawn, for every
\* way of marking the bytes of small data; what is copied, for every
\* selection.
EXTENDS HexCopy

CONSTANTS PaintSize, CopySize

\* The theorems about what is gone to are about windows like the cfg's.
ASSUME RoomToGo == RoomForLines /\ RoomForColumns

VARIABLE part

allVars == <<vars, showVars, part>>

Marked == \E o \in DOMAIN items : items[o] # NoItem

LayoutNext ==
  \/ \E cap \in Capacities : SetCapacity(cap)
  \/ \E group \in Groups : SetGroupSize(group)

\* Data of one size, its bytes marked once and then shown in every layout
\* and at every place of the scroll bars.
PaintPart ==
  \/ /\ \/ dataSize = 0 /\ SetData(PaintSize)
        \/ LayoutNext
        \/ \E b \in Bars : ScrollLine(b)
        \/ \E width \in Widths : Resize(width, 19)
        \/ CaretTo(2, FALSE, FALSE)
     /\ IF dataSize' = dataSize THEN UNCHANGED showVars ELSE Unmarked(dataSize')
  \/ /\ ~Marked
     /\ \E new \in [0..dataSize - 1 -> Items \cup {NoItem}] : SetItems(new)

\* A selection is made where none is or one byte is, as a block or not, and then
\* copied in every layout.
CopyPart ==
  \/ (LayoutNext \/ (dataSize = 0 /\ SetData(CopySize)))
       /\ IF dataSize' = dataSize THEN UNCHANGED showVars ELSE Unmarked(dataSize')
  \/ spans \in {<<>>, SpanFrom(0, 0)} /\ SelectNext

MCInit ==
  /\ ShowInit
  /\ part \in {"scroll", "paint", "copy"}
  /\ part = "copy" => layout.cy = 2
  /\ part # "scroll" => layout.capacity = 2 /\ layout.group = 1 /\ view.win = [H |-> 18, V |-> 19]

MCNext ==
  /\ UNCHANGED part
  /\ \/ part = "scroll" /\ ViewNext
     \/ part = "paint" /\ PaintPart
     \/ part = "copy" /\ CopyPart

MCSpec == MCInit /\ [][MCNext]_allVars

=============================================================================
