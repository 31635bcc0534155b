------------------------------- MODULE HexBkm -------------------------------
(***************************************************************************)
(* The bookmark manager (CHexDlgBkmMgr.cpp): its bookmarks or those of a   *)
(* client's IHexBookmarks ("virtual"), the current one for Next and        *)
(* Previous, and the dialog's list, whose items the user clicks, sorts,    *)
(* edits and removes.  Indexes of bookmarks and items begin at 0.          *)
(***************************************************************************)
EXTENDS Integers, Sequences, SequencesExt

CONSTANTS
  Sizes,    \* bound: the sizes of the data a client sets
  Extents,  \* bound: the spans of a bookmark, sequences of <<offset, size>>
  MaxBkms,  \* bound: bookmarks at a time
  MaxVirt,  \* bound: a client's own bookmarks at a time
  MaxId,    \* the largest identifier, 2^64 - 1 in the code
  Written   \* bound: the identifiers a client writes into a bookmark

ASSUME BkmAssumption ==
  /\ Sizes \subseteq Nat
  /\ Extents \subseteq Seq(Nat \X Nat) /\ \A spans \in Extents : spans # <<>>
  /\ MaxBkms \in Nat \ {0} /\ MaxId \in Nat \ {0} /\ Written \subseteq 0..MaxId
  /\ MaxVirt \in 0..MaxBkms

VARIABLES
  own,       \* m_vecBookmarks: records of an id and the spans
  handler,   \* the bookmarks of the client's IHexBookmarks
  isVirtual, \* IsVirtual()
  current,   \* m_llIndexCurr
  dialog,    \* the dialog's window is there
  items,     \* the number of items of its list, m_ListEx
  selected,  \* the list's selected items
  dataSize, caretPos

bkmVars == <<own, handler, isVirtual, current, dialog, items, selected, dataSize, caretPos>>

IsDataSet == dataSize > 0

-----------------------------------------------------------------------------
(* A sequence of bookmarks                                                 *)

Ids(bkms) == {b.id : b \in ToSet(bkms)}
FirstOffset(b) == b.spans[1][1]
SizeOf(b) == FoldLeft(LAMBDA n, span : n + span[2], 0, b.spans)
Distinct(bkms) == \A i, j \in 1..Len(bkms) : bkms[i].id = bkms[j].id => i = j
Covers(b, offset) ==
  \E span \in ToSet(b.spans) : offset \in span[1]..span[1] + span[2] - 1

\* Mutant: an identifier is the number of bookmarks.
NextNumber(bkms) == IF bkms = <<>> THEN 1 ELSE (Len(bkms) + 1) % (MaxId + 1)

\* One more than the largest; an unsigned number, so 0 after the last.
NewId(bkms) == IF bkms = <<>> THEN 1 ELSE (Max(Ids(bkms)) + 1) % (MaxId + 1)

\* The last bookmark at an offset, or 0.
HitTest(bkms, offset) == SelectLastInSeq(bkms, LAMBDA b : Covers(b, offset))

\* RemoveBookmark: the first with the id.
Without(bkms, id) ==
  LET at == SelectInSeq(bkms, LAMBDA b : b.id = id)
  IN  IF at = 0 THEN bkms ELSE RemoveAt(bkms, at)

Shown(bkms) == IF isVirtual THEN handler ELSE bkms  \* what GetByIndex and GetCount look at
GetCount == Len(Shown(own))
HasBookmarks == GetCount > 0

-----------------------------------------------------------------------------
(* The list and the caret                                                  *)

\* Going to a bookmark sets the caret there, if there is such an offset.
CaretTo(bkms, index) ==
  IF index \in 0..Len(bkms) - 1 /\ FirstOffset(bkms[index + 1]) < dataSize
  THEN FirstOffset(bkms[index + 1]) ELSE caretPos

\* UpdateListCount(fPreserveSelected), with bkms to show.  Selecting the current
\* item sends LVN_ITEMCHANGED, and that goes to the bookmark.
UpdateListCount(bkms, preserve) ==
  LET again == preserve /\ current < Len(bkms)
  IN  IF ~dialog THEN UNCHANGED <<items, selected, caretPos>>
      ELSE /\ items' = Len(bkms)
           /\ selected' = IF again THEN {current} ELSE {}
           /\ caretPos' = IF again THEN CaretTo(bkms, current) ELSE caretPos

\* The bookmarks shown become bkms.
SetShown(bkms) ==
  IF isVirtual THEN handler' = bkms /\ UNCHANGED own ELSE own' = bkms /\ UNCHANGED handler

\* Mutant: the list is not told.
Forgotten(bkms) ==
  /\ SetShown(bkms)
  /\ UNCHANGED <<items, selected, caretPos, current, isVirtual, dialog, dataSize>>

Removed(bkms) ==
  /\ SetShown(bkms)
  /\ UpdateListCount(bkms, FALSE)
  /\ UNCHANGED <<current, isVirtual, dialog, dataSize>>

-----------------------------------------------------------------------------
(* Operations                                                              *)

\* CMD_BKM_ADD for the selection or the caret's byte, or the client.
AddBkm(spans) ==
  LET bkms == Append(Shown(own), [id |-> NewId(Shown(own)), spans |-> spans])
  IN  /\ Len(bkms) <= (IF isVirtual THEN MaxVirt ELSE MaxBkms)
      /\ SetShown(bkms)
      /\ UpdateListCount(bkms, TRUE)
      /\ UNCHANGED <<current, isVirtual, dialog, dataSize>>

\* The commands, as menus and keys have them.  Without data the caret is at 0.
IsCmdAvail(eCmd) ==
  IF eCmd = "BKM_REMOVE" THEN HitTest(Shown(own), caretPos) # 0 ELSE HasBookmarks

\* CMD_BKM_REMOVE, at the caret: the last bookmark there.
RemoveByOffset ==
  /\ IsCmdAvail("BKM_REMOVE")
  /\ Removed(Without(Shown(own), Shown(own)[HitTest(Shown(own), caretPos)].id))

RemoveByID(id) == Removed(Without(Shown(own), id))
RemoveAll == Removed(<<>>)

GoBookmark(index) ==
  IF IsDataSet /\ index < GetCount
  THEN current' = index /\ caretPos' = CaretTo(Shown(own), index)
  ELSE UNCHANGED <<current, caretPos>>

NextIndex(index) == IF index + 1 >= GetCount THEN 0 ELSE index + 1

PrevIndex(index) ==
  IF index - 1 < 0 \/ index - 1 >= GetCount THEN GetCount - 1 ELSE index - 1

Go(index) ==
  /\ IsCmdAvail("BKM_NEXT")
  /\ IsDataSet
  /\ current' = index
  /\ caretPos' = CaretTo(Shown(own), index)
  /\ UNCHANGED <<own, handler, isVirtual, dialog, items, selected, dataSize>>

GoNext == Go(NextIndex(current))
GoPrev == Go(PrevIndex(current))

\* OnInitDialog; the dialog is hidden afterwards, and goes with the control's
\* window.
CreateDlg ==
  /\ ~dialog
  /\ dialog' = TRUE /\ items' = GetCount /\ selected' = {}
  /\ UNCHANGED <<own, handler, isVirtual, current, dataSize, caretPos>>

\* OnDestroy of the control's window, after which the client makes it a new one;
\* the object, its bookmark manager and the manager's m_llIndexCurr live on.
OnDestroy ==
  /\ SetShown(<<>>)
  /\ dialog' = FALSE /\ items' = 0 /\ selected' = {}
  /\ dataSize' = 0 /\ caretPos' = 0
  /\ UNCHANGED <<isVirtual, current>>

\* An item is clicked, or clicked with Ctrl: LVN_ITEMCHANGED.
SelectItem(item, add) ==
  /\ dialog
  /\ item \in 0..items - 1
  /\ selected' = IF add THEN selected \cup {item} ELSE {item}
  /\ IF selected' # selected THEN GoBookmark(item) ELSE UNCHANGED <<current, caretPos>>
  /\ UNCHANGED <<own, handler, isVirtual, dialog, items, dataSize>>

\* One round of the loop of IDM_BKMMGR_REMOVE: GetByIndex, RemoveBookmark.
RemoveItem(bkms, item) ==
  IF item \in selected /\ item < Len(Shown(bkms))
  THEN Without(bkms, Shown(bkms)[item + 1].id) ELSE bkms

\* Mutant: the first of the selected goes first.
FirstGoesFirst(bkms) ==
  LET left[k \in 0..items] == IF k = 0 THEN bkms ELSE RemoveItem(left[k - 1], k - 1)
  IN  left[items]

\* All rounds: the last of the selected goes first.
WithoutSelected(bkms) ==
  LET left[k \in 0..items] == IF k = 0 THEN bkms ELSE RemoveItem(left[k - 1], items - k)
  IN  left[items]

\* The list's menu, "Remove"; it removes from m_vecBookmarks.
RemoveSelected ==
  /\ dialog /\ selected # {}
  /\ own' = WithoutSelected(own)
  /\ UpdateListCount(Shown(own'), FALSE)
  /\ UNCHANGED <<handler, isVirtual, current, dialog, dataSize>>

\* std::sort leaves equal bookmarks in any order.
Key(b, column) ==
  CASE column = "Offset" -> FirstOffset(b) [] column = "Size" -> SizeOf(b) [] OTHER -> 0
Ordered(bkms, column, ascending) ==
  \A i, j \in 1..Len(bkms) : i < j =>
    IF ascending THEN Key(bkms[i], column) <= Key(bkms[j], column)
                 ELSE Key(bkms[i], column) >= Key(bkms[j], column)

SortBookmarks(column, ascending) ==
  /\ dialog /\ ~isVirtual
  /\ \E order \in [1..Len(own) -> 1..Len(own)] :
       /\ \A i, j \in 1..Len(own) : order[i] = order[j] => i = j
       /\ own' = [i \in 1..Len(own) |-> own[order[i]]]
  /\ Ordered(own', column, ascending)
  /\ UNCHANGED <<handler, isVirtual, current, dialog, items, selected, dataSize, caretPos>>

\* A bookmark of the control's is overwritten, its identifier included.  Update
\* itself has no caller; a client does it through the pointer GetByID returns.
Update(id, bkm) ==
  LET at == SelectInSeq(own, LAMBDA b : b.id = id)
  IN  /\ ~isVirtual /\ at # 0
      /\ own' = [own EXCEPT ![at] = bkm]
      /\ UNCHANGED <<handler, isVirtual, current, dialog, items, selected, dataSize, caretPos>>

\* What the list shows of an item, its offset and its size.
OnNotifyListGetDispInfo(item) ==
  <<FirstOffset(Shown(own)[item + 1]), SizeOf(Shown(own)[item + 1])>>

\* One of them is typed into the list: one span remains.
OnNotifyListSetData(item, span) ==
  LET shown == OnNotifyListGetDispInfo(item)
  IN  /\ dialog
      /\ item < items /\ item < GetCount
      /\ span # shown
      /\ span[1] = shown[1] \/ span[2] = shown[2]
      /\ SetShown([Shown(own) EXCEPT ![item + 1].spans = <<span>>])
      /\ UNCHANGED <<isVirtual, current, dialog, items, selected, dataSize, caretPos>>

SetVirtual(virtual) ==
  /\ isVirtual' = virtual
  /\ UNCHANGED <<own, handler, current, dialog, items, selected, dataSize, caretPos>>

\* The caret is moved by any other means.
SetCaretPos(offset) ==
  /\ offset < dataSize
  /\ caretPos' = offset
  /\ UNCHANGED <<own, handler, isVirtual, current, dialog, items, selected, dataSize>>

\* ClearData and SetData: with the data, the bookmarks go.
SetData(size) ==
  /\ SetShown(IF IsDataSet THEN <<>> ELSE Shown(own))
  /\ IF dialog /\ IsDataSet THEN items' = 0 /\ selected' = {} ELSE UNCHANGED <<items, selected>>
  /\ dataSize' = size
  /\ caretPos' = 0
  /\ UNCHANGED <<isVirtual, current, dialog>>

-----------------------------------------------------------------------------
(* The specification                                                       *)

Init ==
  /\ own = <<>> /\ handler = <<>> /\ isVirtual = FALSE
  /\ current = 0
  /\ dialog = FALSE /\ items = 0 /\ selected = {}
  /\ dataSize = 0 /\ caretPos = 0

Next ==
  \/ \E spans \in Extents : AddBkm(spans)
  \/ RemoveByOffset
  \/ \E id \in 0..MaxId : RemoveByID(id)
  \/ RemoveAll
  \/ GoNext \/ GoPrev
  \/ CreateDlg \/ OnDestroy
  \/ \E item \in 0..items - 1, add \in BOOLEAN : SelectItem(item, add)
  \/ RemoveSelected
  \/ \E column \in {"Number", "Offset", "Size"}, ascending \in BOOLEAN :
       SortBookmarks(column, ascending)
  \/ \E item \in 0..items - 1, spans \in Extents : OnNotifyListSetData(item, spans[1])
  \/ \E id \in 0..MaxId, bkm \in [id : Written, spans : Extents] : Update(id, bkm)
  \/ \E virtual \in BOOLEAN : SetVirtual(virtual)
  \/ \E offset \in 0..dataSize - 1 : SetCaretPos(offset)
  \/ \E size \in Sizes : SetData(size)

Spec == Init /\ [][Next]_bkmVars

-----------------------------------------------------------------------------
(* Properties                                                              *)

\* The state's types; the caret is in the data.
TypeOK ==
  /\ \A b \in ToSet(own) \cup ToSet(handler) : b.id \in 0..MaxId /\ Len(b.spans) > 0
  /\ isVirtual \in BOOLEAN /\ dialog \in BOOLEAN
  /\ current \in 0..MaxBkms - 1
  /\ selected \subseteq 0..items - 1
  /\ caretPos \in 0..dataSize - 1 \/ caretPos = 0

\* A client gives a bookmark the identifier another one has.
GivesTakenId ==
  \E id \in 0..MaxId, bkm \in [id : Written, spans : Extents] :
    Update(id, bkm) /\ bkm.id \in Ids(own) \ {id}

\* Two bookmarks of the control's get the same identifier, which GetByID and
\* RemoveByID find them by, only when a client writes it into a bookmark or the
\* largest identifier there is has been used: never because bookmarks were removed,
\* sorted or edited before AddBkm numbered the next.
IdsStayDistinct ==
  [][Distinct(own) /\ MaxId \notin Ids(own) /\ ~GivesTakenId => Distinct(own')]_bkmVars

\* The bookmarks left of those before, each once and in their order: those at
\* the places kept.
Keeps(left, before, kept) ==
  \E from \in [1..Len(left) -> 1..Len(before)] :
    /\ \A j, k \in 1..Len(left) : j < k => from[j] < from[k]
    /\ {from[k] : k \in 1..Len(left)} = kept
    /\ \A k \in 1..Len(left) : left[k] = before[from[k]]

\* The menu removes the selected bookmarks and no others, in whatever order the
\* list is and the items were selected, as long as no two bookmarks have the same
\* identifier: it removes by that.
MenuRemovesSelected ==
  /\ TypeOK
  /\ ~isVirtual /\ Distinct(own) =>
       Keeps(WithoutSelected(own), own, {i \in 1..Len(own) : i - 1 \notin selected})

\* When bookmarks come or go, by command, client, menu or new data, the dialog's
\* list has one item for each, and none selected that is not there.
ListFollows ==
  [][dialog' /\ <<own, handler>>' # <<own, handler>> /\ Len(Shown(own)) # Len(Shown(own)')
       => items' = Len(Shown(own)') /\ selected' \subseteq 0..items' - 1]_bkmVars

=============================================================================
