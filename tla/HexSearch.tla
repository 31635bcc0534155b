------------------------------ MODULE HexSearch ------------------------------
(***************************************************************************)
(* The search dialog (CHexDlgSearch.cpp): its buttons read the dialog's    *)
(* boxes and convert what is typed there (Prepare, with the conversions of *)
(* HexSearchText), may forget the search so far (ResetSearch), search      *)
(* with the functions of HexScan, and show what they found in the hex      *)
(* control, in the list and in the box "Start from", from where the next   *)
(* search goes on.  HexFindAll has the worker thread that Find All and     *)
(* Replace All may run on; here a search is one step of the UI thread.     *)
(***************************************************************************)
EXTENDS HexSearchText, FiniteSets

CONSTANTS
  Datas,     \* bound: what a client sets, <<bytes, virtual>>, bytes by offset
  Spans,     \* bound: what the user selects, <<offset, size>>
  Boxes,     \* bound: what is typed into the dialog, see BoxType
  Entries,   \* bound: what is typed into "Start from"
  Edits,     \* bound: other modifications of the data, <<offset, byte>>
  NoEntry    \* an empty box; no selection

VARIABLES
  data,      \* the hex control's data
  virtual,   \* IsVirtual()
  selection, \* GetSelection().front()
  editStart, \* m_WndEditStart, the box "Start from"
  dlg        \* the dialog's members

searchVars == <<data, virtual, selection, editStart, dlg>>

DataSize == Cardinality(DOMAIN data)
IsDataSet == DataSize > 0

\* The boxes, read when a button is pressed: the text to search for and its
\* replacement, for one search type, and the rest as numbers and marks.  One of
\* the numbers may be wrong, and a message says so; overwrite is the answer to the
\* question asked before more bytes are replaced than were searched for.
ASSUME BoxAssumption ==
  \A box \in Boxes :
    /\ box.type \in Types /\ box.step > 0 /\ box.limit > 0
    /\ {box.selMode, box.inverted, box.overwrite, box.bigEndian, box.matchCase, box.wildcard}
         \subseteq BOOLEAN
    /\ box.wrong \in {"nothing", "range", "other"}

-----------------------------------------------------------------------------
(* The dialog's members                                                    *)

ResetSearch(d) == [d EXCEPT !.fresh = TRUE, !.start = 0, !.second = FALSE,
                            !.found = FALSE, !.results = {}]
ClearList(d) == [d EXCEPT !.results = {}]

\* AddToList: each offset once, up to the limit.
AddToList(d, offset, limit) ==
  IF Cardinality(d.results) < limit THEN [d EXCEPT !.results = @ \cup {offset}] ELSE d

\* CreateSearchData, and the search function called with it.
Find(d, box, forward, bytes) ==
  LET how == IF forward THEN GetSearchFuncFwd(d, box) ELSE GetSearchFuncBack(d, box)
  IN  SearchFunc([start |-> d.start, rngStart |-> d.rngStart, rngEnd |-> d.rngEnd,
                  find |-> d.find, step |-> box.step, inverted |-> box.inverted,
                  forward |-> forward, virtual |-> virtual, data |-> bytes,
                  vector |-> how.vector, width |-> how.width, wild |-> how.wild, lower |-> how.lower])

LastOffset(d) == d.rngEnd + 1 - Len(d.find)  \* GetLastSearchOffset()

Found(d, offset) == [d EXCEPT !.found = TRUE, !.second = TRUE, !.start = offset]
FoundNothing(d) == [d EXCEPT !.found = FALSE]

-----------------------------------------------------------------------------
(* FindForward, FindBackward                                               *)

\* Both search from here and, if nothing is found, once more from the other end
\* of the range; a first search forward does not.
FindForward(d, box) == <<d.start>> \o (IF d.second THEN <<d.rngStart>> ELSE <<>>)

FindBackward(d, box) ==
  (IF d.second /\ d.start - box.step >= d.rngStart THEN <<d.start - box.step>> ELSE <<>>)
  \o <<LastOffset(d)>>

FirstFound(d, hits) ==
  IF hits = <<>> THEN FoundNothing(d) ELSE Found(d, Head(hits))

FindFrom(d, box, forward, starts) ==
  FirstFound(d, SelectSeq([i \in 1..Len(starts) |->
                             Find([d EXCEPT !.start = starts[i]], box, forward, data)],
                          LAMBDA hit : hit # NotFound))

-----------------------------------------------------------------------------
(* Replace, Find All and Replace All                                       *)

Written(bytes, offset, repl) ==
  [o \in DOMAIN bytes |->
     IF o \in offset..offset + Len(repl) - 1 THEN repl[o - offset + 1] ELSE bytes[o]]

\* How far behind a match the next search starts.
Advance(d, box) == IF d.replace /\ Len(d.repl) > box.step THEN Len(d.repl) ELSE box.step

HasRoom(d, offset) == offset + Len(d.repl) <= d.rngEnd + 1

\* Mutant: the occurrence is replaced where the search started.
ReplacedAtStart(d) ==
  IF d.found THEN Written(data, IF d.results = {} THEN d.rngStart ELSE d.start, d.repl)
             ELSE data

Replaced(d) ==
  IF d.found /\ HasRoom(d, d.start) THEN Written(data, d.start, d.repl) ELSE data

\* One cycle of the loops of FindAll and ReplaceAll.
TakeHit(l, box, hit) ==
  LET d     == l.d
      next  == hit + Advance(d, box)
      taken == [d EXCEPT !.results = @ \cup {hit}, !.found = TRUE]
      bytes == IF d.replace THEN Written(l.bytes, hit, d.repl) ELSE l.bytes
  IN  IF hit = NotFound \/ (d.replace /\ ~HasRoom(d, hit))
      THEN [l EXCEPT !.over = TRUE]
      ELSE IF next > LastOffset(d) \/ Cardinality(taken.results) >= box.limit
      THEN [d |-> taken, bytes |-> bytes, over |-> TRUE]
      ELSE [d |-> [taken EXCEPT !.start = next], bytes |-> bytes, over |-> FALSE]

LoopCycle(l, box) ==
  IF l.over THEN l ELSE TakeHit(l, box, Find(l.d, box, TRUE, l.bytes))

FindAll(d, box) ==
  LET cycle[n \in 0..d.rngEnd + 1] ==
        IF n = 0 THEN [d |-> ClearList(d), bytes |-> data, over |-> FALSE]
                 ELSE LoopCycle(cycle[n - 1], box)
  IN  cycle[d.rngEnd + 1]

-----------------------------------------------------------------------------
(* Search                                                                  *)

\* What a button leaves behind: the data, the selection, "Start from", the members.
Outcome(bytes, sel, from, d) ==
  [data |-> bytes, selection |-> sel, editStart |-> from, dlg |-> d]

\* HexCtrlHighlight; in a search of the selection, it does not select.
Highlighted(offset, size, selMode) == IF selMode THEN selection ELSE <<offset, size>>

\* The end of Search: nothing is found, or a match is shown.
Show(d, box, bytes) ==
  IF d.found
  THEN Outcome(bytes,
               Highlighted(d.start, IF d.replace THEN Len(d.repl) ELSE Len(d.find), box.selMode),
               IF d.replace THEN d.start + Advance(d, box) ELSE d.start,
               AddToList(d, d.start, box.limit))
  ELSE Outcome(bytes, selection, editStart, ResetSearch(d))

ShowAll(loop) ==
  Outcome(loop.bytes, selection, editStart,
          IF loop.d.found THEN loop.d ELSE ResetSearch(loop.d))

ShowOne(d, box) == Show(d, box, IF d.replace THEN Replaced(d) ELSE data)

Stepped(d, box, forward) ==
  IF forward /\ ~d.replace /\ d.second THEN [d EXCEPT !.start = @ + box.step] ELSE d

SearchOne(d, box, forward) ==
  ShowOne(FindFrom(d, box, forward,
                   IF forward THEN FindForward(d, box) ELSE FindBackward(d, box)), box)

Search(d, box, all, forward) ==
  IF all THEN ShowAll(FindAll(d, box))
         ELSE SearchOne(Stepped(d, box, forward), box, forward)

-----------------------------------------------------------------------------
(* Prepare                                                                 *)

\* A new text is a new search.  The replacement is that of the last Replace.
Typed(d, box) ==
  [(IF box.text = d.wstrSearch THEN d ELSE ResetSearch(d)) EXCEPT
     !.wstrSearch = box.text,
     !.wstrReplace = IF d.replace /\ box.repl # <<>> THEN box.repl ELSE @]

\* The texts as bytes; an empty replacement is not converted.
Converted(d, box) ==
  IF d.replace /\ box.repl = <<>> THEN Refused(Typed(d, box)) ELSE PrepareText(Typed(d, box), box)

RngStart(box) == IF box.selMode THEN selection[1]
                 ELSE IF box.range[1] = NoEntry THEN 0 ELSE box.range[1]
RngEnd(box) == IF box.selMode THEN selection[1] + selection[2] - 1
               ELSE IF box.range[2] = NoEntry THEN DataSize - 1 ELSE box.range[2]

\* A search of the selection goes on where it was, unless the selection changed.
NewSelection(d, box, all) ==
  box.selMode /\ (d.fresh \/ all \/ RngStart(box) # d.rngStart \/ RngEnd(box) # d.rngEnd)

Entered(d, box, all) ==
  IF NewSelection(d, box, all) THEN [ResetSearch(d) EXCEPT !.fresh = FALSE] ELSE d

StartFrom(d, box, all) ==
  IF box.selMode THEN IF NewSelection(d, box, all) THEN RngStart(box) ELSE d.start
  ELSE IF editStart = NoEntry THEN RngStart(box) ELSE editStart

OutOfBounds(start, box) ==
  \/ RngStart(box) > RngEnd(box)
  \/ RngEnd(box) >= DataSize
  \/ start \notin RngStart(box)..RngEnd(box)

\* A "Start from" that is not where the search is begins a new one.
Moved(d, start) == IF d.second /\ start # d.start THEN ResetSearch(d) ELSE d

StopWith(d) == Outcome(data, selection, editStart, d)

\* The end of Prepare: the step, the limit, the user's leave to overwrite more
\* than what is found, and the search.
Begin(d, box, start, all, forward) ==
  IF box.wrong = "other" \/ (d.replace /\ Len(d.repl) > Len(d.find) /\ ~box.overwrite)
  THEN StopWith(d)
  ELSE Search([d EXCEPT !.start = start, !.rngStart = RngStart(box), !.rngEnd = RngEnd(box),
                        !.found = FALSE],
              box, all, forward)

Prepare(d, box, all, forward) ==
  LET text  == Converted(d, box)
      new   == text.dlg
      in    == Entered(new, box, all)
      start == StartFrom(new, box, all)
  IN  IF ~IsDataSet \/ box.text = <<>> THEN StopWith(d)
      ELSE IF \/ ~text.ok
              \/ box.wrong = "range" /\ ~box.selMode
              \/ box.selMode /\ selection = NoEntry THEN StopWith(new)
      ELSE IF OutOfBounds(start, box) THEN StopWith(in)
      ELSE IF start + Len(new.find) > RngEnd(box) + 1 THEN StopWith(ResetSearch(in))
      ELSE Begin(Moved(in, start), box, start, all, forward)

-----------------------------------------------------------------------------
(* The user and the client                                                 *)

Pressed(box, replace, all, forward) ==
  Prepare([dlg EXCEPT !.replace = replace], box, all, forward)

Press(box, replace, all, forward) ==
  /\ box.type = dlg.type
  /\ \E outcome \in {Pressed(box, replace, all, forward)} :
       /\ data' = outcome.data
       /\ selection' = outcome.selection
       /\ editStart' = outcome.editStart
       /\ dlg' = outcome.dlg
  /\ UNCHANGED virtual

FindNext(box) == Press(box, FALSE, FALSE, TRUE)     \* OnButtonSearchF, SearchNextPrev
FindPrevious(box) == Press(box, FALSE, FALSE, FALSE)
OnButtonFindAll(box) == Press(box, FALSE, TRUE, TRUE)
OnButtonReplace(box) == Press(box, TRUE, FALSE, TRUE)
OnButtonReplaceAll(box) == Press(box, TRUE, TRUE, TRUE)

\* An item of the list is clicked: the search goes on from there.
OnNotifyListItemChanged(offset, selMode) ==
  /\ offset \in dlg.results
  /\ selection' = Highlighted(offset, IF dlg.replace THEN Len(dlg.repl) ELSE Len(dlg.find),
                              selMode)
  /\ editStart' = offset
  /\ dlg' = [dlg EXCEPT !.start = offset]
  /\ UNCHANGED <<data, virtual>>

\* The list's menu, "Clear All".
OnClearAll ==
  /\ dlg' = [ClearList(dlg) EXCEPT !.second = FALSE]
  /\ UNCHANGED <<data, virtual, selection, editStart>>

\* Another mode ends the search, another type of the same mode does not.
OnComboModeSelChange(mode) ==
  /\ dlg' = [(IF mode = ModeOf(dlg.type) THEN dlg ELSE ResetSearch(dlg)) EXCEPT
               !.type = TypesOf[mode][1]]
  /\ UNCHANGED <<data, virtual, selection, editStart>>

OnComboTypeSelChange(type) ==
  /\ ModeOf(type) = ModeOf(dlg.type)
  /\ dlg' = [dlg EXCEPT !.type = type]
  /\ UNCHANGED <<data, virtual, selection, editStart>>

TypeStartFrom(entry) ==
  /\ editStart' = entry
  /\ UNCHANGED <<data, virtual, selection, dlg>>

Select(span) ==
  /\ IsDataSet
  /\ span # NoEntry => span[1] + span[2] <= DataSize
  /\ selection' = span
  /\ UNCHANGED <<data, virtual, editStart, dlg>>

\* Any other modification of the data, a byte at a time.
ModifyByte(offset, byte) ==
  /\ offset \in DOMAIN data
  /\ data' = [data EXCEPT ![offset] = byte]
  /\ UNCHANGED <<virtual, selection, editStart, dlg>>

\* Mutant: the results of the old data stay in the list.
ListKept(d) == d

\* CHexDlgSearch::ClearData, called by the control's.
DlgClearData(d) == ClearList(d)

ClearData ==
  /\ data' = <<>>
  /\ selection' = NoEntry
  /\ dlg' = DlgClearData(dlg)
  /\ UNCHANGED <<virtual, editStart>>

SetData(hds) ==
  /\ data' = hds[1]
  /\ virtual' = hds[2]
  /\ selection' = NoEntry
  /\ dlg' = DlgClearData(dlg)
  /\ UNCHANGED editStart

-----------------------------------------------------------------------------
(* The specification                                                       *)

Init ==
  /\ \E hds \in Datas : data = hds[1] /\ virtual = hds[2]
  /\ selection = NoEntry
  /\ editStart = NoEntry
  /\ dlg = [start |-> 0, rngStart |-> 0, rngEnd |-> 0, second |-> FALSE, fresh |-> TRUE,
            found |-> FALSE, results |-> {}, replace |-> FALSE, type |-> "HEXBYTES",
            wstrSearch |-> <<>>, wstrReplace |-> <<>>, find |-> <<>>, repl |-> <<>>]

Next ==
  \/ \E box \in Boxes :
       \/ FindNext(box) \/ FindPrevious(box) \/ OnButtonFindAll(box)
       \/ OnButtonReplace(box) \/ OnButtonReplaceAll(box)
  \/ \E offset \in dlg.results, selMode \in BOOLEAN : OnNotifyListItemChanged(offset, selMode)
  \/ OnClearAll
  \/ \E mode \in Modes : OnComboModeSelChange(mode)
  \/ \E type \in Types : OnComboTypeSelChange(type)
  \/ \E entry \in Entries : TypeStartFrom(entry)
  \/ \E span \in Spans : Select(span)
  \/ \E edit \in Edits : ModifyByte(edit[1], edit[2])
  \/ ClearData
  \/ \E hds \in Datas : SetData(hds)

Spec == Init /\ [][Next]_searchVars

-----------------------------------------------------------------------------
(* Properties                                                              *)

Offsets == 0..Max(UNION {DOMAIN hds[1] : hds \in Datas})

\* The state's types.
TypeOK ==
  /\ virtual \in BOOLEAN
  /\ IsDataSet => \E n \in Offsets : DOMAIN data = 0..n
  /\ dlg.results \subseteq Offsets
  /\ dlg.start \in Nat
  /\ {dlg.second, dlg.fresh, dlg.found, dlg.replace} \subseteq BOOLEAN

\* What a reader of the data would compare with a text: characters, bytes or one
\* number, of so many bytes each, in the order of the bytes the box asks for.
Width(type) ==
  IF type \in DOMAIN NumberSize THEN NumberSize[type]
  ELSE IF type = "STRUCT_FILETIME" THEN 4 ELSE IF type = "TEXT_UTF16" THEN 2 ELSE 1

Units(box, text) ==
  CASE box.type = "HEXBYTES" -> NumStrToHex(text, box.wildcard)
    [] box.type = "TEXT_ASCII" -> WstrToStr(text, Ansi)
    [] box.type = "TEXT_UTF8" -> WstrToStr(text, Utf8)
    [] box.type = "STRUCT_FILETIME" -> <<Ticks(text) % Values(4), Ticks(text) \div Values(4)>>
    [] OTHER -> text

ReadsNumber(type) == ModeOf(type) \in {"MODE_NUMBERS", "MODE_STRUCT"}
HeedsWildcard(box) == box.wildcard /\ box.type \in {"HEXBYTES", "TEXT_ASCII", "TEXT_UTF16"}
IgnoresCase(box) == ~box.matchCase /\ box.type \in {"TEXT_ASCII", "TEXT_UTF16"}
InLowerCase(x) == IF x \in Capitals THEN x + ToLower ELSE x

SizeOf(box, text) == Len(Units(box, text)) * Width(box.type)

Read(bytes, o, box) ==
  LET unit == Char(bytes, o, Width(box.type))
  IN  Number(Ordered(unit, ReadsNumber(box.type) /\ box.bigEndian))

Alike(box, x, y) ==
  \/ x = y
  \/ HeedsWildcard(box) /\ y = Wildcard
  \/ IgnoresCase(box) /\ InLowerCase(x) = InLowerCase(y)

\* The definition of a match, and of the matches in a box's range that are whole
\* steps from an offset.
Matches(box, units, o) ==
  \A i \in 1..Len(units) : Alike(box, Read(data, o + (i - 1) * Width(box.type), box), units[i])

InSteps(box, from) ==
  LET units == Units(box, box.text)
  IN  {o \in RngStart(box)..RngEnd(box) + 1 - Len(units) * Width(box.type) :
         (o - from) % box.step = 0 /\ Matches(box, units, o) # box.inverted}

\* A search of the same text that goes on from the match shown last; any other
\* starts at the box "Start from", or at the selection's start.
SameSearch(box) ==
  /\ dlg.second
  /\ box.text = dlg.wstrSearch
  /\ ~NewSelection(dlg, box, FALSE)
  /\ StartFrom(dlg, box, FALSE) = dlg.start

From(box) ==
  IF box.selMode /\ (box.text # dlg.wstrSearch \/ NewSelection(dlg, box, FALSE)) THEN RngStart(box)
  ELSE StartFrom(dlg, box, FALSE)

\* The search takes place.
Understood(box, text) ==
  CASE box.type = "HEXBYTES" -> NumStrToHex(text, box.wildcard) # <<>>
    [] box.type \in DOMAIN NumberSize -> IsNumber(text, NumberSize[box.type])
    [] box.type = "STRUCT_FILETIME" -> IsTime(text)
    [] OTHER -> text # <<>>

Accepted(box) ==
  /\ IsDataSet
  /\ box.type = dlg.type
  /\ Understood(box, box.text)
  /\ box.wrong = "nothing"
  /\ box.selMode => selection # NoEntry
  /\ ~OutOfBounds(From(box), box)
  /\ From(box) + SizeOf(box, box.text) <= RngEnd(box) + 1
  /\ virtual => box.step = 1

\* Find Next shows the next match in steps: none is skipped and none shown again
\* before all others, whether by vectors or in chunks of virtual data, and
\* whatever was searched, listed, replaced or typed before.  After the last match
\* it starts over.  If there is no match left the search is forgotten.
Ahead(box) ==
  {o \in InSteps(box, From(box)) : IF SameSearch(box) THEN o > From(box) ELSE o >= From(box)}
Around(box) == IF SameSearch(box) THEN InSteps(box, RngStart(box)) ELSE {}

Shows(d, o) == d.found /\ d.start = o
Forgotten(d) == ~d.second /\ d.results = {}

\* The vector functions heed the case of letters even if the box is not checked.
CaseOfVectors(box) ==
  IgnoresCase(box) /\ ~box.wildcard /\ box.step = 1 /\ SizeOf(box, box.text) \in {1, 2, 4}

NextInOrder ==
  \A box \in {b \in Boxes : Accepted(b) /\ ~CaseOfVectors(b)} :
    LET d     == Pressed(box, FALSE, FALSE, TRUE).dlg
        ahead == Ahead(box)
    IN  IF ahead # {} THEN Shows(d, Min(ahead))
        ELSE IF Around(box) # {} THEN Shows(d, Min(Around(box)))
        ELSE Forgotten(d)

\* Find Previous shows the match before the one shown, and the last one of the
\* range if there is none before or nothing is shown yet.
Behind(box) ==
  IF SameSearch(box) THEN {o \in InSteps(box, From(box)) : o < From(box)} ELSE {}
FromEnd(box) == InSteps(box, RngEnd(box) + 1 - SizeOf(box, box.text))

PreviousInOrder ==
  \A box \in {b \in Boxes : Accepted(b)} :
    LET d      == Pressed(box, FALSE, FALSE, FALSE).dlg
        behind == Behind(box)
    IN  IF behind # {} THEN Shows(d, Max(behind))
        ELSE IF FromEnd(box) # {} THEN Shows(d, Max(FromEnd(box)))
        ELSE Forgotten(d)

\* Whatever was searched before, in whatever order and other box, and whatever the
\* text stands for, Find Next and Find Previous show the match that a reader of
\* the data would take next.
FindsInOrder == NextInOrder /\ PreviousInOrder

\* Replace changes the bytes of one match in the range into what its box says, read
\* as the match is read, and no other byte; the next Replace starts behind them.
ReadsAs(bytes, o, box, text) ==
  \A i \in 1..Len(Units(box, text)) :
    Read(bytes, o + (i - 1) * Width(box.type), box) = Units(box, text)[i]

ReplacesOneMatch ==
  \A box \in {b \in Boxes : b.type = dlg.type} : \A after \in {Pressed(box, TRUE, FALSE, TRUE)} :
    LET at    == after.dlg.start
        plain == [box EXCEPT !.wildcard = FALSE]
        size  == SizeOf(plain, box.repl)
    IN  after.data # data =>
          /\ at \in InSteps([box EXCEPT !.step = 1], 0)
          /\ ReadsAs(after.data, at, plain, box.repl)
          /\ \A o \in DOMAIN data : o \in at..at + size - 1 \/ after.data[o] = data[o]
          /\ at + size <= RngEnd(box) + 1
          /\ after.editStart >= at + size

\* What the list offers to show is inside the data, however the data was
\* replaced since, all of it unless the mode has types of other sizes, and the
\* list holds no more than the largest limit.
ListInData ==
  /\ TypeOK
  /\ \A o \in dlg.results :
       /\ o \in DOMAIN data
       /\ Len(TypesOf[ModeOf(dlg.type)]) = 1 => o + Len(dlg.find) <= DataSize
  /\ Cardinality(dlg.results) <= Max({box.limit : box \in Boxes})

=============================================================================
