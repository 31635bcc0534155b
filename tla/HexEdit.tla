------------------------------ MODULE HexEdit ------------------------------
(***************************************************************************)
(* Editing at the caret: what is typed (OnKeyDown and OnChar), the         *)
(* clipboard's paste, and the data interpreter that shows the bytes at the *)
(* caret as numbers and dates and writes back what a user enters in a row. *)
(* Every action that moves the caret or changes data is HexNav's together  *)
(* with what it tells the interpreter.                                     *)
(***************************************************************************)
EXTENDS HexNav, HexRows

CONSTANTS
  Contents,    \* bound: the data a client sets
  Texts,       \* bound: what a user enters in a row
  Clips,       \* bound: what is on the clipboard, as the bytes it converts to
  MaxTyped,    \* bound: keys typed in a row
  MaxChanges   \* bound: changes of data

\* A client sets data, and a text has the fields of its row.
ASSUME EditAssumption ==
  /\ Contents \cup Clips \subseteq Seq(0..ByteValues - 1)
  /\ \A bytes \in Contents : Len(bytes) \in 1..MaxSize
  /\ \A row \in Rows : \A text \in Texts[row] :
       /\ text \in Seq(Nat)
       /\ Len(text) = (CASE row = "SYSTEMTIME" -> 7 [] row = "GUID" -> 11 [] OTHER -> 1)

VARIABLES
  data,      \* the bytes; dataSize is their number
  keyDown,   \* m_fKeyDownAtm
  interp,    \* the data interpreter: visible, m_ullOffset, m_vecData, the
             \* box Big endian, the size of the binary row
  editing,   \* the row whose edit box is open, or "none"
  behind,    \* history: caret or data were set without telling the interpreter
  typed,     \* history: the keys typed since, and where they began
  entry,     \* history: the entry this step made
  changes    \* history: changes so far

historyVars == <<behind, typed, entry, changes>>
editVars == <<data, keyDown, interp, editing, historyVars>>

At(dat, offset, size) == SubSeq(dat, offset + 1, offset + size)

\* ModifyData once, at one span.
Put(dat, offset, bytes) ==
  [i \in 1..Len(dat) |->
     IF i \in offset + 1..offset + Len(bytes) THEN bytes[i - offset] ELSE dat[i]]

NothingTyped == [from |-> 0, keys |-> <<>>]
NoEntry == [row |-> "none"]

-----------------------------------------------------------------------------
(* The interpreter's view of the data                                      *)

SizeOf(dlg, row) == IF row = "BINARY" THEN dlg.binSize ELSE RowSize[row]

RowText(dlg, row, dat, offset) ==
  IF offset + SizeOf(dlg, row) > Len(dat) THEN NoText
  ELSE ShowValue(row, At(dat, offset, SizeOf(dlg, row)), dlg.bigEndian)

\* Mutant: rows that do not fit any more keep their text.
RowsKept(dlg, dat, offset, fMutable) ==
  IF ~dlg.visible THEN dlg
  ELSE [dlg EXCEPT !.offset = offset,
          !.rows = [row \in Rows |-> IF offset + SizeOf(dlg, row) > Len(dat) THEN dlg.rows[row]
                                     ELSE IF row = "BINARY" /\ dlg.binSize = 16 THEN dlg.rows[row]
                                     ELSE RowText(dlg, row, dat, offset)],
          !.allowed = {row \in Rows : fMutable /\ offset + SizeOf(dlg, row) <= Len(dat)}]

\* UpdateData: from small rows to large ones, until one does not fit.  There
\* is no binary view of 16 bytes; the row keeps its text.
UpdateData(dlg, dat, offset, fMutable) ==
  IF ~dlg.visible THEN dlg
  ELSE [dlg EXCEPT !.offset = offset,
          !.rows = [row \in Rows |-> IF /\ row = "BINARY"
                                        /\ dlg.binSize = 16
                                        /\ offset + 16 <= Len(dat)
                                     THEN dlg.rows[row]
                                     ELSE RowText(dlg, row, dat, offset)],
          !.allowed = {row \in Rows : fMutable /\ offset + SizeOf(dlg, row) <= Len(dat)}]

Updated ==
  /\ \E dat \in {data'}, offset \in {caretPos'}, fMutable \in {mutable'} :
       interp' = UpdateData(interp, dat, offset, fMutable)
  /\ behind' = FALSE

\* OnCaretPosChange: not while a key is held.
OnCaretPosChange ==
  IF keyDown' THEN UNCHANGED <<interp, behind>> ELSE Updated

\* The mouse and the keys of the hex control take the focus from the edit
\* box, which closes it; a client's calls do not.
FocusOnHex == editing' = "none"
FocusAnywhere == editing' \in {editing, "none"}

Forget == typed' = NothingTyped /\ entry' = NoEntry
NoChange == UNCHANGED changes /\ Forget
Change == changes < MaxChanges /\ changes' = changes + 1 /\ Forget

-----------------------------------------------------------------------------
(* Data, caret and mouse: HexNav's actions, and what they tell             *)

SetContents(bytes, fMutable) ==
  /\ SetData(Len(bytes), fMutable)
  /\ data' = bytes
  /\ behind' = TRUE
  /\ UNCHANGED <<keyDown, interp, editing>>
  /\ NoChange

ClearContents ==
  /\ ClearData
  /\ data' = <<>>
  /\ behind' = TRUE
  /\ UNCHANGED <<keyDown, interp, editing>>
  /\ NoChange

AdjustContents(bytes, fMutable) ==
  /\ AdjustData(Len(bytes), fMutable)
  /\ data' = bytes
  /\ behind' = TRUE
  /\ UNCHANGED <<keyDown, interp, editing>>
  /\ NoChange

\* SetMutable tells the interpreter nothing either.
Protect(fMutable) ==
  /\ SetMutable(fMutable)
  /\ behind' = TRUE
  /\ UNCHANGED <<data, keyDown, interp, editing>>
  /\ NoChange

\* A command by its key, held or not, or from the menu.
CaretCommand(repeated) ==
  /\ CaretNext
  /\ UNCHANGED data
  /\ keyDown' = (keyDown \/ repeated)
  /\ OnCaretPosChange
  /\ FocusOnHex
  /\ NoChange

SelectCommand(repeated) ==
  /\ SelAddDown \/ SelAddLeft \/ SelAddRight \/ SelAddUp
  /\ UNCHANGED data
  /\ keyDown' = (keyDown \/ repeated)
  /\ OnCaretPosChange
  /\ FocusOnHex
  /\ NoChange

\* A key that does nothing else, held; the release of any key.
HoldKey ==
  /\ keyDown' = TRUE
  /\ FocusOnHex
  /\ UNCHANGED <<vars, data, interp, behind>>
  /\ NoChange

OnKeyUp ==
  /\ IsDataSet
  /\ keyDown
  /\ keyDown' = FALSE
  /\ UNCHANGED <<vars, data, editing>>
  /\ Updated
  /\ NoChange

ClientCaret(offset, high) ==
  /\ SetCaretPos(offset, high)
  /\ UNCHANGED <<data, keyDown, editing>>
  /\ IF offset < dataSize THEN OnCaretPosChange ELSE UNCHANGED <<interp, behind>>
  /\ NoChange

Click(hit, shift, alt) ==
  /\ OnLButtonDown(hit, shift, alt)
  /\ UNCHANGED <<data, keyDown>>
  /\ FocusOnHex
  /\ OnCaretPosChange
  /\ NoChange

\* A drag and a double click move the caret and tell nobody.
Drag(hit) ==
  /\ OnMouseMove(hit)
  /\ behind' = TRUE
  /\ UNCHANGED <<data, keyDown, interp, editing>>
  /\ NoChange

DoubleClick(hit, shift, alt) ==
  /\ OnLButtonDblClk(hit, shift, alt)
  /\ behind' = TRUE
  /\ UNCHANGED <<data, keyDown, interp, editing>>
  /\ NoChange

OtherSelection ==
  /\ \/ SelAll \/ SelMarkStart \/ SelMarkEnd \/ OnLButtonUp
     \/ \E spans \in ClientSels : ClientSelection(spans)
  /\ UNCHANGED <<data, keyDown, interp, editing, behind>>
  /\ NoChange

-----------------------------------------------------------------------------
(* Typing                                                                  *)

\* Where the next key goes, counted in halves of a byte or in bytes.
Place == IF textArea THEN caretPos ELSE 2 * caretPos + (IF caretHigh THEN 0 ELSE 1)

TypeOne(key) ==
  /\ IF typed.keys = <<>>
     THEN /\ changes < MaxChanges
          /\ changes' = changes + 1
          /\ typed' = [from |-> Place, keys |-> <<key>>]
     ELSE /\ Len(typed.keys) < MaxTyped
          /\ typed' = [typed EXCEPT !.keys = Append(@, key)]
          /\ UNCHANGED changes
  /\ entry' = NoEntry

\* ModifyData, whose OnModifyData updates the interpreter whatever key is
\* held, and CaretMoveRight.
Store(byte, repeated) ==
  LET new == Put(data, caretPos, <<byte>>)
      stored == UpdateData(interp, new, caretPos, mutable)
  IN  /\ data' = new
      /\ keyDown' = (keyDown \/ repeated)
      /\ CaretMoveRight
      /\ \E offset \in {caretPos'} :
           interp' = IF keyDown' THEN stored ELSE UpdateData(stored, new, offset, mutable)
      /\ behind' = FALSE
      /\ FocusOnHex

\* Mutant: the other half of the byte is lost.
HalfCleared(half) == IF caretHigh THEN half * HalfValues ELSE half

\* One half of the byte at the caret is replaced.
WithHalf(half) ==
  LET byte == data[caretPos + 1]
  IN  IF caretHigh THEN (half * HalfValues) + (byte % HalfValues)
                   ELSE ((byte \div HalfValues) * HalfValues) + half

OnKeyDown(half, repeated) ==
  /\ IsDataSet
  /\ mutable
  /\ ~textArea
  /\ Store(WithHalf(half), repeated)
  /\ TypeOne(half)

OnChar(byte, repeated) ==
  /\ IsDataSet
  /\ mutable
  /\ textArea
  /\ Store(byte, repeated)
  /\ TypeOne(byte)

-----------------------------------------------------------------------------
(* Commands that modify                                                    *)

\* What of the clipboard fits behind the caret.
Pasted(bytes) ==
  IF caretPos + Len(bytes) > dataSize THEN SubSeq(bytes, 1, dataSize - caretPos) ELSE bytes

ClipboardPaste(bytes) ==
  /\ mutable
  /\ data' = Put(data, caretPos, Pasted(bytes))
  /\ UNCHANGED <<vars, keyDown>>
  /\ Updated
  /\ FocusAnywhere
  /\ Change

FillWithZeros ==
  /\ mutable
  /\ HasSelection
  /\ data' = [i \in 1..dataSize |-> IF i - 1 \in Covered(sel) THEN 0 ELSE data[i]]
  /\ UNCHANGED <<vars, keyDown>>
  /\ Updated
  /\ FocusAnywhere
  /\ Change

-----------------------------------------------------------------------------
(* The data interpreter                                                    *)

OpenInterp ==
  /\ IsDataSet
  /\ interp' = UpdateData([interp EXCEPT !.visible = TRUE], data, caretPos, mutable)
  /\ behind' = FALSE
  /\ FocusAnywhere
  /\ UNCHANGED <<vars, data, keyDown>>
  /\ NoChange

CloseInterp ==
  /\ interp.visible
  /\ interp' = [interp EXCEPT !.visible = FALSE]
  /\ FocusOnHex
  /\ UNCHANGED <<vars, data, keyDown, behind>>
  /\ NoChange

\* The user comes back to the dialog.
OnActivate ==
  /\ interp.visible
  /\ IsDataSet
  /\ UNCHANGED <<vars, data, keyDown, editing>>
  /\ Updated
  /\ NoChange

\* The boxes update without asking whether there is data; the model asks.
OnCheckBigEndian ==
  /\ interp.visible
  /\ IsDataSet
  /\ interp' = UpdateData([interp EXCEPT !.bigEndian = ~@], data, caretPos, mutable)
  /\ behind' = FALSE
  /\ FocusOnHex
  /\ UNCHANGED <<vars, data, keyDown>>
  /\ NoChange

\* Selecting a row gives the binary row its size, and shows it as the bytes
\* are, big-endian or not.
OnNotifyListItemChanged(row) ==
  LET size == RowSize[row]
      fits == interp.offset + size <= dataSize /\ size # 16
  IN  /\ interp.visible
      /\ row # "BINARY"
      /\ interp' = [interp EXCEPT
           !.binSize = size,
           !.rows["BINARY"] = IF fits THEN <<Number(At(data, interp.offset, size))>> ELSE NoText,
           !.allowed = IF fits THEN @ \cup {"BINARY"} ELSE @ \ {"BINARY"}]
      /\ FocusOnHex
      /\ UNCHANGED <<vars, data, keyDown, behind>>
      /\ NoChange

OnNotifyListEditBegin(row) ==
  /\ interp.visible
  /\ editing = "none"
  /\ row \in interp.allowed
  /\ editing' = row
  /\ UNCHANGED <<vars, data, keyDown, interp, behind>>
  /\ NoChange

\* Enter in the edit box.  SetIHexTData leaves out what would not fit.
OnNotifyListSetData(text) ==
  LET size  == IF editing = "BINARY" THEN interp.binSize ELSE RowSize[editing]
      there == At(data, interp.offset, size)
      bytes == IF editing = "BINARY"
               THEN IF size = 16 THEN <<>> ELSE Ordered(BytesOf(text[1], size), interp.bigEndian)
               ELSE SetValue(editing, text, there, interp.bigEndian)
      fits  == interp.offset + Len(bytes) <= dataSize
      new   == IF fits THEN Put(data, interp.offset, bytes) ELSE data
  IN  /\ editing # "none"
      /\ IsDataSet
      /\ mutable
      /\ editing = "GUIDTIME" => interp.offset + 16 <= dataSize
      /\ data' = new
      /\ interp' = UpdateData(interp, new, caretPos, mutable)
      /\ behind' = FALSE
      /\ editing' = "none"
      /\ UNCHANGED <<vars, keyDown>>
      /\ changes < MaxChanges
      /\ changes' = changes + 1
      /\ typed' = NothingTyped
      /\ entry' = IF bytes = <<>> \/ ~fits THEN NoEntry
                  ELSE [row |-> editing, text |-> text, offset |-> interp.offset,
                        size |-> Len(bytes)]

-----------------------------------------------------------------------------
(* The specification                                                       *)

TextsOf(row) == IF row = "none" THEN {} ELSE Texts[row]

EditInit ==
  /\ Init
  /\ data = <<>>
  /\ keyDown = FALSE
  /\ interp = [visible |-> FALSE, offset |-> 0, rows |-> [row \in Rows |-> NoText],
               allowed |-> Rows, bigEndian |-> FALSE, binSize |-> 1]
  /\ editing = "none"
  /\ behind = FALSE
  /\ typed = NothingTyped
  /\ entry = NoEntry
  /\ changes = 0

ContentsNext ==
  \/ \E bytes \in Contents, m \in BOOLEAN : SetContents(bytes, m) \/ AdjustContents(bytes, m)
  \/ ClearContents
  \/ \E m \in BOOLEAN : Protect(m)

UserNext ==
  \/ \E r \in BOOLEAN : CaretCommand(r) \/ SelectCommand(r)
  \/ HoldKey \/ OnKeyUp \/ OtherSelection
  \/ \E hit \in Hits, shift \in BOOLEAN, alt \in BOOLEAN :
       Click(hit, shift, alt) \/ DoubleClick(hit, shift, alt)
  \/ \E hit \in Hits : Drag(hit)

ModifyNext ==
  \/ \E half \in 0..HalfValues - 1, r \in BOOLEAN : OnKeyDown(half, r)
  \/ \E byte \in 0..ByteValues - 1, r \in BOOLEAN : OnChar(byte, r)
  \/ \E bytes \in Clips : ClipboardPaste(bytes)
  \/ FillWithZeros

InterpNext ==
  \/ OpenInterp \/ CloseInterp \/ OnActivate \/ OnCheckBigEndian
  \/ \E row \in Rows : OnNotifyListItemChanged(row) \/ OnNotifyListEditBegin(row)
  \/ \E text \in TextsOf(editing) : OnNotifyListSetData(text)

EditNext ==
  \/ ContentsNext \/ UserNext \/ ModifyNext \/ InterpNext
  \/ \E offset \in 0..MaxSize, high \in BOOLEAN : ClientCaret(offset, high)

EditSpec == EditInit /\ [][EditNext]_<<vars, editVars>>

\* Without HexNav's three gestures that can select bytes past the data's end.
FittingEditSpec == EditInit /\ [][EditNext /\ [FittingNext]_vars]_<<vars, editVars>>

-----------------------------------------------------------------------------
(* Properties                                                              *)

\* Rows that hold exactly their bytes: what they show, entered again, is what
\* is there, in either byte order.
Exact == Numbers \cup {"GUID"}

\* Of the others a text tells less than the bytes: entered again it gives the
\* text, if it is accepted.  Java times before 1970 are shown as after it, and
\* the two MS times are shown swapped and written as they are.
Rounding(bigEndian) ==
  {"TIME32T", "TIME64T", "FILETIME", "SYSTEMTIME", "GUIDTIME"}
    \cup (IF bigEndian THEN {} ELSE {"MSDOSTIME", "MSDTTMTIME"})

\* The text of row tells of the bytes at offset, or that they are no date.
Tells(dlg, row, dat, offset) ==
  LET bytes == At(dat, offset, SizeOf(dlg, row))
      again == SetValue(row, dlg.rows[row], bytes, dlg.bigEndian)
  IN  IF row \in Exact THEN again = bytes
      ELSE dlg.rows[row] = NA \/ again = <<>>
             \/ ShowValue(row, again \o SubSeq(bytes, Len(again) + 1, Len(bytes)),
                          dlg.bigEndian) = dlg.rows[row]

\* Whatever is typed, pasted, filled or entered and however the caret is moved
\* by keys, clicks and calls, an open interpreter is about the bytes that are
\* there: every row that fits tells of its bytes, exactly those can be edited,
\* and the rows that do not fit are empty.  While a key is held the rows may
\* be about an earlier place of the caret, never about earlier data.
\* SetData, ClearData, SetMutable, a drag and a double click tell it nothing,
\* until the next update (behind).
RowsShowData ==
  (interp.visible /\ ~behind) =>
    /\ keyDown \/ interp.offset = caretPos
    /\ \A row \in Rows \ {"BINARY"} :
         IF interp.offset + RowSize[row] > dataSize
         THEN interp.rows[row] = NoText /\ row \notin interp.allowed
         ELSE /\ row \in interp.allowed <=> mutable
              /\ row \in Exact \cup Rounding(interp.bigEndian)
                   => Tells(interp, row, data, interp.offset)
    /\ (~interp.bigEndian /\ interp.rows["BINARY"] # NoText)
         => BytesOf(interp.rows["BINARY"][1], interp.binSize)
              = At(data, interp.offset, interp.binSize)

\* Keys typed one after the other stand one after the other from the place
\* the first was typed at, byte by byte in the text area and half by half in
\* the hex area, each half leaving the other alone; at the data's end they
\* overwrite its last byte, or the lower half of it.  Held or not, whatever
\* the interpreter does meanwhile.
LastPlace == IF textArea THEN dataSize - 1 ELSE 2 * dataSize - 1

StandsAt(place) ==
  IF textArea THEN data[place + 1]
  ELSE LET byte == data[place \div 2 + 1]
       IN  IF place % 2 = 0 THEN byte \div HalfValues ELSE byte % HalfValues

TypedDigitsStand ==
  LET n == Len(typed.keys)
      place(k) == Least(typed.from + k - 1, LastPlace)
  IN  n > 0 =>
        /\ \A k \in 1..n : place(k) # place(n) => StandsAt(place(k)) = typed.keys[k]
        /\ StandsAt(place(n)) = typed.keys[n]
        /\ Place = Least(place(n) + 1, LastPlace)

\* What a user enters in a row is then shown by the row, to the precision the
\* row has, and only bytes of the row have changed.  What is entered as a
\* SYSTEMTIME need not be a date.
Shown(row, text, shown) ==
  CASE row \in {"TIME32T", "TIME64T"} ->
         shown # NA /\ shown[1] \div (TicksPerSec \div TicksPerMS)
                         = text[1] \div (TicksPerSec \div TicksPerMS)
    [] row = "MSDOSTIME" ->
         shown # NA /\ text[1] - shown[1] \in 0..DosStep \div TicksPerMS - 1
    [] OTHER -> shown = text

EnteredIsShown ==
  [][ LET e == entry'
      IN  /\ e.row # "none" =>
               \A i \in 1..dataSize : i \notin e.offset + 1..e.offset + e.size => data'[i] = data[i]
          /\ (/\ e.row \in {"BINARY"} \cup Exact \cup Rounding(interp.bigEndian)
              /\ e.row = "SYSTEMTIME" => e.text[2] \in 1..12
              /\ ~behind
              /\ e.offset = caretPos
              /\ e.offset + SizeOf(interp, e.row) <= dataSize) => Shown(e.row, e.text, interp'.rows[e.row])
    ]_<<vars, editVars>>

=============================================================================
