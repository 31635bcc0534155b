--------------------------- MODULE HexTemplValues ---------------------------
(***************************************************************************)
(* The column "Data" of the template manager's list: the bytes of a field  *)
(* of the applied template as text, and what a user enters there as bytes  *)
(* (OnNotifyListGetDispInfo, OnNotifyListSetData and the ShowListData* and *)
(* SetData* functions of CHexDlgTemplMgr.cpp).  The list asks for a text   *)
(* whenever it draws, so what it shows is a function of the state.  A      *)
(* boolean's texts are <<0>> and <<1>>; the other texts are HexRows'.      *)
(* A client that empties the list while an edit box is open is left out.   *)
(***************************************************************************)
EXTENDS HexTempl, HexRows

CONSTANTS
  Contents,   \* bound: the data a client sets
  Texts,      \* bound: what a user enters, for each type
  MaxEntries  \* bound: entries made

VARIABLES
  bytes,      \* the control's data; dataSize is their number
  mutable,    \* IsMutable()
  showHex,    \* the box "Hex numbers"
  swapEndian, \* the box "Swap endian"
  entry,      \* history: the entry this step made
  entries     \* history: the number of entries

valueVars == <<bytes, mutable, showHex, swapEndian, entry, entries>>

NoEntry == [row |-> 0]

RowField(row) == FieldsOf(fieldsCurr)[row]
RowOffset(row) == GetApplied(current).offset + RowField(row).offset

\* fShouldSwap.
ShouldSwap(f) == f.big = ~swapEndian

IsSimpleSize(size) == size \in {1, 2, 4, 8}

\* The rows that show seconds.
IsDate(f) == f.type \in {"time32_t", "time64_t"} /\ ~showHex

-----------------------------------------------------------------------------
(* What the list shows of the bytes there                                  *)

ShowListDataBool(there) == IF showHex \/ there[1] = 0 THEN there ELSE <<1>>
ShowListDataNUMBER(there, swap) == <<Number(Ordered(there, swap))>>
ShowListDataTime32(there, swap) ==
  IF showHex THEN ShowListDataNUMBER(there, swap) ELSE SecondsText(Number(Ordered(there, swap)), 4)
ShowListDataTime64(there, swap) ==
  IF showHex THEN ShowListDataNUMBER(there, swap) ELSE SecondsText(Number(Ordered(there, swap)), 8)
ShowListDataFILETIME(there, swap) ==
  IF showHex THEN ShowListDataNUMBER(there, swap) ELSE StampText(Number(Ordered(there, swap)))
ShowListDataSYSTEMTIME(there, swap) == SystemText(there, swap)
ShowListDataGUID(there, swap) == GuidText(there, swap)
ShowListDataSized(there, swap) ==
  IF IsSimpleSize(Len(there)) THEN ShowListDataNUMBER(there, swap) ELSE NoText

ShowListData(f, there) ==
  CASE f.type = "custom_size" -> ShowListDataSized(there, ShouldSwap(f))
    [] f.type = "bool" -> ShowListDataBool(there)
    [] f.type = "time32_t" -> ShowListDataTime32(there, ShouldSwap(f))
    [] f.type = "time64_t" -> ShowListDataTime64(there, ShouldSwap(f))
    [] f.type = "FILETIME" -> ShowListDataFILETIME(there, ShouldSwap(f))
    [] f.type = "SYSTEMTIME" -> ShowListDataSYSTEMTIME(there, ShouldSwap(f))
    [] f.type = "GUID" -> ShowListDataGUID(there, ShouldSwap(f))
    [] OTHER -> ShowListDataNUMBER(there, ShouldSwap(f))

\* Nothing is shown of a template that is not wholly in the data.
HasText(row) ==
  /\ IsDataSet
  /\ GetApplied(current).offset + GetTemplate(Head(fieldsCurr)).size <= dataSize
  /\ RowField(row).nested = <<>>

ShownText(row) ==
  IF ~HasText(row) THEN NoText
  ELSE ShowListData(RowField(row),
                    SubSeq(bytes, RowOffset(row) + 1, RowOffset(row) + RowField(row).size))

-----------------------------------------------------------------------------
(* What an entry writes: <<>> if the text is no value of the type          *)

\* stn::StrToNum.
NumberBytes(text, size) ==
  IF text = NoText \/ text[1] >= Values(size) THEN <<>> ELSE BytesOf(text[1], size)

SetDataBool(text) ==
  IF showHex THEN NumberBytes(text, 1) ELSE IF text \in {<<0>>, <<1>>} THEN text ELSE <<>>

\* Mutant: what is entered under "Swap endian" is written as it is.
SwapForgotten(text, size, swap) == NumberBytes(text, size)

SetDataNUMBER(text, size, swap) == Ordered(NumberBytes(text, size), swap)

SetDataTime32(text, swap) ==
  IF showHex \/ text = NoText THEN SetDataNUMBER(text, 4, swap)
  ELSE Ordered(SecondsBytes(text, 4), swap)
SetDataTime64(text, swap) ==
  IF showHex \/ text = NoText THEN SetDataNUMBER(text, 8, swap)
  ELSE Ordered(SecondsBytes(text, 8), swap)
SetDataFILETIME(text, swap) ==
  IF showHex \/ text = NoText THEN SetDataNUMBER(text, 8, swap)
  ELSE Ordered(BytesOf(Ticks(text), 8), swap)
SetDataSYSTEMTIME(text, swap) == IF text = NoText THEN <<>> ELSE SystemBytes(text, swap)
SetDataGUID(text, swap) == IF text = NoText THEN <<>> ELSE GuidBytes(text, swap)

\* A custom size is written in little endian, whatever the list shows.
FieldBytes(f, text) ==
  CASE f.type = "custom_size" -> NumberBytes(text, f.size)
    [] f.type = "bool" -> SetDataBool(text)
    [] f.type = "time32_t" -> SetDataTime32(text, ShouldSwap(f))
    [] f.type = "time64_t" -> SetDataTime64(text, ShouldSwap(f))
    [] f.type = "FILETIME" -> SetDataFILETIME(text, ShouldSwap(f))
    [] f.type = "SYSTEMTIME" -> SetDataSYSTEMTIME(text, ShouldSwap(f))
    [] f.type = "GUID" -> SetDataGUID(text, ShouldSwap(f))
    [] OTHER -> SetDataNUMBER(text, f.size, ShouldSwap(f))

\* "Incorrect input data.": not for a custom size, and always for a date
\* entered as a FILETIME, which is written all the same.
IsRefused(f, text) ==
  /\ f.type # "custom_size"
  /\ FieldBytes(f, text) = <<>> \/ (f.type = "FILETIME" /\ ~showHex)

-----------------------------------------------------------------------------
(* Actions                                                                 *)

\* OnNotifyListEditBegin.
IsEditable(f) == f.nested = <<>> /\ (f.type = "custom_size" => IsSimpleSize(f.size))

\* Data that is not mutable, or too short for the field, stays as it is.
OnNotifyListSetData(row, text) ==
  LET f == RowField(row)
      new == FieldBytes(f, text)
      at == RowOffset(row)
  IN  /\ dialog /\ row \in 1..rows
      /\ IsEditable(f)
      /\ IsDataSet
      /\ bytes' = IF ~mutable \/ at + Len(new) > dataSize THEN bytes
                  ELSE [i \in 1..dataSize |->
                          IF i \in at + 1..at + Len(new) THEN new[i - at] ELSE bytes[i]]
      /\ entries < MaxEntries /\ entries' = entries + 1
      /\ entry' = [row |-> row, text |-> text, refused |-> IsRefused(f, text)]
      /\ UNCHANGED <<templVars, mutable, showHex, swapEndian>>

OnCheckHex ==
  /\ dialog
  /\ showHex' = ~showHex
  /\ staticText' = StaticText(current)
  /\ entry' = NoEntry
  /\ UNCHANGED <<templates, applied, dialog, comboVars, treeVars, current, fieldsCurr, parent,
                 rows, rowSel, controlVars, bytes, mutable, swapEndian, entries>>

OnCheckSwapEndian ==
  /\ dialog
  /\ swapEndian' = ~swapEndian
  /\ entry' = NoEntry
  /\ UNCHANGED <<templVars, bytes, mutable, showHex, entries>>

SetContents(content, fMutable) ==
  /\ SetData(Len(content))
  /\ bytes' = content
  /\ mutable' = fMutable
  /\ entry' = NoEntry
  /\ UNCHANGED <<showHex, swapEndian, entries>>

\* Any other step of the manager.
ManagerStep ==
  /\ Next
  /\ UNCHANGED <<dataSize, bytes, mutable, showHex, swapEndian, entries>>
  /\ entry' = NoEntry

ValuesInit ==
  /\ Init
  /\ bytes = [i \in 1..dataSize |-> 0]
  /\ mutable = FALSE
  /\ showHex = FALSE /\ swapEndian = FALSE
  /\ entry = NoEntry /\ entries = 0

TextsOf(row) == Texts[RowField(row).type]

ValuesNext ==
  \/ ManagerStep
  \/ \E content \in Contents, m \in BOOLEAN : SetContents(content, m)
  \/ OnCheckHex \/ OnCheckSwapEndian
  \/ \E row \in 1..rows : \E text \in TextsOf(row) : OnNotifyListSetData(row, text)

ValuesSpec == ValuesInit /\ [][ValuesNext]_<<templVars, valueVars>>

-----------------------------------------------------------------------------
(* Properties                                                              *)

\* A list shows seconds of a time, and a text what the type has of it.
Shows(f, text, shown) ==
  IF IsDate(f) THEN /\ shown # NA
                    /\ LET second == TicksPerSec \div TicksPerMS
                       IN  shown[1] \div second = text[1] \div second
  ELSE shown = text

\* A custom size is shown swapped and written as it is, and what is no number
\* of its size is passed over in silence; a SYSTEMTIME entered need not be a date.
IsFaithful(f, text) ==
  /\ f.type = "custom_size" => text[1] < Values(f.size) /\ (~ShouldSwap(f) \/ f.size = 1)
  /\ f.type = "SYSTEMTIME" => text[2] \in 1..12

\* What a user enters in a row is then shown by the row, or has changed
\* nothing; other bytes than those of the row's field have not changed.
EntryStands(e) ==
  LET f == RowField(e.row)
      at == RowOffset(e.row)
  IN  /\ \A i \in 1..dataSize : i \notin at + 1..at + f.size => bytes'[i] = bytes[i]
      /\ ~mutable => bytes' = bytes
      /\ (e.refused /\ f.type # "FILETIME") => bytes' = bytes
      /\ (mutable /\ ~e.refused /\ e.text # NoText /\ HasText(e.row) /\ IsFaithful(f, e.text))
           => Shows(f, e.text, ShownText(e.row)')

\* A row of the list stands for its field, at the place where the template it
\* shows is applied, whichever template, tree node or row was chosen before and
\* whatever else is loaded, applied and gone: the row that becomes selected
\* highlights the field's bytes (OnNotifyTreeItemChanged, TreeItemFromListItem,
\* SetHexSelByField), and what is entered in a row goes to the field's bytes
\* alone, in the order of the field and the box "Swap endian", and is shown by
\* the row from then on (OnNotifyListSetData, OnNotifyListGetDispInfo).
RowsStandForFields ==
  [][ /\ PickedRowsHighlight
      /\ \A e \in {entry'} : e.row # 0 => EntryStands(e)
    ]_<<templVars, valueVars>>

=============================================================================
