---------------------------- MODULE HexSearchText ----------------------------
(***************************************************************************)
(* What the search dialog makes of the texts it is given: the functions    *)
(* Prepare* of CHexDlgSearch.cpp, which fill the bytes to search for and   *)
(* to replace them by, and how a text is compared.  A text is a sequence   *)
(* of hex digits and wildcards in "Hex Bytes" mode, of characters in       *)
(* "Text" mode, and else a number, or a date and time as in HexRows; a     *)
(* sequence that is none of these is refused.                              *)
(***************************************************************************)
EXTENDS HexScan, HexRows
LOCAL INSTANCE SequencesExt

CONSTANTS
  Ansi,  \* the system's code page: from characters to their bytes
  Utf8   \* UTF-8

\* The search types of a mode; the first one is chosen with the mode.
TypesOf ==
  [MODE_HEXBYTES |-> <<"HEXBYTES">>,
   MODE_TEXT |-> <<"TEXT_ASCII", "TEXT_UTF8", "TEXT_UTF16">>,
   MODE_NUMBERS |-> <<"NUM_INT8", "NUM_UINT8", "NUM_INT16", "NUM_UINT16", "NUM_INT32",
                      "NUM_UINT32", "NUM_INT64", "NUM_UINT64", "NUM_FLOAT", "NUM_DOUBLE">>,
   MODE_STRUCT |-> <<"STRUCT_FILETIME">>]
Modes == DOMAIN TypesOf
ModeOf(type) == CHOOSE mode \in Modes : type \in ToSet(TypesOf[mode])
Types == UNION {ToSet(TypesOf[mode]) : mode \in Modes}

NumberSize ==
  [NUM_INT8 |-> 1, NUM_UINT8 |-> 1, NUM_INT16 |-> 2, NUM_UINT16 |-> 2, NUM_INT32 |-> 4,
   NUM_UINT32 |-> 4, NUM_FLOAT |-> 4, NUM_INT64 |-> 8, NUM_UINT64 |-> 8, NUM_DOUBLE |-> 8]

\* The check box "Wildcard" is disabled for the other types.
IsWildcard(d, box) == box.wildcard /\ d.type \in {"HEXBYTES", "TEXT_ASCII", "TEXT_UTF16"}

\* The template arguments of the search function of a type.
GetSearchFuncBack(d, box) ==
  [vector |-> FALSE,
   width |-> IF d.type = "TEXT_UTF16" THEN 2 ELSE 1,
   wild  |-> IsWildcard(d, box),
   lower |-> ~box.matchCase /\ d.type \in {"TEXT_ASCII", "TEXT_UTF16"}]

\* Forward the same, unless the data has the size of one of the three vector
\* functions, which compare all of it at once, as it is.
GetSearchFuncFwd(d, box) ==
  IF box.step = 1 /\ ~IsWildcard(d, box) /\ Len(d.find) \in {1, 2, 4}
  THEN [vector |-> TRUE, width |-> Len(d.find), wild |-> FALSE, lower |-> FALSE]
  ELSE GetSearchFuncBack(d, box)

-----------------------------------------------------------------------------
(* Conversions                                                             *)

Digits == 0..HalfValues - 1

\* Two digits make a byte, and so does the last one alone.  A wildcard behind the
\* first digit of a byte ends the number that is read.  Refused: <<>>.
HexByte(digits) ==
  IF digits[Len(digits)] \in Digits /\ Len(digits) = 2
  THEN digits[1] * HalfValues + digits[2]
  ELSE digits[1]

NumStrToHex(text, wild) ==
  LET skips(i) == wild /\ text[i] = Wildcard
      from[i \in 1..Len(text) + 2] ==
        IF i > Len(text) THEN <<>>
        ELSE IF skips(i) THEN <<Wildcard>> \o from[i + 1]
        ELSE <<HexByte(SubSeq(text, i, Least(i + 1, Len(text))))>> \o from[i + 2]
  IN  IF \A i \in 1..Len(text) : text[i] \in Digits \/ skips(i) THEN from[1] ELSE <<>>

WstrToStr(text, codePage) == FlattenSeq([i \in 1..Len(text) |-> codePage[text[i]]])

ByteLowered(byte) == Lowered(<<byte>>)[1]
AllLowered(text) == [i \in 1..Len(text) |-> ByteLowered(text[i])]

\* UTF-16 in memory.
WideBytes(text) == FlattenSeq([i \in 1..Len(text) |-> BytesOf(text[i], 2)])

IsNumber(text, size) == Len(text) = 1 /\ text[1] < Values(size)   \* StrToNum<T>
IsTime(text) == Len(text) = 1 /\ text[1] <= LastStamp              \* StringToFileTime

\* Each half of a FILETIME is swapped by itself.
FileTimeBytes(text, bigEndian) ==
  LET bytes == BytesOf(Ticks(text), 8)
  IN  Ordered(SubSeq(bytes, 1, 4), bigEndian) \o Ordered(SubSeq(bytes, 5, 8), bigEndian)

-----------------------------------------------------------------------------
(* The Prepare* functions: whether they succeed, and the members after.    *)

Refused(d) == [ok |-> FALSE, dlg |-> d]
Ready(d, find, repl) == [ok |-> TRUE, dlg |-> [d EXCEPT !.find = find, !.repl = repl]]

\* The replacement is converted when it is used, and kept if not.
PrepareHexBytes(d, box) ==
  LET find == NumStrToHex(d.wstrSearch, IsWildcard(d, box))
      repl == IF d.replace THEN NumStrToHex(d.wstrReplace, FALSE) ELSE d.repl
  IN  IF find = <<>> THEN Refused(d)
      ELSE IF d.replace /\ repl = <<>> THEN Refused([d EXCEPT !.find = find])
      ELSE Ready(d, find, repl)

PrepareTextASCII(d, box) ==
  LET find == WstrToStr(d.wstrSearch, Ansi)
  IN  Ready(d, IF box.matchCase THEN find ELSE AllLowered(find), WstrToStr(d.wstrReplace, Ansi))

PrepareTextUTF16(d, box) ==
  Ready(d, WideBytes(IF box.matchCase THEN d.wstrSearch ELSE AllLowered(d.wstrSearch)),
        WideBytes(d.wstrReplace))

PrepareTextUTF8(d, box) ==
  Ready(d, WstrToStr(d.wstrSearch, Utf8), WstrToStr(d.wstrReplace, Utf8))

\* A number to replace by is 0 unless it is used.
Replacement(d) == IF d.replace THEN d.wstrReplace ELSE <<0>>

\* Mutant: the number is written in the order of the machine.
PrepareUnswapped(d, box) ==
  LET size == NumberSize[d.type]
      repl == Replacement(d)
  IN  IF ~IsNumber(d.wstrSearch, size) \/ ~IsNumber(repl, size) THEN Refused(d)
      ELSE Ready(d, Ordered(BytesOf(d.wstrSearch[1], size), box.bigEndian),
                 BytesOf(repl[1], size))

PrepareNumber(d, box) ==
  LET size == NumberSize[d.type]
      repl == Replacement(d)
  IN  IF ~IsNumber(d.wstrSearch, size) \/ ~IsNumber(repl, size) THEN Refused(d)
      ELSE Ready(d, Ordered(BytesOf(d.wstrSearch[1], size), box.bigEndian),
                 Ordered(BytesOf(repl[1], size), box.bigEndian))

PrepareFILETIME(d, box) ==
  IF ~IsTime(d.wstrSearch) \/ ~IsTime(Replacement(d)) THEN Refused(d)
  ELSE Ready(d, FileTimeBytes(d.wstrSearch, box.bigEndian),
             FileTimeBytes(Replacement(d), box.bigEndian))

\* Prepare's switch.
PrepareText(d, box) ==
  CASE d.type = "HEXBYTES" -> PrepareHexBytes(d, box)
    [] d.type = "TEXT_ASCII" -> PrepareTextASCII(d, box)
    [] d.type = "TEXT_UTF8" -> PrepareTextUTF8(d, box)
    [] d.type = "TEXT_UTF16" -> PrepareTextUTF16(d, box)
    [] d.type \in DOMAIN NumberSize -> PrepareNumber(d, box)
    [] d.type = "STRUCT_FILETIME" -> PrepareFILETIME(d, box)

=============================================================================
