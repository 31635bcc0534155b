------------------------------ MODULE HexCopy -------------------------------
(***************************************************************************)
(* What of a selection is put on the clipboard (ClipboardCopy): its bytes  *)
(* one after the other, the formatted copy with rows and spaces, the print *)
(* screen, which looks like the window, and base64.  A text is a sequence  *)
(* of HexShow's cells, in base64 of sequences of six bits.                 *)
(***************************************************************************)
EXTENDS HexShow, FiniteSets

CONSTANT MaxCopied  \* 8 MB: larger selections are not copied

NewLine == [offset |-> -2]
Spaced(n) == [k \in 1..n |-> Gap]

-----------------------------------------------------------------------------
(* The bytes of the selection, by their number (CHexSelection)             *)

SelStart == spans[1].offset
LineLength == spans[1].size
SelSize == Len(spans) * LineLength

\* What GetOffsetByIndex gives for a number no span has; GetIHexTData makes of
\* it some byte that is not of the data.
NoOffset == -3

\* Mutant: the first byte of each span is taken for the last of the one before.
OffsetLate(i) ==
  LET upTo[k \in 0..Len(spans)] == IF k = 0 THEN 0 ELSE upTo[k - 1] + spans[k].size
      k == CHOOSE k \in 1..Len(spans) : i <= upTo[k] /\ \A j \in 1..k - 1 : i > upTo[j]
  IN  IF i < SelSize /\ i < upTo[Len(spans)] THEN spans[k].offset + (i - upTo[k - 1]) ELSE NoOffset

GetOffsetByIndex(i) ==
  LET upTo[k \in 0..Len(spans)] == IF k = 0 THEN 0 ELSE upTo[k - 1] + spans[k].size
      k == CHOOSE k \in 1..Len(spans) : i < upTo[k] /\ \A j \in 1..k - 1 : i >= upTo[j]
  IN  IF i < SelSize /\ i < upTo[Len(spans)] THEN spans[k].offset + (i - upTo[k - 1]) ELSE NoOffset

\* CopyHex, and with other marks around each byte CopyCArr and CopyGrepHex.
CopyHex == [n \in 1..SelSize |-> GetOffsetByIndex(n - 1)]
CopyHexLE == [n \in 1..SelSize |-> GetOffsetByIndex(SelSize - n)]

-----------------------------------------------------------------------------
(* CopyHexFmt                                                              *)

\* A block: each row for itself, its groups counted from its first byte.
BlockText(l) ==
  FlattenSeq([n \in 1..SelSize |->
    LET column == (n - 1) % LineLength
        last   == column = LineLength - 1
    IN  Digits2(GetOffsetByIndex(n - 1))
          \o (IF n < SelSize /\ ~last /\ (column + 1) % l.group = 0 THEN <<Gap>> ELSE <<>>)
          \o (IF n < SelSize /\ last THEN <<NewLine>> ELSE <<>>)])

\* Mutant: the space between the halves is not counted in front.
LeadWithoutHalves(l) ==
  LET start == ColumnOf(l, SelStart)
  IN  IF start + SelSize > l.capacity THEN 2 * start + (start \div l.group) ELSE 0

\* The spaces in front of the first row, if there is a second.
Lead(l) ==
  LET start == ColumnOf(l, SelStart)
  IN  IF start + SelSize > l.capacity
      THEN 2 * start + (start \div l.group)
             + (IF l.group = 1 /\ l.capacity - start <= l.capacity \div 2 THEN 2 ELSE 0)
      ELSE 0

\* Otherwise the rows of one run from the selection's first byte, as the window
\* has them; what is left of a row (dwTail) says where its halves meet.
RowsText(l) ==
  LET nextBlock == (l.capacity \div 2) + (IF l.capacity % 2 = 1 THEN 2 ELSE 1)
  IN  Spaced(Lead(l)) \o
      FlattenSeq([n \in 1..SelSize |->
        LET column == ColumnOf(l, SelStart + n - 1)
            tail   == l.capacity - column
        IN  Digits2(GetOffsetByIndex(n - 1))
              \o (IF n = SelSize THEN <<>>
                  ELSE IF tail = 1 THEN <<NewLine>>
                  ELSE IF l.group = 1 /\ tail = nextBlock THEN Spaced(3)
                  ELSE IF ColumnOf(l, SelStart + n) % l.group = 0 THEN <<Gap>> ELSE <<>>)])

CopyHexFmt(l) == IF selBlock THEN BlockText(l) ELSE RowsText(l)

-----------------------------------------------------------------------------
(* CopyPrintScreen: rows of an offset, bytes and characters                *)

\* Two or more whole rows from the first column on are counted one too many.
ScreenRows(l) ==
  LET start == ColumnOf(l, SelStart)
      rows  == (SelSize \div l.capacity)
                 + (IF start + SelSize > l.capacity THEN 1 ELSE 0)
                 + (IF (SelSize % l.capacity) + start > l.capacity THEN 1 ELSE 0)
  IN  IF rows = 0 THEN 1 ELSE rows

\* The bytes of a row: spaces in front of the first byte (dwModStart is
\* counted down) and behind the last.
ScreenRow(l, row) ==
  LET start == ColumnOf(l, SelStart)
      bytes == [c \in 0..l.capacity - 1 |-> row * l.capacity + c - start]   \* sIndexToPrint
      from  == LineOf(l, SelStart) * l.capacity + start   \* in BuildDataToDraw's lines
      shown(c) == bytes[c] \in 0..SelSize - 1
  IN  [line |-> LineOf(l, SelStart) + row,
       hex  |-> FlattenSeq([n \in 1..l.capacity |->
                  (IF shown(n - 1) THEN Digits2(from + bytes[n - 1]) ELSE Spaced(2))
                    \o (IF n % l.group = 0 /\ n < l.capacity THEN <<Gap>> ELSE <<>>)
                    \o (IF l.group = 1 /\ n = l.capacity \div 2 THEN <<Gap, Gap>> ELSE <<>>)]),
       text |-> [n \in 1..l.capacity |-> IF shown(n - 1) THEN from + bytes[n - 1] ELSE -1]]

\* "Only works with classical selection": the bytes from the first one on.
CopyPrintScreen(l) ==
  IF selBlock THEN <<>> ELSE [row \in 1..ScreenRows(l) |-> ScreenRow(l, row - 1)]

-----------------------------------------------------------------------------
(* CopyBase64.  A bit is <<offset, number of the bit>>.                    *)

Zero == <<>>
Equals == <<"=">>
BitsOf(offset) == [k \in 1..8 |-> <<offset, 8 - k>>]

\* (value >> shift) & 0x3F
SixBits(value, shift) == SubSeq(value, Len(value) - shift - 5, Len(value) - shift)

\* Mutant: the bits left at the end are not moved up.
LeftAsIs(acc) ==
  IF acc.shift > -6 THEN Append(acc.text, SixBits(acc.value, 0)) ELSE acc.text

\* The bits left at the end, with zeros behind them.
WithLeftBits(acc) ==
  IF acc.shift > -6
  THEN Append(acc.text, SixBits(acc.value \o [k \in 1..8 |-> Zero], acc.shift + 8))
  ELSE acc.text

\* With each byte the characters that are complete (uValA and iValB).
CopyBase64 ==
  LET next(acc, offset) ==
        LET value == acc.value \o BitsOf(offset)
            shift == acc.shift + 8
            n     == IF shift < 0 THEN 0 ELSE 1 + (shift \div 6)
        IN  [value |-> value, shift |-> shift - 6 * n,
             text  |-> acc.text \o [k \in 1..n |-> SixBits(value, shift - 6 * (k - 1))]]
      text == WithLeftBits(FoldLeft(next, [value |-> <<>>, shift |-> -6, text |-> <<>>], CopyHex))
  IN  text \o [k \in 1..(4 - (Len(text) % 4)) % 4 |-> Equals]

-----------------------------------------------------------------------------
(* The clipboard                                                           *)

\* What the clipboard has afterwards.  C arrays, grep's and text have the bytes
\* as CopyHex has, with marks around each or as characters of the codepage.
ClipboardCopy(eType, clipboard) ==
  CASE SelSize > MaxCopied     -> clipboard
    [] eType = "hexle"         -> CopyHexLE
    [] eType = "hexfmt"        -> CopyHexFmt(layout)
    [] eType = "base64"        -> CopyBase64
    [] eType = "printscreen"   -> CopyPrintScreen(layout)
    [] OTHER                   -> CopyHex

-----------------------------------------------------------------------------
(* Properties                                                              *)

SelectedBytes == {o \in 0..dataSize - 1 : Selected(o)}

\* The character of a row at which a byte's high digit stands in the window.
ShownColumn(l, o) ==
  (HexChunkX(l, [view EXCEPT !.pos["H"] = 0], o) - FirstHex) \div ExtraWidth

\* The row and the column, from 0, of the k-th character of a text.
NewLines(text, k) == {j \in 1..k - 1 : text[j] = NewLine}
RowIn(text, k) == Cardinality(NewLines(text, k))
ColumnIn(text, k) ==
  IF NewLines(text, k) = {} THEN k - 1
  ELSE k - 1 - (CHOOSE j \in NewLines(text, k) : \A i \in NewLines(text, k) : i <= j)

Places(text, o) == {k \in 1..Len(text) : text[k] = [offset |-> o, high |-> TRUE]}

\* Each byte once, at a row and column, and nothing else.
StandsIn(text, row(_), column(_)) ==
  /\ {text[k].offset : k \in 1..Len(text)} \ {Gap.offset, NewLine.offset} = SelectedBytes
  /\ \A o \in SelectedBytes :
       /\ Cardinality(Places(text, o)) = 1
       /\ \A k \in Places(text, o) :
            /\ text[k + 1] = [offset |-> o, high |-> FALSE]
            /\ RowIn(text, k) = row(o)
            /\ ColumnIn(text, k) = column(o)

\* A formatted copy of a run has its bytes in the rows and columns they have in
\* the window, except that one row begins with its first byte.
RunAsShown(text, l) ==
  LET start  == SelStart
      indent == IF LineOf(l, start) = LineOf(l, start + SelSize - 1) THEN ShownColumn(l, start) ELSE 0
  IN  StandsIn(text, LAMBDA o : LineOf(l, o) - LineOf(l, start),
               LAMBDA o : ShownColumn(l, o) - indent)

\* One of a block has a row for each span, its groups counted from the span's
\* first byte.
BlockAsShown(text, l) ==
  LET spanOf(o) == CHOOSE k \in 1..Len(spans) : o \in spans[k].offset..spans[k].offset + LineLength - 1
      inSpan(o) == o - spans[spanOf(o)].offset
  IN  StandsIn(text, LAMBDA o : spanOf(o) - 1,
               LAMBDA o : 2 * inSpan(o) + (inSpan(o) \div l.group))

\* A print screen has each byte in the row of its offset, in its column of
\* the window, and its character in the text column; rows that are one too
\* many are empty.
ScreenAsShown(rows, l) ==
  /\ \A o \in SelectedBytes :
       \E n \in 1..Len(rows) :
         /\ rows[n].line = LineOf(l, o)
         /\ rows[n].hex[ShownColumn(l, o) + 1] = [offset |-> o, high |-> TRUE]
         /\ rows[n].text[ColumnOf(l, o) + 1] = o
  /\ \A n \in 1..Len(rows) :
       {rows[n].hex[k].offset : k \in 1..Len(rows[n].hex)} \ {Gap.offset}
         = {o \in SelectedBytes : LineOf(l, o) = rows[n].line}

\* Base64 has the bits of the bytes in their order, six in a character, zeros
\* behind the last and characters = up to a multiple of four.
Base64Exact(text, bytes) ==
  LET bit(j) == IF j < 8 * Len(bytes) THEN BitsOf(bytes[1 + (j \div 8)])[1 + (j % 8)] ELSE Zero
  IN  /\ Len(text) = 4 * ((Len(bytes) + 2) \div 3)
      /\ \A k \in 1..Len(text) :
           text[k] = IF 6 * (k - 1) >= 8 * Len(bytes) THEN Equals
                     ELSE [i \in 1..6 |-> bit(6 * (k - 1) + i - 1)]

\* The selection's bytes, span after span.
InOrder == FlattenSeq([k \in 1..Len(spans) |->
             [n \in 1..spans[k].size |-> spans[k].offset + n - 1]])

\* Spans as an Alt drag makes them, of one size and apart, and spans that are
\* one run.
Even == \A k \in 1..Len(spans) : spans[k].size = LineLength
Rows == Even /\ Cardinality(SelectedBytes) = SelSize
OneRun == Even /\ \A k \in 2..Len(spans) : spans[k].offset = spans[k - 1].offset + LineLength

\* The digits of a text, in its order.
DigitsIn(text) == SelectSeq(text, LAMBDA c : c \notin {Gap, NewLine})

\* Whatever is selected in whatever layout, a copy has the bytes of the spans
\* in their order, as many as the first span's size times the number of spans
\* and none of the data where there are fewer: all of them if the spans are of
\* one size.  A copy with rows shows them as the window does if they are one
\* run, and span by span if they are a block of spans apart.  A selection too
\* large leaves the clipboard as it was.
CopiedAsShown ==
  spans # <<>> =>
    LET copy(eType) == ClipboardCopy(eType, <<"before">>)
        bytes == copy("hex")
        text  == copy("hexfmt")
    IN  IF SelSize > MaxCopied THEN bytes = <<"before">>
        ELSE /\ bytes = [n \in 1..SelSize |-> IF n <= Len(InOrder) THEN InOrder[n] ELSE NoOffset]
             /\ Even => ToSet(bytes) = SelectedBytes
             /\ copy("hexle") = Reverse(bytes)
             /\ Base64Exact(copy("base64"), bytes)
             /\ DigitsIn(text) = FlattenSeq([n \in 1..SelSize |-> Digits2(bytes[n])])
             /\ IF selBlock
                THEN /\ Rows => BlockAsShown(text, layout)
                     /\ copy("printscreen") = <<>>
                ELSE OneRun => /\ RunAsShown(text, layout)
                               /\ ScreenAsShown(copy("printscreen"), layout)

=============================================================================
