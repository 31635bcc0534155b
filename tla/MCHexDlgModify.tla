--------------------------- MODULE MCHexDlgModify ----------------------------
\* A small instance of HexDlgModify: bytes of two bits, 41 of them, which is a
\* vector of 256 bits, or two of 128, and a remainder.
EXTENDS HexDlgModify

MCFresh == [i \in 1..41 |-> ((i * i) + (i \div 3) + (i \div 8)) % 4]

OneSpan == << <<5, 36>> >>
Block == << <<1, 5>>, <<11, 5>>, <<21, 5>> >>
MCSelections == {<<>>, OneSpan, Block}

MCOperands == {0, 1, 3, 5, -2, 100}

MCTexts == {<<>>, <<2>>, <<1, 3>>, <<1, 2, 3>>}
\* Two characters are a byte; the last text is no hex.
MCHexOf(text) == CASE Len(text) = 1 -> text [] Len(text) = 2 -> <<3>> [] OTHER -> <<>>

=============================================================================
