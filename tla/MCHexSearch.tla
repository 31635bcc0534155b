---------------------------- MODULE MCHexSearch ----------------------------
(* Three parts: searches for hex bytes in data of up to four bytes of two      *)
(* values, with everything that changes data, list and selection in between;   *)
(* searches from every offset of longer data for one, two and four bytes, which *)
(* compare by vectors of eight bytes, virtual data had twelve at a time; and    *)
(* searches for texts, numbers and times in data of nine values.               *)
EXTENDS HexSearch

CONSTANT None

VARIABLE part

\* Virtual data of four bytes with matches that are adjacent or scattered, and
\* short data.
Ones(n, ones) == [o \in 0..n - 1 |-> IF o \in ones THEN 1 ELSE 0]
HexDatas == {<<Ones(4, {0, 1, 3}), TRUE>>, <<Ones(2, {0, 1}), FALSE>>}

Bytes(s) == [o \in 0..Len(s) - 1 |-> s[o + 1]]

\* Zeros and ones mixed, and few zeros among the ones, over the seams of vectors
\* and of chunks.
VectorDatas == {<<Bytes(<<0, 1, 0, 0, 1, 0, 0, 0, 1, 1, 0, 0, 0, 0, 1, 0, 0>>), FALSE>>,
                <<Ones(18, 0..17 \ {12, 16}), TRUE>>}
TextDatas == {<<Bytes(<<1, 0, 2, 0, 1, 2, 1, 8, 5>>), FALSE>>,
              <<Bytes(<<2, 6, 0, 0, 0, 0, 0, 0, 0, 6, 0, 0, 0, 0>>), FALSE>>}
AllDatas == HexDatas \cup VectorDatas \cup TextDatas

Box == [type |-> "HEXBYTES", text |-> <<1>>, repl |-> <<0, 0, 0, 1>>, step |-> 1, limit |-> 2,
        range |-> <<None, None>>, selMode |-> FALSE, inverted |-> FALSE, wrong |-> "nothing",
        overwrite |-> TRUE, bigEndian |-> FALSE, matchCase |-> FALSE, wildcard |-> FALSE]

Unreadable == <<3>>   \* no hex digit

HexBoxes == {[Box EXCEPT !.text = <<0, 1, 0, 0>>],
             [Box EXCEPT !.text = <<0, 1, 3>>, !.wildcard = TRUE, !.inverted = TRUE,
                         !.range = <<1, None>>],
             [Box EXCEPT !.step = 2, !.range = <<0, 3>>],
             [Box EXCEPT !.selMode = TRUE],
             [Box EXCEPT !.text = Unreadable]}

\* One, two and four bytes: zeros, other than ones, and mixed.
Zeros == {<<0, 0>>, <<0, 0, 0, 0>>, <<0, 0, 0, 0, 0, 0, 0, 0>>}
OnesToo == {<<0, 1>>, <<0, 1, 0, 1>>, <<0, 1, 0, 1, 0, 1, 0, 1>>}
VectorBoxes ==
  {[Box EXCEPT !.text = text, !.inverted = text \in OnesToo, !.limit = 1] :
     text \in Zeros \cup OnesToo \cup {<<0, 1, 0, 1, 0, 1, 0, 0>>}}

Of(type, text, repl) == [Box EXCEPT !.type = type, !.text = text, !.repl = repl, !.limit = 1]
TextBoxes == {Of("TEXT_ASCII", <<1, 2, 1>>, <<2>>),
              [Of("TEXT_ASCII", <<1, 3>>, <<5>>) EXCEPT !.wildcard = TRUE],
              [Of("TEXT_ASCII", <<1, 2>>, <<>>) EXCEPT !.matchCase = TRUE],
              [Of("TEXT_UTF16", <<1>>, <<9>>) EXCEPT !.step = 2],
              [Of("TEXT_UTF8", <<5>>, <<2>>) EXCEPT !.wrong = "other"],
              Of("TEXT_UTF8", <<5>>, <<2>>)}
NumberBoxes == {Of("NUM_INT8", <<2>>, <<9>>), Of("NUM_INT16", <<2>>, <<10>>),
                [Of("NUM_INT16", <<11>>, <<1>>) EXCEPT !.bigEndian = TRUE],
                [Of("NUM_DOUBLE", <<6>>, <<54>>) EXCEPT !.bigEndian = TRUE]}
TimeBoxes == {Of("STRUCT_FILETIME", <<3>>, <<9>>),
              [Of("STRUCT_FILETIME", <<3>>, <<4>>) EXCEPT !.bigEndian = TRUE]}
AllBoxes == HexBoxes \cup VectorBoxes \cup TextBoxes \cup NumberBoxes \cup TimeBoxes

AllEntries == {None, 2}
AllEdits == {<<2, 1>>}
AllSpans == {<<1, 3>>, None}

Chars == 0..54
MCAnsi == [c \in Chars |-> IF c > 8 THEN <<Wildcard>> ELSE <<c>>]
MCUtf8 == [c \in Chars |-> IF c < 4 THEN <<c>> ELSE <<8, c % 9>>]

MCInit ==
  /\ Init
  /\ part \in {"hex", "vectors", "texts"}
  /\ <<data, virtual>> \in CASE part = "hex" -> HexDatas [] part = "vectors" -> VectorDatas
                              [] OTHER -> TextDatas

HexNext ==
  /\ Next
  /\ dlg'.type = "HEXBYTES"
  /\ dlg'.wstrSearch \in {<<>>} \cup ({box.text : box \in HexBoxes} \ {Unreadable})
  /\ DOMAIN data' \subseteq 0..3

\* From every offset.
VectorsNext ==
  \/ \E box \in VectorBoxes : FindNext(box) \/ FindPrevious(box)
  \/ dlg.results = {} /\ \E entry \in DOMAIN data : TypeStartFrom(entry)

\* One replacement, and the mode is kept then.
Original == <<data, virtual>> \in TextDatas

TextsNext ==
  \/ \E box \in Boxes \ VectorBoxes :
       FindNext(box) \/ FindPrevious(box) \/ (Original /\ OnButtonReplace(box))
  \/ dlg.wstrReplace = <<>> /\ \E mode \in Modes : OnComboModeSelChange(mode)
  \/ \E type \in {box.type : box \in Boxes} : OnComboTypeSelChange(type)

MCNext ==
  /\ UNCHANGED part
  /\ \/ part = "hex" /\ HexNext
     \/ part = "vectors" /\ VectorsNext
     \/ part = "texts" /\ TextsNext

MCSpec == MCInit /\ [][MCNext]_<<searchVars, part>>

=============================================================================
