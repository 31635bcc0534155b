---------------------------- MODULE HexDlgModify -----------------------------
(***************************************************************************)
(* The Modify dialog (CHexDlgModify.cpp): the controls of its two tabs,    *)
(* Operations and Fill with Data, what enables them, and what OK makes of  *)
(* the data; while the control's client or its user change the selection   *)
(* and the data, and every message box activates the dialog again.         *)
(***************************************************************************)
EXTENDS HexOper

CONSTANTS
  Fresh,       \* the data SetData gives
  Selections,  \* the selections there can be, sequences of spans of one size
  Operands,    \* the numbers that are typed as an operand
  Texts,       \* the texts that are typed to fill with, sequences of ASCII characters
  HexOf(_),    \* NumStrToHex: the bytes of a text, <<>> if it is no hex
  MaxStrings   \* 50: the strings the list of texts keeps

ASSUME DlgModifyAssumption ==
  /\ Fresh \in Seq(0..2^ByteBits - 1) /\ Fresh # <<>>
  /\ <<>> \in Selections /\ <<>> \in Texts
  /\ MaxStrings \in Nat \ {0}

VARIABLES
  data,       \* <<>> when no data is set
  selection,  \* the control's
  hasAVX2,    \* the processor's
  tab,        \* the tab on top
  canSelect,  \* the Selection buttons are enabled
  opers,      \* the controls of the Operations tab
  fill        \* the controls of the Fill tab and m_vecFillData

modifyVars == <<data, selection, hasAVX2, tab, canSelect, opers, fill>>

FillTypes == {"hex", "ascii", "wchar", "mt19937", "fast"}
Random == {"mt19937", "fast"}
Unknown == 2^ByteBits  \* stands for a random byte

-----------------------------------------------------------------------------
(* The controls.  The operand typed is <<>> or <<number>>.                 *)

SetControlsState(c) ==
  LET oneByte  == SizeOf(c.type) = 1
      operated == c.oper \notin {"not", "bitrev", "swap"}
  IN [c EXCEPT !.edit = operated,
               !.box  = ~oneByte /\ operated,
               !.ok   = CASE c.oper \in {"not", "bitrev"} -> TRUE
                          [] c.oper = "swap" -> ~oneByte
                          [] OTHER -> c.operand # <<>>]

FloatOpers == {"assign", "add", "sub", "mul", "div", "max", "min", "swap"}

\* Mutant: a float stays selected when the floats are deleted.
KeepsFloat(c) == SetControlsState([c EXCEPT !.floats = c.oper \in FloatOpers])

\* The types of the list follow the operation; a float deleted leaves the last
\* of the integers selected.
OnComboOperSelChange(c) ==
  LET has == c.oper \in FloatOpers
  IN SetControlsState(
       [c EXCEPT !.floats = has,
                 !.type = IF ~has /\ c.type \in Floats THEN "uint64" ELSE c.type])

SetFillControlsState(f) ==
  [f EXCEPT !.ok = f.type \in Random \/ f.text # <<>>]

OpersOnInit ==
  OnComboOperSelChange([oper |-> "assign", type |-> "int8", floats |-> FALSE, operand |-> <<>>,
                        be |-> FALSE, edit |-> TRUE, box |-> TRUE, ok |-> TRUE, region |-> "all"])

FillOnInit ==
  SetFillControlsState([type |-> "hex", text |-> <<>>, strings |-> <<>>, data |-> <<>>,
                        ok |-> TRUE, region |-> "all"])

Init ==
  /\ data = Fresh /\ selection = <<>>
  /\ hasAVX2 \in BOOLEAN
  /\ tab = 0
  /\ canSelect = FALSE
  /\ opers = OpersOnInit
  /\ fill = FillOnInit

\* OnActivate of both tabs: the region follows the selection.
Region == IF selection # <<>> THEN "sel" ELSE "all"
Activated(o, f) ==
  /\ canSelect' = (selection # <<>>)
  /\ opers' = [o EXCEPT !.region = Region]
  /\ fill' = [f EXCEPT !.region = Region]

\* Bounds: the controls of one tab are used, and data is modified once.
FillUnused == [fill EXCEPT !.region = "all"] = FillOnInit
OpersUnused == [opers EXCEPT !.region = "all"] = OpersOnInit
NotModified == data \in {Fresh, <<>>}

-----------------------------------------------------------------------------
(* Operations                                                              *)

\* Whether StrToNum reads a number typed as one of the type, and its bytes.
IsOfType(type, n) ==
  IF type \in Floats THEN n \in -Infinity(type) + 1..Infinity(type) - 1
  ELSE n = ToSigned(type, ToPattern(type, n))
NumberBytes(type, n) == ToBytes(type, IF type \in Floats THEN FloatPattern(type, n) ELSE n)

\* The operand's bytes, of the type's size in any case; <<>> when it is refused:
\* it is no number of the type, or a divisor of zero.
FillVecOper(c) ==
  IF ~c.edit THEN ToBytes(c.type, 0)
  ELSE IF ~IsOfType(c.type, c.operand[1]) \/ (c.oper = "div" /\ c.operand[1] = 0) THEN <<>>
  ELSE IF c.be /\ c.oper \in {"or", "xor", "and", "assign"}
       THEN ByteSwap(NumberBytes(c.type, c.operand[1]))
  ELSE NumberBytes(c.type, c.operand[1])

\* Mutant: exclusive or is swapped as data, too.
SwapsTwice(c) ==
  c.be /\ SizeOf(c.type) > 1
       /\ c.oper \notin {"not", "swap", "bitrev", "or", "and", "assign"}

\* fSwapData
SwapData(c) ==
  c.be /\ SizeOf(c.type) > 1
       /\ c.oper \notin {"not", "swap", "bitrev", "or", "xor", "and", "assign"}

Whole == << <<0, Len(data)>> >>

Hms(operand, spans) ==
  [oper |-> opers.oper, type |-> opers.type, operand |-> operand, spans |-> spans,
   bigEndian |-> SwapData(opers)]

\* Operations that have no meaning in C++ are left out.
OperateOn(spans) ==
  /\ data = Fresh
  /\ \E hms \in {Hms(FillVecOper(opers), spans)} :
       /\ Meaningful(hms)
       /\ data' = Operation(data, hms, hasAVX2)

OpersOnOK ==
  /\ tab = 0 /\ opers.ok /\ data # <<>>
  /\ \/ FillVecOper(opers) = <<>> /\ Activated(opers, fill) /\ UNCHANGED data
     \/ /\ FillVecOper(opers) # <<>> /\ opers.region = "all"
        /\ Activated(opers, fill)
        /\ OperateOn(Whole) \/ UNCHANGED data  \* IDYES, IDNO
     \/ /\ FillVecOper(opers) # <<>> /\ opers.region = "sel" /\ selection # <<>>
        /\ OperateOn(selection)
        /\ UNCHANGED <<canSelect, opers, fill>>
  /\ UNCHANGED <<selection, hasAVX2, tab>>

OpersSelectOper(oper) == opers' = OnComboOperSelChange([opers EXCEPT !.oper = oper])

OpersSelectType(type) ==
  /\ type \in Floats => opers.floats
  /\ opers' = SetControlsState([opers EXCEPT !.type = type])

OpersEditOperand(operand) ==
  /\ opers.edit
  /\ opers' = SetControlsState([opers EXCEPT !.operand = operand])

OpersCheckBE == opers.box /\ opers' = [opers EXCEPT !.be = ~opers.be]

OpersSelectRegion(region) ==
  /\ region = "sel" => canSelect
  /\ opers' = [opers EXCEPT !.region = region]

OpersControls ==
  /\ tab = 0 /\ FillUnused /\ NotModified
  /\ \/ \E oper \in Opers : OpersSelectOper(oper)
     \/ \E type \in IntTypes \cup Floats : OpersSelectType(type)
     \/ \E operand \in {<<>>} \cup {<<n>> : n \in Operands} : OpersEditOperand(operand)
     \/ OpersCheckBE
     \/ \E region \in {"all", "sel"} : OpersSelectRegion(region)
  /\ UNCHANGED <<data, selection, hasAVX2, tab, canSelect, fill>>

-----------------------------------------------------------------------------
(* Fill with Data                                                          *)

\* UTF-16 has a zero byte after each ASCII character.
WideOf(text) == FlattenSeq([i \in DOMAIN text |-> <<text[i], 0>>])

FillBytes(f) ==
  CASE f.type = "hex"   -> HexOf(f.text)
    [] f.type = "ascii" -> f.text
    [] f.type = "wchar" -> WideOf(f.text)
    [] OTHER -> f.data

\* The texts that OK was pressed with, the last first.
InsertString(strings, text) ==
  IF Contains(strings, text) THEN strings
  ELSE <<text>> \o (IF Len(strings) = MaxStrings THEN Front(strings) ELSE strings)

\* Mutant: the fill data is what the last OK left.
StaleFillData(f) ==
  [f EXCEPT !.data = IF f.data = <<>> THEN FillBytes(f) ELSE f.data,
            !.strings = InsertString(f.strings, f.text)]

\* The filling as OK keeps it, for a random one with the bytes of the last.
Prepared(f) ==
  [f EXCEPT !.data = FillBytes(f), !.strings = InsertString(f.strings, f.text)]

\* MODIFY_REPEAT, or random bytes for all of the spans.
FillOn(spans, f) ==
  IF f.type \in Random THEN WorkedSpans(data, spans, 1, [elem \in Pieces |-> <<Unknown>>])
  ELSE WorkedSpans(data, spans, Len(f.data), [elem \in Pieces |-> f.data])

FillMissing == fill.type \notin Random /\ fill.text = <<>>
FillWrongHex == fill.type = "hex" /\ HexOf(fill.text) = <<>>

\* The fill data is kept, and the region must be large enough for it, also if
\* random bytes will not use it.
FillWith(spans, f) ==
  \/ Len(f.data) > Last(spans)[2] /\ Activated(opers, f) /\ UNCHANGED data
  \/ /\ Len(f.data) <= Last(spans)[2]
     /\ data = Fresh /\ data' = FillOn(spans, f)
     /\ IF fill.region = "all" THEN Activated(opers, f)
        ELSE fill' = f /\ UNCHANGED <<canSelect, opers>>

FillOnOK ==
  /\ tab = 1 /\ fill.ok /\ data # <<>>
  /\ IF FillMissing THEN Activated(opers, fill) /\ UNCHANGED data
     ELSE \/ fill.region = "all" /\ Activated(opers, fill) /\ UNCHANGED data  \* IDNO
          \/ /\ fill.region = "all" \/ selection # <<>>
             /\ IF FillWrongHex THEN Activated(opers, fill) /\ UNCHANGED data
                ELSE FillWith(IF fill.region = "all" THEN Whole ELSE selection, Prepared(fill))
  /\ UNCHANGED <<selection, hasAVX2, tab>>

FillSelectType(type) == fill' = SetFillControlsState([fill EXCEPT !.type = type])

\* Typed: the combo box is disabled while the type is random.
FillEditText(text) ==
  /\ fill.type \notin Random
  /\ fill' = SetFillControlsState([fill EXCEPT !.text = text])

\* Picked from the list: OnCommand does not handle CBN_SELCHANGE of this box.
FillPickText(text) ==
  /\ fill.type \notin Random
  /\ fill' = [fill EXCEPT !.text = text]

FillSelectRegion(region) ==
  /\ region = "sel" => canSelect
  /\ fill' = [fill EXCEPT !.region = region]

FillControls ==
  /\ tab = 1 /\ OpersUnused /\ NotModified
  /\ \/ \E type \in FillTypes : FillSelectType(type)
     \/ \E text \in Texts : FillEditText(text)
     \/ \E text \in Range(fill.strings) : FillPickText(text)
     \/ \E region \in {"all", "sel"} : FillSelectRegion(region)
  /\ UNCHANGED <<data, selection, hasAVX2, tab, canSelect, opers>>

-----------------------------------------------------------------------------
(* The dialog and the control                                              *)

SetCurrentTab ==
  /\ NotModified
  /\ tab' = 1 - tab
  /\ UNCHANGED <<data, selection, hasAVX2, canSelect, opers, fill>>

OnActivate ==
  /\ data # <<>> /\ NotModified
  /\ Activated(opers, fill)
  /\ UNCHANGED <<data, selection, hasAVX2, tab>>

SetSelection ==
  /\ data # <<>> /\ NotModified
  /\ selection' \in Selections
  /\ UNCHANGED <<data, hasAVX2, tab, canSelect, opers, fill>>

\* SetData and ClearData.
ResetData ==
  /\ data' \in {Fresh, <<>>}
  /\ selection' = <<>>
  /\ UNCHANGED <<hasAVX2, tab, canSelect, opers, fill>>

Next ==
  \/ OpersOnOK \/ OpersControls
  \/ FillOnOK \/ FillControls
  \/ SetCurrentTab \/ OnActivate \/ SetSelection \/ ResetData

Spec == Init /\ [][Next]_modifyVars

-----------------------------------------------------------------------------
(* Properties                                                              *)

TypeOK ==
  /\ data \in Seq(0..Unknown) /\ selection \in Selections
  /\ hasAVX2 \in BOOLEAN /\ tab \in {0, 1} /\ canSelect \in BOOLEAN
  /\ opers.oper \in Opers /\ opers.type \in IntTypes \cup Floats
  /\ opers.region \in {"all", "sel"} /\ fill.region \in {"all", "sel"}
  /\ fill.type \in FillTypes /\ fill.text \in Texts
  /\ Len(fill.strings) <= MaxStrings

\* Whatever the order in which operation, type and operand were chosen, the
\* Operations tab shows what it can do: the type is one the list of the
\* operation has, an operand and a byte order can be given exactly for
\* operations that use them, and the OK button is enabled when nothing is
\* missing (OnComboOperSelChange, SetControlsState).  The texts to fill with are
\* kept once each.
ControlsFollow ==
  /\ TypeOK
  /\ opers.type \in Floats =>
       opers.floats /\ opers.oper \notin {"or", "xor", "and", "not", "shl", "shr",
                                          "rotl", "rotr", "bitrev"}
  /\ opers.edit <=> opers.oper \notin {"not", "swap", "bitrev"}
  /\ opers.box <=> opers.edit /\ SizeOf(opers.type) > 1
  /\ opers.ok <=> /\ opers.edit => opers.operand # <<>>
                  /\ opers.oper = "swap" => SizeOf(opers.type) > 1
  /\ IsInjective(fill.strings)

\* The step modifies data, of the tab on top.
Modifies(onTab) == tab = onTab /\ data = Fresh /\ data' \notin {Fresh, <<>>}
RegionShown(region) == IF region = "all" THEN Whole ELSE selection

\* What one element may become, read in the byte order the box shows.  Of two
\* floating-point numbers that have no order, either is the greater.
OperatedAsShown(elem) ==
  LET Shown(bytes) == IF opers.box /\ opers.be THEN Reverse(bytes) ELSE bytes
      operand == NumberBytes(opers.type, IF opers.edit THEN opers.operand[1] ELSE 0)
      p == Pattern(Shown(elem))
      o == Pattern(operand)
  IN CASE opers.oper = "assign" -> {Shown(operand)}
       [] opers.oper = "swap"   -> {Reverse(elem)}
       [] opers.type \in Floats /\ opers.oper \in {"min", "max"} ->
            IF IsLess(opers.type, p, o) THEN {IF opers.oper = "min" THEN Shown(operand) ELSE elem}
            ELSE IF IsLess(opers.type, o, p) THEN {IF opers.oper = "max" THEN Shown(operand) ELSE elem}
            ELSE {Shown(operand), elem}
       [] OTHER -> {Shown(ToBytes(opers.type, OperatedPattern(opers.type, opers.oper, p, o)))}

\* The whole elements of a size in spans: their offsets.
Elements(spans, size) ==
  UNION {{span[1] + (k * size) : k \in 0..(span[2] \div size) - 1} : span \in Range(spans)}

\* An operation makes of each whole element of the region shown what the
\* operator shown gives for the type, operand and byte order shown, and nothing
\* of the other bytes: the operations for which the operand is swapped instead
\* of the data or neither is, the vectors of both widths with their byte masks
\* and the remainder after them all agree with one another (OnOK, FillVecOper,
\* ModifyOper, ModifyOperVec128, ModifyOperVec256).
OperatesAsShown ==
  [][Modifies(0) =>
       \E size \in {SizeOf(opers.type)} :
         \E offsets \in {Elements(RegionShown(opers.region), size)} :
           /\ \A o \in offsets :
                SubSeq(data', o + 1, o + size) \in OperatedAsShown(SubSeq(data, o + 1, o + size))
           /\ \A i \in DOMAIN data :
                (\A o \in offsets : i \notin o + 1..o + size) => data'[i] = data[i]]_modifyVars

\* The tab shows what an operation can do, and the operation does what it shows.
OperationsAsShown == []ControlsFollow /\ OperatesAsShown

\* What the Fill tab shows: for random types, all bytes of the region; else
\* the bytes of the text for the type, as often as they fit whole.
BytesShown ==
  CASE fill.type \in Random -> <<Unknown>>
    [] fill.type = "hex"   -> HexOf(fill.text)
    [] fill.type = "ascii" -> fill.text
    [] OTHER -> [i \in 1..2 * Len(fill.text) |->
                   IF i % 2 = 1 THEN fill.text[(i + 1) \div 2] ELSE 0]

\* A filling repeats what the Fill tab shows over the region it shows, though
\* the fill data of an earlier OK is kept, texts are picked from the list and
\* message boxes choose the region anew.
FillsAsShown ==
  [][Modifies(1) =>
       \E bytes \in {BytesShown} :
         \E offsets \in {Elements(RegionShown(fill.region), Len(bytes))} :
           /\ bytes # <<>>
           /\ \A o \in offsets : SubSeq(data', o + 1, o + Len(bytes)) = bytes
           /\ \A i \in DOMAIN data :
                (\A o \in offsets : i \notin o + 1..o + Len(bytes)) =>
                  data'[i] = data[i]]_modifyVars

=============================================================================
