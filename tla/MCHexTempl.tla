----------------------------- MODULE MCHexTempl -----------------------------
(* Two parts: the manager, on files with nested fields, a custom type, arrays  *)
(* and one that names a type no one has defined; and the values of the fields  *)
(* of one template, which has all types.                                       *)
EXTENDS HexTemplValues

VARIABLE part

allVars == <<templVars, valueVars, part>>

MCNested ==
  [CustomTypes |-> <<>>,
   Data |-> [Fields |-> <<[Fields |-> <<[size |-> 1, endianness |-> "big"]>>],
                          [type |-> "uint8"]>>]]

MCArray ==
  [CustomTypes |-> <<[TypeName |-> "Word", Fields |-> <<[type |-> "uint16"]>>]>>,
   Data |-> [Fields |-> <<[type |-> "Word", array |-> 2]>>, endianness |-> "little"]]

MCBroken ==
  [CustomTypes |-> <<>>, Data |-> [Fields |-> <<[type |-> "uint8"], [type |-> "Pair"]>>]]

Plain(fields) == [CustomTypes |-> <<>>, Data |-> [Fields |-> fields]]

MCNumbers == Plain(<<[type |-> "bool"], [type |-> "int8"], [type |-> "uint16"],
                     [type |-> "int32", endianness |-> "big"], [type |-> "double"]>>)
MCSized == Plain(<<[size |-> 1], [size |-> 2], [size |-> 3], [size |-> 4, endianness |-> "big"]>>)
MCTimes == Plain(<<[type |-> "time32_t", endianness |-> "big"], [type |-> "time64_t"]>>)
MCFileTime == Plain(<<[type |-> "FILETIME", endianness |-> "big"]>>)
MCSystemTime == Plain(<<[type |-> "SYSTEMTIME"]>>)
MCGuid == Plain(<<[type |-> "GUID", endianness |-> "big"]>>)
MCFiles == <<MCNested, MCArray, MCBroken, MCNumbers, MCSized, MCTimes, MCFileTime,
             MCSystemTime, MCGuid>>
MCChoices == {<<1, 2>>, <<3, 2>>}
ManagerFiles == 1..3
ValuesFiles == 4..9

\* Bytes of four values.
MCContents == {<<0, 1, 2, 0, 1, 0, 0, 2, 0, 3, 0, 0, 2, 0, 3, 0, 1, 2>>,
               <<3, 2, 3, 3, 1, 3, 2, 3, 0, 3, 3, 1, 3, 3, 3, 2, 3, 1>>}

Few == {NoText, <<0>>, <<1>>, <<31>>, <<300>>}
Times == {NoText, <<31>>, <<40>>, <<701>>, <<7000>>}
MCTexts ==
  [bool |-> Few, int8 |-> Few, uint16 |-> Few, int32 |-> Few, double |-> Few, custom_size |-> Few,
   time32_t |-> Times, time64_t |-> Times, FILETIME |-> Times,
   SYSTEMTIME |-> {NoText, <<15, 2, 3, 4, 5, 6, 7>>, <<15, 13, 3, 4, 5, 6, 7>>},
   GUID |-> {NoText, <<99, 7, 10, 0, 1, 2, 3, 0, 1, 2, 3>>}]

ManagerNext ==
  /\ Next
  /\ ToSet(templates') \in SUBSET [id : 1..MaxId, file : ManagerFiles]
  /\ UNCHANGED valueVars

\* One template, applied where it fits and where it does not, and shown.
ValuesPartNext ==
  \/ /\ \/ dialog /\ IsDataSet /\ templates = <<>> /\ \E file \in ValuesFiles : LoadTemplate(file)
        \/ dialog /\ \E offset \in {1, 9} : ApplyTemplate(offset, 1)
        \/ CreateDlg
        \/ \E id \in AppliedIds : ClickTree(<<id>>)
     /\ UNCHANGED <<bytes, mutable, showHex, swapEndian, entries>>
     /\ entry' = NoEntry
  \/ ~IsDataSet /\ \E content \in MCContents, m \in BOOLEAN : SetContents(content, m)
  \/ current # 0 /\ (OnCheckHex \/ OnCheckSwapEndian)
  \/ \E row \in 1..rows : \E text \in TextsOf(row) : OnNotifyListSetData(row, text)

MCInit ==
  /\ ValuesInit
  /\ part \in {"manager", "values"}
  /\ part = "values" => dataSize = 0

MCNext ==
  /\ UNCHANGED part
  /\ \/ part = "manager" /\ ManagerNext
     \/ part = "values" /\ ValuesPartNext

MCSpec == MCInit /\ [][MCNext]_allVars

MCSizes == {0, 5}
MCOffsets == {1}
=============================================================================
