------------------------------ MODULE MCHexEdit ------------------------------
\* What a user does with keys, mouse and two dialogs, in five parts: gestures
\* that select, typing into small data, the data interpreter over data that
\* all its rows fit in, Go To, and the keys and the menu that run commands.
EXTENDS HexEdit, HexGoTo, HexCommand

CONSTANT GestureSize

VARIABLE part

allVars == <<vars, editVars, goVars, cmdVars, part>>
NotTyping == UNCHANGED editVars
NotGoing == UNCHANGED goVars
NotCommanding == UNCHANGED cmdVars

\* Bytes of four values.  Numbers that are dates for every row, and are not.
Plain == <<0, 1, 2, 0, 1, 0, 0, 0, 0, 3, 0, 0, 0, 0, 0, 0, 1>>
Dates == <<1, 1, 1, 0, 1, 0, 2, 0, 0, 1, 0, 2, 0, 0, 1, 0, 3>>
Highs == <<3, 0, 3, 3, 3, 0, 0, 3, 3, 3, 0, 0, 3, 0, 1, 3, 2>>
MCContents == {Plain, Dates, Highs}
Short == {<<1, 2>>, <<3, 0, 1>>}
MCClips == {<<2>>, <<3, 1, 0>>}

MCTexts ==
  [BINARY |-> {<<2>>}, UINT8 |-> {<<3>>}, UINT16 |-> {<<6>>}, UINT32 |-> {<<27>>},
   UINT64 |-> {<<4660>>}, TIME32T |-> {<<31>>, <<40>>, <<700>>}, TIME64T |-> {<<31>>, <<701>>},
   FILETIME |-> {<<7000>>}, JAVATIME |-> {<<20>>, <<50>>}, MSDOSTIME |-> {<<10>>, <<333>>},
   MSDTTMTIME |-> {<<27>>}, SYSTEMTIME |-> {<<15, 2, 3, 4, 5, 6, 7>>, <<15, 13, 3, 4, 5, 6, 7>>},
   GUID |-> {<<99, 7, 10, 0, 1, 2, 3, 0, 1, 2, 3>>}, GUIDTIME |-> {<<400>>}]

GestureNext ==
  /\ NotTyping /\ NotGoing
  /\ \/ ~IsDataSet /\ SetData(GestureSize, FALSE)
     \/ IsDataSet /\ \E cap \in {capacity - 1, capacity + 1} : SetCapacity(cap)
     \/ SelAddDown \/ SelAddLeft \/ SelAddRight \/ SelAddUp
     \/ MouseNext

\* The byte in the middle, in either area; one selection at a time.
TypingHits == {hit \in Hits : hit.offset = 1}

TypingNext ==
  /\ NotGoing
  /\ \/ \E bytes \in Short :
          \/ ~IsDataSet /\ SetContents(bytes, TRUE)
          \/ typed.keys # <<>> /\ AdjustContents(bytes, FALSE)
     \/ sel # <<>> /\ (ClearContents \/ (~mutable /\ Protect(TRUE)))
     \/ \E r \in BOOLEAN : CaretCommand(r) \/ (sel = <<>> /\ SelectCommand(r))
     \/ OnKeyUp
     \/ sel = <<>> /\ typed.keys # <<>> /\ (OtherSelection \/ HoldKey)
     \/ sel = <<>> /\ \E hit \in TypingHits :
          Click(hit, FALSE, FALSE) \/ Drag(hit) \/ DoubleClick(hit, FALSE, FALSE)
     \/ \E half \in {0, 1}, r \in BOOLEAN : OnKeyDown(half, r)
     \/ \E byte \in {0, 3}, r \in BOOLEAN : OnChar(byte, r)
     \/ \E bytes \in Clips : ClipboardPaste(bytes)
     \/ FillWithZeros
     \/ ~interp.visible /\ OpenInterp

InterpPlaces == {0, 1, 9, 13, 16}
InterpPartNext ==
  /\ NotGoing
  /\ \/ \E bytes \in MCContents : ~IsDataSet /\ SetContents(bytes, TRUE)
     \/ OpenInterp \/ CloseInterp \/ OnActivate \/ OnCheckBigEndian
     \/ \E row \in {"UINT8", "FILETIME", "GUID"} : OnNotifyListItemChanged(row)
     \/ \E row \in Rows : changes < MaxChanges /\ OnNotifyListEditBegin(row)
     \/ \E text \in TextsOf(editing) : OnNotifyListSetData(text)
     \/ \E offset \in InterpPlaces : ClientCaret(offset, TRUE)

GoingNext ==
  /\ NotTyping
  /\ \/ DialogNext
     \/ /\ \/ ~IsDataSet /\ \E size \in 1..GestureSize : SetData(size, FALSE)
           \/ ClearData
           \/ \E size \in PageSizes : SetPageSize(size)
           \/ \E offset \in 0..GestureSize - 1 : SetCaretPos(offset, TRUE)
        /\ asked' = NotAsked
        /\ UNCHANGED <<goText, goMode, hasPages, goRepeat>>

\* Commands of two submenus and of none, each with a fact it needs or without.
MCCommands == {"BKM_NEXT", "MODIFY_UNDO", "SEL_ADDLEFT"}
MCKeyWords == {"f", "f2", "f10"}
MCDefault ==
  <<[cmd |-> "BKM_NEXT", texts |-> <<<<"f2">>, <<"ctrl", "f">>>>],
    [cmd |-> "MODIFY_UNDO", texts |-> <<<<>>>>],
    [cmd |-> "SEL_ADDLEFT", texts |-> <<<<"shift", "mouse_wheel_up">>>>]>>

\* A key of two commands and a name that is none; F10 and the wheel, with Alt
\* and without; a text without a key; no members.
MCConfigs ==
  {<<[cmd |-> "MODIFY_UNDO", texts |-> <<<<"f">>, <<"f2">>>>],
     [cmd |-> "SEL_ALLWAYS", texts |-> <<<<"f10">>>>],
     [cmd |-> "BKM_NEXT", texts |-> <<<<"f2">>>>]>>,
   <<[cmd |-> "MODIFY_UNDO", texts |-> <<<<"f10">>, <<"alt", "f10">>>>],
     [cmd |-> "BKM_NEXT", texts |-> <<<<"alt", "mouse_wheel_up">>, <<"mouse_wheel_up">>>>]>>,
   <<[cmd |-> "SEL_ADDLEFT", texts |-> <<<<"ctrl">>, <<"ctrl", "f">>>>],
     [cmd |-> "MODIFY_UNDO", texts |-> <<<<"ctrl", "f">>>>]>>,
   <<>>}

MCPresses ==
  {KeyText(key, FALSE, FALSE, alt) : key \in {"f2", "f10", "mouse_wheel_up"}, alt \in BOOLEAN}
    \cup {KeyText("f", ctrl, FALSE, FALSE) : ctrl \in BOOLEAN}
    \cup {KeyText("mouse_wheel_up", FALSE, TRUE, FALSE)}
MCFactSets == {{}, {"bookmarks", "text in clipboard"}, {"data", "bookmarks", "undo"}}

KeysNext ==
  /\ NotTyping /\ NotGoing /\ UNCHANGED vars
  /\ CmdNext

MCPageSizes == {0, 2, 3, 9}
MCGoToTexts == {NoNumber, 0, 1, 2, 5, Modulus - 1}

MCInit ==
  /\ EditInit /\ CmdInit
  /\ goText = NoNumber /\ goMode = "OFFSET" /\ hasPages = FALSE /\ goRepeat = FALSE
  /\ asked = NotAsked
  /\ part \in {"gestures", "typing", "interp", "goto", "keys"}
  /\ part # "gestures" => capacity = 2

MCNext ==
  /\ UNCHANGED part
  /\ part # "keys" => NotCommanding
  /\ \/ part = "gestures" /\ GestureNext
     \/ part = "typing" /\ TypingNext
     \/ part = "interp" /\ InterpPartNext
     \/ part = "goto" /\ GoingNext
     \/ part = "keys" /\ KeysNext

MCSpec == MCInit /\ [][MCNext]_allVars

=============================================================================
