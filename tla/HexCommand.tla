----------------------------- MODULE HexCommand ------------------------------
(***************************************************************************)
(* The control's commands (EHexCmd): the keys a configuration binds to     *)
(* them (SetConfig) and shows in the menu, the keys, the wheel and the     *)
(* menu that run them, and when they are available.  What a command does   *)
(* is in the other modules.                                                *)
(***************************************************************************)
EXTENDS Naturals, SequencesExt

CONSTANTS
  Commands,   \* bound: the commands that are configured
  KeyWords,   \* bound: single characters and the keys of umapKeys
  Configs,    \* bound: configurations, sequences of a command's name and its texts
  Default,    \* IDJ_HEXCTRL_KEYBIND, the configuration of the resources
  Presses,    \* bound: what a user presses
  FactSets    \* bound: what holds at a time

VARIABLES
  created,    \* m_fCreated
  keyBind,    \* m_vecKeyBind
  menuKey,    \* the keys in the names of the menu's items
  greyed,     \* the menu's items that are disabled
  facts,      \* what the availability of commands depends on
  ran,        \* the command run last, and what was pressed or clicked
  configured  \* the configuration read last

cmdVars == <<created, keyBind, menuKey, greyed, facts, ran, configured>>

-----------------------------------------------------------------------------
(* Commands, by the submenu they are in (umapCmdMenu)                      *)

SearchCmds == {"SEARCH_DLG", "SEARCH_NEXT", "SEARCH_PREV"}
NavCmds == {"NAV_GOTO_DLG", "NAV_REPFWD", "NAV_REPBKW", "NAV_DATABEG", "NAV_DATAEND",
            "NAV_PAGEBEG", "NAV_PAGEEND", "NAV_LINEBEG", "NAV_LINEEND"}
BkmCmds == {"BKM_ADD", "BKM_REMOVE", "BKM_NEXT", "BKM_PREV", "BKM_REMOVEALL", "BKM_DLG_MGR"}
CopyCmds == {"COPY_HEX", "COPY_HEXLE", "COPY_HEXFMT", "COPY_TEXTCP", "COPY_BASE64",
             "COPY_CARR", "COPY_GREPHEX", "COPY_PRNTSCRN"}
PasteCmds == {"PASTE_HEX", "PASTE_TEXTUTF16", "PASTE_TEXTCP"}
ClipCmds == CopyCmds \cup {"COPY_OFFSET"} \cup PasteCmds
ModifyCmds == {"MODIFY_FILLZEROS", "MODIFY_FILLDATA_DLG", "MODIFY_OPERS_DLG",
               "MODIFY_UNDO", "MODIFY_REDO"}
SelCmds == {"SEL_MARKSTART", "SEL_MARKEND", "SEL_ALL"}
TemplCmds == {"TEMPL_APPLYCURR", "TEMPL_DISAPPLY", "TEMPL_DISAPPALL", "TEMPL_DLG_MGR"}
DataCmds == {"DATAINTERP_DLG", "CODEPAGE_DLG"}

\* In other submenus, whose items are always enabled.
OtherCmds == {"GROUPDATA_BYTE", "GROUPDATA_WORD", "GROUPDATA_DWORD", "GROUPDATA_QWORD",
              "GROUPDATA_INC", "GROUPDATA_DEC", "APPEAR_FONT_DLG", "APPEAR_FONTINC",
              "APPEAR_FONTDEC", "APPEAR_CAPACINC", "APPEAR_CAPACDEC", "PRINT_DLG", "ABOUT_DLG"}

CaretCmds == {"CARET_LEFT", "CARET_RIGHT", "CARET_UP", "CARET_DOWN"}
NoMenuCmds == CaretCmds \cup {"SEL_ADDLEFT", "SEL_ADDRIGHT", "SEL_ADDUP", "SEL_ADDDOWN",
                              "SCROLL_PAGEUP", "SCROLL_PAGEDOWN"}

SubMenus == {SearchCmds, NavCmds, BkmCmds, ClipCmds, ModifyCmds, SelCmds, TemplCmds, DataCmds}
Items == Commands \ NoMenuCmds  \* menu IDs; NoMenuCmds have the ID 0

\* What must hold for a command: each fact about data includes that it is set.
Requires(cmd) ==
  CASE cmd = "BKM_REMOVE" -> {"bookmarks", "bookmark at caret"}
    [] cmd \in {"BKM_NEXT", "BKM_PREV", "BKM_REMOVEALL"} -> {"bookmarks"}
    [] cmd \in CopyCmds  -> {"data", "selection"}
    [] cmd \in PasteCmds -> {"data", "mutable", "text in clipboard"}
    [] cmd \in {"MODIFY_OPERS_DLG", "MODIFY_FILLDATA_DLG"} -> {"data", "mutable"}
    [] cmd = "MODIFY_FILLZEROS" -> {"data", "mutable", "selection"}
    [] cmd = "MODIFY_UNDO" -> {"undo"}
    [] cmd = "MODIFY_REDO" -> {"redo"}
    [] cmd \in {"SEARCH_NEXT", "SEARCH_PREV"} -> {"search"}
    [] cmd \in {"NAV_PAGEBEG", "NAV_PAGEEND"} -> {"data", "pages"}
    [] cmd \in {"NAV_REPFWD", "NAV_REPBKW"} -> {"data", "repeat"}
    [] cmd = "TEMPL_APPLYCURR" -> {"data", "template"}
    [] cmd = "TEMPL_DISAPPLY" -> {"data", "applied", "applied at caret"}
    [] cmd = "TEMPL_DISAPPALL" -> {"data", "applied"}
    [] cmd \in SelCmds \cup CaretCmds
                 \cup {"BKM_ADD", "SEARCH_DLG", "NAV_GOTO_DLG", "NAV_DATABEG", "NAV_DATAEND",
                       "NAV_LINEBEG", "NAV_LINEEND", "BKM_DLG_MGR", "DATAINTERP_DLG",
                       "COPY_OFFSET"} -> {"data"}
    [] OTHER -> {}

CmdAvail(cmd) == Requires(cmd) \subseteq facts  \* IsCmdAvail

-----------------------------------------------------------------------------
(* Keys                                                                    *)

NoKey == "none"
KeyText(key, ctrl, shift, alt) == [key |-> key, ctrl |-> ctrl, shift |-> shift, alt |-> alt]
Unbound == KeyText(NoKey, FALSE, FALSE, FALSE)
Wheel == {"mouse_wheel_up", "mouse_wheel_down"}

ASSUME CommandAssumption ==
  /\ IsFiniteSet(Commands)
  /\ KeyWords \cap ({NoKey, "ctrl", "shift", "alt"} \cup Wheel) = {}
  /\ Configs \cup {Default} \subseteq Seq([cmd : STRING, texts : Seq(Seq(STRING))])
  /\ Presses \subseteq [key : KeyWords \cup Wheel, ctrl : BOOLEAN, shift : BOOLEAN, alt : BOOLEAN]

\* lmbParseStr, of a text that is a sequence of words: the last key it names
\* counts, and unknown words say nothing.
ParseStr(text) ==
  LET named == {i \in DOMAIN text : text[i] \in KeyWords \cup Wheel}
      names(word) == word \in ToSet(text)
  IN  KeyText(IF named = {} THEN NoKey ELSE text[Max(named)],
              names("ctrl"), names("shift"), names("alt"))

\* The first binding of a key, and of a menu item, or 0.
BoundTo(k) == SelectInSeq(keyBind, LAMBDA b : b.keys = k)
OfItem(item) == SelectInSeq(keyBind, LAMBDA b : b.cmd = item)

\* Mutant: a command's later key takes the place of the one before.
BoundLast(bindings, cmd, text) ==
  IF text = <<>> THEN bindings
  ELSE [bindings EXCEPT ![SelectInSeq(bindings, LAMBDA b : b.cmd = cmd)].keys = ParseStr(text)]

\* A text of a command's array: the command's first key takes the place kept for
\* the command, further ones come at the end.
Bound(bindings, cmd, text) ==
  LET at  == SelectInSeq(bindings, LAMBDA b : b.cmd = cmd)
      new == [cmd |-> cmd, keys |-> ParseStr(text)]
  IN  IF text = <<>> THEN bindings
      ELSE IF bindings[at].keys.key = NoKey THEN [bindings EXCEPT ![at] = new]
      ELSE Append(bindings, new)

\* The texts of a configuration, each with its command; names that are no
\* commands are skipped.
KeyTexts(config) ==
  LET textsOf(member) == [i \in DOMAIN member.texts |-> <<member.cmd, member.texts[i]>>]
  IN  FlattenSeq([i \in DOMAIN config |->
                    IF config[i].cmd \in Commands THEN textsOf(config[i]) ELSE <<>>])

BoundAll(bindings, config) ==
  LET texts == KeyTexts(config)
      upTo[i \in 0..Len(texts)] ==
        IF i = 0 THEN bindings ELSE Bound(upTo[i - 1], texts[i][1], texts[i][2])
  IN  upTo[Len(texts)]

\* A place for each command, in the order of the unordered map.
Orders == {order \in [1..Cardinality(Commands) -> Commands] : ToSet(order) = Commands}
Places == {[i \in DOMAIN order |-> [cmd |-> order[i], keys |-> Unbound]] : order \in Orders}

\* Mutant: ExecuteCmd does not ask again.
RunAnyway(at, by) ==
  ran' = IF at = 0 THEN ran ELSE [cmd |-> keyBind[at].cmd, by |-> by]

\* ExecuteCmd of what was found, if it is available.
Run(at, by) ==
  ran' = IF at # 0 /\ CmdAvail(keyBind[at].cmd) THEN [cmd |-> keyBind[at].cmd, by |-> by] ELSE ran

-----------------------------------------------------------------------------
(* Operations                                                              *)

\* The menu shows the first binding of an item, and what it showed if it has none.
SetConfig(config, shown) ==
  \E places \in Places :
    /\ keyBind' = BoundAll(places, config)
    /\ configured' = config
    /\ menuKey' = [item \in Items |->
                     LET keys == keyBind'[SelectInSeq(keyBind', LAMBDA b : b.cmd = item)].keys
                     IN  IF keys.key = NoKey THEN shown[item] ELSE keys]

NoNames == [item \in Items |-> Unbound]

\* The end of Create, in which the keys are read.
Create ==
  /\ ~created
  /\ created' = TRUE
  /\ SetConfig(Default, NoNames)
  /\ greyed' = {}
  /\ UNCHANGED <<facts, ran>>

\* A file that is not there or no JSON has no members: all keys are unbound.
Configure(config) ==
  /\ created
  /\ SetConfig(config, menuKey)
  /\ UNCHANGED <<created, greyed, facts, ran>>

\* OnDestroy: the data, the histories and the dialogs go with the window, and with
\* them all that commands depend on but the clipboard's text.
CmdDestroy ==
  /\ created
  /\ created' = FALSE
  /\ keyBind' = <<>>
  /\ menuKey' = NoNames
  /\ greyed' = {}
  /\ facts' = facts \cap {"text in clipboard"}
  /\ configured' = <<>>
  /\ UNCHANGED ran

\* The system sends WM_SYSKEYDOWN for F10 and for keys pressed with Alt alone.
IsSysKey(k) == k.key = "f10" \/ (k.alt /\ ~k.ctrl)

\* OnKeyDown; a key that no command is bound to is typed, in HexEdit.
CmdKeyDown(k) ==
  /\ created /\ k.key \notin Wheel /\ ~IsSysKey(k)
  /\ Run(BoundTo(k), k)
  /\ UNCHANGED <<created, keyBind, menuKey, greyed, facts, configured>>

\* It takes Alt to be pressed.
OnSysKeyDown(k) ==
  /\ created /\ k.key \notin Wheel /\ IsSysKey(k)
  /\ Run(BoundTo([k EXCEPT !.alt = TRUE]), k)
  /\ UNCHANGED <<created, keyBind, menuKey, greyed, facts, configured>>

\* The wheel's messages do not say whether Alt is pressed.
OnMouseWheel(k) ==
  /\ created /\ k.key \in Wheel
  /\ Run(BoundTo([k EXCEPT !.alt = FALSE]), k)
  /\ UNCHANGED <<created, keyBind, menuKey, greyed, facts, configured>>

\* A submenu opens.
OnInitMenuPopup(cmds) ==
  /\ created
  /\ greyed' = (greyed \ cmds) \cup {item \in cmds \cap Items : ~CmdAvail(item)}
  /\ UNCHANGED <<created, keyBind, menuKey, facts, ran, configured>>

\* OnCommand: an item is clicked, maybe after the facts have changed.  Of an item
\* that the client put into the menu the control only tells its parent.
ClickItem(item) ==
  /\ created /\ item \notin greyed
  /\ Run(OfItem(item), KeyText(item, FALSE, FALSE, FALSE))
  /\ UNCHANGED <<created, keyBind, menuKey, greyed, facts, configured>>

\* The client and other commands change what the commands depend on.
ChangeFacts(new) ==
  /\ created
  /\ facts' = new
  /\ UNCHANGED <<created, keyBind, menuKey, greyed, ran, configured>>

-----------------------------------------------------------------------------
(* The specification                                                       *)

NothingRan == [cmd |-> "none", by |-> Unbound]

CmdInit ==
  /\ created = FALSE
  /\ keyBind = <<>> /\ menuKey = NoNames /\ greyed = {}
  /\ facts = {} /\ ran = NothingRan /\ configured = <<>>

CmdNext ==
  \/ Create \/ CmdDestroy
  \/ \E config \in Configs : Configure(config)
  \/ \E k \in Presses : CmdKeyDown(k) \/ OnSysKeyDown(k) \/ OnMouseWheel(k)
  \/ \E cmds \in SubMenus : OnInitMenuPopup(cmds)
  \/ \E item \in Items : ClickItem(item)
  \/ \E new \in FactSets : ChangeFacts(new)

CmdSpec == CmdInit /\ [][CmdNext]_cmdVars

-----------------------------------------------------------------------------
(* Properties                                                              *)

\* Where a configuration gives a command a key, and the keys it gives it.
KeyAt(config, i) == ParseStr(KeyTexts(config)[i][2])

KeyPlaces(config, cmd) ==
  {i \in DOMAIN KeyTexts(config) : KeyTexts(config)[i][1] = cmd /\ KeyAt(config, i).key # NoKey}

KeysOf(config, cmd) == {KeyAt(config, i) : i \in KeyPlaces(config, cmd)}

\* Keys whose messages say what is pressed: not the wheel with Alt, not F10
\* without.
Told(k) == (k.key \in Wheel => ~k.alt) /\ (k.key = "f10" => k.alt)

\* The item of a command that the last configuration gives keys shows the first
\* of them, however many the command has and wherever they stand in the file;
\* and each of its keys finds the command, unless another is given the same key.
MenuKeysWork ==
  created =>
    \A cmd \in Commands :
      LET places == KeyPlaces(configured, cmd)
      IN  /\ (cmd \in Items /\ places # {}) => menuKey[cmd] = KeyAt(configured, Min(places))
          /\ \A k \in KeysOf(configured, cmd) :
               /\ BoundTo(k) # 0
               /\ \/ keyBind[BoundTo(k)].cmd = cmd
                  \/ \E other \in Commands \ {cmd} : k \in KeysOf(configured, other)

\* What is run is asked for by the command's own item, or by a key it was given.
AsAsked ==
  ran' # ran =>
    LET k == ran'.by
    IN  /\ CmdAvail(ran'.cmd)
        /\ \/ k.key = ran'.cmd
           \/ Told(k) /\ k \in KeysOf(configured, ran'.cmd)
           \/ ~Told(k) /\ [k EXCEPT !.alt = (k.key \notin Wheel)] \in KeysOf(configured, ran'.cmd)

\* A command runs when it is available at that time, although the menu was
\* opened or the key configured before, and only for its own item, or for a key
\* that the configuration read last gives it.
RunsAsAsked == [][AsAsked]_cmdVars

\* A key runs what the menu and the configuration say it runs, and nothing else.
KeysRunAsAsked == []MenuKeysWork /\ RunsAsAsked

=============================================================================
