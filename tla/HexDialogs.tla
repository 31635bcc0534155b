----------------------------- MODULE HexDialogs -----------------------------
(***************************************************************************)
(* The seven dialogs and the control they serve.  The dialog objects live  *)
(* as long as the IHexCtrl object, their windows from the first time they  *)
(* are asked for until the control's window goes, which may happen again   *)
(* and again.  A dialog is told of the control by Initialize, forgets it   *)
(* in OnDestroy, and is only ever hidden by its user.                      *)
(***************************************************************************)
EXTENDS Sequences

Dialogs == {"BKMMGR", "CODEPAGE", "DATAINTERP", "GOTO", "MODIFY", "SEARCH", "TEMPLMGR"}
Tabs == {"OPERS", "FILLDATA"}
Windows == Dialogs \cup Tabs
Other == "other"   \* a window that is no dialog: the control, the client's

VARIABLES
  phase,   \* of the control's window: "none", "live", and, while DestroyWindow
           \* runs, "owned" before its WM_DESTROY and "handler" in OnDestroy;
           \* IsCreated() is TRUE in all but the first
  todo,    \* the DestroyDlg calls OnDestroy has before it
  wnd,     \* the dialogs' windows: "none", "hidden" or "shown"
  active,  \* the active window, a dialog or Other
  knows,   \* m_pHexCtrl of the dialogs and of Modify's tabs is the control
  noEsc,   \* m_u64Flags has HEXCTRL_FLAG_DLG_NOESC
  dataSet, \* the control's data is set, and mutable
  kept,    \* the control's "highlight", the Go To's "repeat", the search's "results"
  asked,   \* history: the client's last SetDlgProperties in this life of the control
  last     \* history: the message a dialog got last, and which

dialogVars == <<phase, todo, wnd, active, knows, noEsc, dataSet, kept, asked, last>>

Created == phase # "none"
Nothing == <<"none", Other>>

-----------------------------------------------------------------------------
(* The classes: the messages their ProcessMsg takes, the commands that     *)
(* hide them unless flags forbid, what an activation drops (OnActivate),   *)
(* and what OnDestroy drops and whether it forgets the control.            *)

BkmMgrTakes == {"CLOSE", "COMMAND", "DESTROY"}
BkmMgrHides == {"CANCEL"}
BkmMgrDestroy == [forgets |-> FALSE, drops |-> {}]

CodepageTakes == {"ACTIVATE", "CLOSE", "COMMAND", "DESTROY"}
CodepageHides == {"OK", "CANCEL"}
CodepageDestroy == [forgets |-> TRUE, drops |-> {}]

DataInterpTakes == {"ACTIVATE", "CLOSE", "COMMAND", "DESTROY"}
DataInterpHides == {"CANCEL"}
DataInterpInactive == {"highlight"}
DataInterpDestroy == [forgets |-> TRUE, drops |-> {}]

GoToTakes == {"ACTIVATE", "CLOSE", "COMMAND", "DESTROY"}
GoToHides == {"CANCEL"}
\* UpdateComboMode: when the page modes go and one was selected.
GoToActive == {"repeat"}
\* Mutant: what may be repeated outlives the window.
GoToDestroyKeeps == [forgets |-> TRUE, drops |-> {}]
GoToDestroy == [forgets |-> TRUE, drops |-> {"repeat"}]

\* WM_CLOSE is not among the messages: OnClose is never called.
ModifyTakes == {"ACTIVATE", "DESTROY"}
ModifyDestroy == [forgets |-> TRUE, drops |-> {}]
OpersTakes == {"ACTIVATE", "COMMAND", "DESTROY"}
OpersHides == {"CANCEL"}      \* they hide their parent
OpersDestroy == [forgets |-> TRUE, drops |-> {}]
FillDataTakes == {"ACTIVATE", "COMMAND", "DESTROY"}
FillDataHides == {"CANCEL"}
FillDataDestroy == [forgets |-> TRUE, drops |-> {}]

SearchTakes == {"ACTIVATE", "CLOSE", "COMMAND", "DESTROY"}
SearchHides == {"CANCEL"}
SearchDestroy == [forgets |-> TRUE, drops |-> {"results"}]

TemplMgrTakes == {"ACTIVATE", "CLOSE", "COMMAND", "DESTROY"}
TemplMgrHides == {"CANCEL"}
TemplMgrDestroy == [forgets |-> TRUE, drops |-> {}]

Takes(w) ==
  CASE w = "BKMMGR" -> BkmMgrTakes [] w = "CODEPAGE" -> CodepageTakes
    [] w = "DATAINTERP" -> DataInterpTakes [] w = "GOTO" -> GoToTakes
    [] w = "MODIFY" -> ModifyTakes [] w = "OPERS" -> OpersTakes [] w = "FILLDATA" -> FillDataTakes
    [] w = "SEARCH" -> SearchTakes [] w = "TEMPLMGR" -> TemplMgrTakes [] OTHER -> {}

Hides(w) ==
  CASE w = "BKMMGR" -> BkmMgrHides [] w = "CODEPAGE" -> CodepageHides
    [] w = "DATAINTERP" -> DataInterpHides [] w = "GOTO" -> GoToHides
    [] w = "OPERS" -> OpersHides [] w = "FILLDATA" -> FillDataHides
    [] w = "SEARCH" -> SearchHides [] w = "TEMPLMGR" -> TemplMgrHides [] OTHER -> {}

AtDestroy(w) ==
  CASE w = "BKMMGR" -> BkmMgrDestroy [] w = "CODEPAGE" -> CodepageDestroy
    [] w = "DATAINTERP" -> DataInterpDestroy [] w = "GOTO" -> GoToDestroy
    [] w = "MODIFY" -> ModifyDestroy [] w = "OPERS" -> OpersDestroy
    [] w = "FILLDATA" -> FillDataDestroy [] w = "SEARCH" -> SearchDestroy
    [] OTHER -> TemplMgrDestroy

\* The windows that come and go with a dialog's: Modify's OnInitDialog creates
\* its tabs, which are its child windows.
WindowsOf(d) == IF d = "MODIFY" THEN {d} \cup Tabs ELSE {d}
DialogOf(w) == IF w \in Tabs THEN "MODIFY" ELSE w

-----------------------------------------------------------------------------
(* Activation.  Windows tells the window that loses it first.              *)

\* OnActivate does nothing without a control that is created.
Listens(w) == "ACTIVATE" \in Takes(w) /\ knows[w] /\ Created

\* What a loss of the activation drops, and what getting it may drop.
DropsInactive(w) == IF w = "DATAINTERP" /\ Listens(w) THEN DataInterpInactive ELSE {}
DropsActive(w) == IF w = "GOTO" /\ Listens(w) /\ dataSet THEN GoToActive ELSE {}

\* What may be kept when another window, or the same, is active.
KeptWhenActive(w) ==
  IF w = active THEN {kept}
  ELSE {(kept \ DropsInactive(active)) \ dropped : dropped \in SUBSET DropsActive(w)}

Activate(w) == active' = w /\ kept' \in KeptWhenActive(w)

\* What may be active when a window goes: Windows picks another if it was that one.
ActiveWithout(d) ==
  IF active = d THEN {w \in Dialogs \ {d} : wnd[w] = "shown"} \cup {Other} ELSE {active}

-----------------------------------------------------------------------------
(* What the control does with a dialog                                     *)

\* Mutant: only the first window of the control tells its dialogs of it.
InitializeOnce == IF \E d \in Dialogs : knows[d] THEN knows ELSE [w \in Windows |-> w \in Dialogs]

\* Initialize of every dialog; Modify's tabs are told when they are created.
Initialize == [w \in Windows |-> w \in Dialogs \/ knows[w]]

\* A window, Modify's with its tabs, to which it hands on what it knows.
CreateDlg(d, state) ==
  /\ wnd' = [wnd EXCEPT ![d] = state]
  /\ knows' = [w \in Windows |-> IF w \in WindowsOf(d) THEN knows[d] ELSE knows[w]]

\* DestroyWindow, if there is a window, which gets inactive before its WM_DESTROY.
DestroyDlg(d) ==
  IF wnd[d] = "none" THEN UNCHANGED <<wnd, active, knows, noEsc, kept>>
  ELSE /\ wnd' = [wnd EXCEPT ![d] = "none"]
       /\ knows' = [w \in Windows |-> knows[w] /\ (w \in WindowsOf(d) => ~AtDestroy(w).forgets)]
       /\ noEsc' = [w \in Windows |-> noEsc[w] /\ w \notin WindowsOf(d)]
       /\ active' \in ActiveWithout(d)
       /\ \E left \in KeptWhenActive(active') :
            kept' = left \ UNION {AtDestroy(w).drops : w \in WindowsOf(d)}

\* Mutant: Modify keeps the flags to itself.
FlagsToParent(d) == {d}

\* Who gets the flags of SetDlgProperties: Modify hands them on to its tabs.
FlagsTo(d) == WindowsOf(d)

\* ClearData: the search forgets its results, if it has a window.
Cleared == IF wnd["SEARCH"] = "none" THEN kept ELSE kept \ {"results"}

-----------------------------------------------------------------------------
(* The client                                                              *)

Create ==
  /\ phase = "none"
  /\ phase' = "live"
  /\ knows' = Initialize
  /\ asked' = [d \in Dialogs |-> FALSE]
  /\ last' = Nothing
  /\ UNCHANGED <<todo, wnd, active, noEsc, dataSet, kept>>

\* GetWndHandle(d, true); the dialogs' windows are made hidden.
GetWndHandle(d) ==
  /\ phase = "live" /\ wnd[d] = "none"
  /\ CreateDlg(d, "hidden")
  /\ last' = Nothing
  /\ UNCHANGED <<phase, todo, active, noEsc, dataSet, kept, asked>>

SetDlgProperties(d, flag) ==
  /\ phase = "live"
  /\ noEsc' = [w \in Windows |-> IF w \in FlagsTo(d) THEN flag ELSE noEsc[w]]
  /\ asked' = [asked EXCEPT ![d] = flag]
  /\ last' = Nothing
  /\ UNCHANGED <<phase, todo, wnd, active, knows, dataSet, kept>>

\* SetData, which clears the data before, and ClearData.
ChangeData(set) ==
  /\ phase = "live"
  /\ dataSet' = set
  /\ kept' = Cleared
  /\ last' = Nothing
  /\ UNCHANGED <<phase, todo, wnd, active, knows, noEsc, asked>>

-----------------------------------------------------------------------------
(* The user                                                                *)

\* The commands that open dialogs (IsCmdAvail): the others open without data.
NeedsData == Dialogs \ {"CODEPAGE", "TEMPLMGR"}

\* ShowWindow(SW_SHOW), which creates the window if there is none.
OpenDialog(d) ==
  /\ phase = "live"
  /\ d \in NeedsData => dataSet
  /\ IF wnd[d] = "none" THEN CreateDlg(d, "shown")
     ELSE wnd' = [wnd EXCEPT ![d] = "shown"] /\ UNCHANGED knows
  /\ Activate(d)
  /\ last' = Nothing
  /\ UNCHANGED <<phase, todo, noEsc, dataSet, asked>>

\* The user comes to a dialog that is shown, or leaves them all.
SwitchTo(w) ==
  /\ phase = "live"
  /\ w = Other \/ (w \in Dialogs /\ wnd[w] = "shown")
  /\ Activate(w)
  /\ last' = Nothing
  /\ UNCHANGED <<phase, todo, wnd, knows, noEsc, dataSet, asked>>

Hide(d) ==
  /\ wnd' = [wnd EXCEPT ![d] = "hidden"]
  /\ active' \in ActiveWithout(d)
  /\ kept' \in KeptWhenActive(active')

\* OnCancel, reached by Esc and in the code page's dialog by Enter.
HidesOn(w, id) == id \in Hides(w) /\ ~noEsc[w]

\* Esc or Enter in the active dialog or, of Modify's windows, in the tab that is
\* shown: IsDialogMessage makes a WM_COMMAND of it.
Press(w, id) ==
  /\ phase = "live" /\ active = DialogOf(w)
  /\ "COMMAND" \in Takes(w)
  /\ HidesOn(w, id)
  /\ Hide(DialogOf(w))
  /\ last' = <<"COMMAND", DialogOf(w)>>
  /\ UNCHANGED <<phase, todo, knows, noEsc, dataSet, asked>>

\* The button in the caption of the active dialog.
OnClose(d) ==
  /\ phase = "live" /\ active = d
  /\ "CLOSE" \in Takes(d)
  /\ Hide(d)
  /\ last' = <<"CLOSE", d>>
  /\ UNCHANGED <<phase, todo, knows, noEsc, dataSet, asked>>

\* The dialogs' work that leaves something with the control or for its commands:
\* a row selected, an offset gone to, matches found.
LeavesOf(d) ==
  CASE d = "DATAINTERP" -> {"highlight"} [] d = "GOTO" -> {"repeat"}
    [] d = "SEARCH" -> {"results"} [] OTHER -> {}

Use(d) ==
  /\ phase = "live" /\ dataSet
  /\ active = d
  /\ kept' \in {kept \cup LeavesOf(d), kept \ LeavesOf(d)}
  /\ last' = Nothing
  /\ UNCHANGED <<phase, todo, wnd, active, knows, noEsc, dataSet, asked>>

\* CMD_NAV_REPFWD and CMD_NAV_REPBKW, of a dialog that may be hidden: a text that
\* is no number any more ends it.
RepeatGoTo ==
  /\ phase = "live" /\ dataSet
  /\ "repeat" \in kept
  /\ kept' \in {kept, kept \ {"repeat"}}
  /\ last' = Nothing
  /\ UNCHANGED <<phase, todo, wnd, active, knows, noEsc, dataSet, asked>>

-----------------------------------------------------------------------------
(* The end of the control's window                                         *)

\* Mutant: the Go To dialog's window is left to Windows.
DestroyMost == <<"BKMMGR", "CODEPAGE", "DATAINTERP", "MODIFY", "SEARCH", "TEMPLMGR">>

DestroyOrder == <<"BKMMGR", "CODEPAGE", "DATAINTERP", "MODIFY", "GOTO", "SEARCH", "TEMPLMGR">>

DestroyWindow ==
  /\ phase = "live"
  /\ phase' = "owned"
  /\ last' = Nothing
  /\ UNCHANGED <<todo, wnd, active, knows, noEsc, dataSet, kept, asked>>

\* Windows destroys the windows the control's owns, or does not.
DestroyOwned(d) ==
  /\ phase = "owned" /\ wnd[d] # "none"
  /\ DestroyDlg(d)
  /\ UNCHANGED <<phase, todo, dataSet, asked, last>>

\* OnDestroy, to its end without any other step: the data, the dialogs in their
\* order, and at last m_fCreated.
OnDestroy ==
  /\ phase = "owned"
  /\ phase' = "handler"
  /\ todo' = DestroyOrder
  /\ dataSet' = FALSE
  /\ kept' = Cleared
  /\ UNCHANGED <<wnd, active, knows, noEsc, asked, last>>

DestroyNext ==
  /\ phase = "handler" /\ todo # <<>>
  /\ DestroyDlg(Head(todo))
  /\ todo' = Tail(todo)
  /\ UNCHANGED <<phase, dataSet, asked, last>>

Destroyed ==
  /\ phase = "handler" /\ todo = <<>>
  /\ phase' = "none"
  /\ UNCHANGED <<todo, wnd, active, knows, noEsc, dataSet, kept, asked, last>>

-----------------------------------------------------------------------------
(* The specification                                                       *)

DialogsInit ==
  /\ phase = "none" /\ todo = <<>>
  /\ wnd = [d \in Dialogs |-> "none"] /\ active = Other
  /\ knows = [w \in Windows |-> FALSE]
  /\ noEsc = [w \in Windows |-> FALSE]
  /\ dataSet = FALSE /\ kept = {}
  /\ asked = [d \in Dialogs |-> FALSE] /\ last = Nothing

ClientNext ==
  \/ Create \/ DestroyWindow
  \/ \E set \in BOOLEAN : ChangeData(set)
  \/ \E d \in Dialogs : GetWndHandle(d) \/ \E flag \in BOOLEAN : SetDlgProperties(d, flag)

UserNext ==
  \/ RepeatGoTo
  \/ \E w \in Dialogs \cup {Other} : SwitchTo(w)
  \/ \E w \in Windows : \E id \in {"OK", "CANCEL"} : Press(w, id)
  \/ \E d \in Dialogs : OpenDialog(d) \/ OnClose(d) \/ Use(d)

EndNext ==
  \/ OnDestroy \/ DestroyNext \/ Destroyed
  \/ \E d \in Dialogs : DestroyOwned(d)

DialogsNext == ClientNext \/ UserNext \/ EndNext

DialogsSpec == DialogsInit /\ [][DialogsNext]_dialogVars

-----------------------------------------------------------------------------
(* Properties                                                              *)

\* A dialog that a user or a client may open, and any window it has, knows the
\* control, in each life of the control's window: CreateDlg and most handlers
\* use m_pHexCtrl unasked.
DialogsKnowControl ==
  /\ phase = "live" => \A d \in Dialogs : knows[d]
  /\ \A d \in Dialogs : wnd[d] # "none" => Created /\ \A w \in WindowsOf(d) : knows[w]

\* Nothing of the dialogs outlives the control's window, whether Windows or
\* OnDestroy destroyed them: neither a window nor what they left with the control.
NothingOutlives == phase = "none" => active = Other /\ kept = {} /\ \A d \in Dialogs : wnd[d] = "none"

\* The control shows the interpreter's highlight only while that dialog is
\* active, and its commands repeat or show results only of a dialog with a window.
KeptByItsDialog ==
  /\ "highlight" \in kept => active = "DATAINTERP"
  /\ "repeat" \in kept => wnd["GOTO"] # "none"
  /\ "results" \in kept => wnd["SEARCH"] # "none"
  /\ active # Other => wnd[active] = "shown"

\* Dialogs, their windows and the control agree, through any lives of each.
WindowsAgree == DialogsKnowControl /\ NothingOutlives /\ KeptByItsDialog

\* A dialog that its client asked not to close on Esc is hidden by the button of
\* its caption only, whenever it was asked and whichever window had the focus.
EscAsAsked ==
  [][\A d \in Dialogs :
       (asked[d] /\ wnd[d] = "shown" /\ wnd'[d] = "hidden") => last' = <<"CLOSE", d>>]_dialogVars

\* The dialogs live and close as control, client and user ask.
DialogsAsAsked == []WindowsAgree /\ EscAsAsked

=============================================================================
