------------------------- MODULE HexDialogs_proofs --------------------------
(***************************************************************************)
(* Theorems about the dialogs' windows (HexDialogs), for any number of     *)
(* dialogs open at once, and about the code page dialog (HexCodepage), for *)
(* any code pages a system has.                                            *)
(***************************************************************************)
EXTENDS HexDialogs, HexCodepage, FiniteSetTheorems, TLAPS

-----------------------------------------------------------------------------
(* The dialogs' windows: the inductive invariant                           *)

DialogsTypeOK ==
  /\ phase \in {"none", "live", "owned", "handler"}
  /\ todo \in Seq(Dialogs)
  /\ wnd \in [Dialogs -> {"none", "hidden", "shown"}]
  /\ active \in Dialogs \cup {Other}
  /\ knows \in [Windows -> BOOLEAN] /\ noEsc \in [Windows -> BOOLEAN]
  /\ dataSet \in BOOLEAN
  /\ kept \subseteq {"highlight", "repeat", "results"}
  /\ asked \in [Dialogs -> BOOLEAN]

\* While OnDestroy runs, each dialog with a window still has its turn.
TurnToCome == phase = "handler" => \A d \in Dialogs : wnd[d] # "none" => \E i \in 1..Len(todo) : todo[i] = d

\* The windows of a dialog that is not to close on Esc all have the flag.
FlagsHeld == phase = "live" => \A d \in Dialogs : asked[d] => \A w \in WindowsOf(d) : noEsc[w]

DialogsInv ==
  /\ DialogsTypeOK
  /\ DialogsKnowControl
  /\ KeptByItsDialog
  /\ NothingOutlives
  /\ TurnToCome
  /\ FlagsHeld

-----------------------------------------------------------------------------
(* Activation and the end of a window                                      *)

\* The windows of dialogs share none, and a dialog is one of its windows.
LEMMA WindowsFacts ==
  ASSUME NEW d \in Dialogs
  PROVE  /\ d \in WindowsOf(d) /\ WindowsOf(d) \subseteq Windows
         /\ \A e \in Dialogs \ {d} : WindowsOf(d) \cap WindowsOf(e) = {}
         /\ \A w \in Windows : DialogOf(w) \in Dialogs /\ w \in WindowsOf(DialogOf(w))
BY DEF WindowsOf, DialogOf, Windows, Tabs, Dialogs

\* An activation only drops, and the interpreter's highlight is dropped when
\* another window gets active.
LEMMA ActivationKeeps ==
  ASSUME DialogsInv, NEW w \in Dialogs \cup {Other}, NEW left \in KeptWhenActive(w)
  PROVE  left \subseteq kept /\ ("highlight" \in left => w = "DATAINTERP")
<1>1. left \subseteq kept
  BY DEF KeptWhenActive
<1>2. CASE w = active
  BY <1>2, <1>1 DEF DialogsInv, KeptByItsDialog
<1>3. CASE w # active /\ active = "DATAINTERP"
  <2>1. wnd["DATAINTERP"] # "none" /\ "DATAINTERP" \in Dialogs
    BY <1>3 DEF DialogsInv, KeptByItsDialog, Other, Dialogs
  <2>2. Listens("DATAINTERP")
    <3>1. Created /\ knows["DATAINTERP"]
      BY <2>1, WindowsFacts DEF DialogsInv, DialogsKnowControl
    <3> QED BY <3>1 DEF Listens, Takes, DataInterpTakes
  <2>3. "highlight" \notin left
    BY <1>3, <2>2 DEF KeptWhenActive, DropsInactive, DataInterpInactive
  <2> QED BY <1>1, <2>3
<1>4. CASE w # active /\ active # "DATAINTERP"
  BY <1>4, <1>1 DEF DialogsInv, KeptByItsDialog
<1> QED BY <1>2, <1>3, <1>4

\* Of what is kept the three dialogs' parts still are, whatever window gets active,
\* as long as the dialogs' windows stay.
LEMMA ActivationInv ==
  ASSUME DialogsInv, NEW w \in Dialogs \cup {Other}, Activate(w), UNCHANGED <<phase, todo, dataSet>>,
         wnd' \in [Dialogs -> {"none", "hidden", "shown"}],
         \A d \in Dialogs : wnd[d] # "none" => wnd'[d] # "none",
         w # Other => wnd'[w] = "shown"
  PROVE  /\ active' \in Dialogs \cup {Other}
         /\ kept' \subseteq {"highlight", "repeat", "results"}
         /\ KeptByItsDialog'
<1>1. active' = w /\ kept' \in KeptWhenActive(w)
  BY DEF Activate
<1>2. kept' \subseteq kept /\ ("highlight" \in kept' => w = "DATAINTERP")
  BY <1>1, ActivationKeeps
<1>3. "GOTO" \in Dialogs /\ "SEARCH" \in Dialogs
  BY DEF Dialogs
<1> QED BY <1>1, <1>2, <1>3 DEF DialogsInv, DialogsTypeOK, KeptByItsDialog

\* The end of a dialog's window: it is gone, with what the dialog left, and the
\* other dialogs' windows stay as they were and know what they knew.
LEMMA DestroyDlgFacts ==
  ASSUME DialogsInv, NEW d \in Dialogs, DestroyDlg(d)
  PROVE  /\ wnd' \in [Dialogs -> {"none", "hidden", "shown"}]
         /\ wnd'[d] = "none" /\ \A e \in Dialogs \ {d} : wnd'[e] = wnd[e]
         /\ knows' \in [Windows -> BOOLEAN] /\ noEsc' \in [Windows -> BOOLEAN]
         /\ \A e \in Dialogs \ {d} : \A w \in WindowsOf(e) : knows'[w] = knows[w]
         /\ active' \in Dialogs \cup {Other}
         /\ kept' \subseteq {"highlight", "repeat", "results"}
         /\ KeptByItsDialog'
<1>0. "GOTO" \in Dialogs /\ "SEARCH" \in Dialogs /\ Other \notin Dialogs
  BY DEF Dialogs, Other
<1>1. CASE wnd[d] = "none"
  <2>1. UNCHANGED <<wnd, active, knows, noEsc, kept>>
    BY <1>1 DEF DestroyDlg
  <2> QED BY <1>1, <2>1 DEF DialogsInv, DialogsTypeOK, KeptByItsDialog
<1>2. CASE wnd[d] # "none"
  <2>1. /\ wnd' = [wnd EXCEPT ![d] = "none"]
        /\ knows' = [w \in Windows |-> knows[w] /\ (w \in WindowsOf(d) => ~AtDestroy(w).forgets)]
        /\ noEsc' = [w \in Windows |-> noEsc[w] /\ w \notin WindowsOf(d)]
        /\ active' \in ActiveWithout(d)
    BY <1>2 DEF DestroyDlg
  <2>2. PICK left \in KeptWhenActive(active') :
          kept' = left \ UNION {AtDestroy(w).drops : w \in WindowsOf(d)}
    BY <1>2 DEF DestroyDlg
  <2>3. wnd' \in [Dialogs -> {"none", "hidden", "shown"}] /\ wnd'[d] = "none"
        /\ \A e \in Dialogs \ {d} : wnd'[e] = wnd[e]
    BY <2>1 DEF DialogsInv, DialogsTypeOK
  <2>4. knows' \in [Windows -> BOOLEAN] /\ noEsc' \in [Windows -> BOOLEAN]
    BY <2>1, Zenon DEF DialogsInv, DialogsTypeOK
  <2>5. \A e \in Dialogs \ {d} : \A w \in WindowsOf(e) : knows'[w] = knows[w]
    <3> SUFFICES ASSUME NEW e \in Dialogs \ {d}, NEW w \in WindowsOf(e)
                 PROVE  knows'[w] = knows[w]
      OBVIOUS
    <3>1. w \in Windows /\ w \notin WindowsOf(d)
      BY WindowsFacts
    <3>2. knows'[w] = (knows[w] /\ TRUE)
      BY <2>1, <3>1, Zenon
    <3>3. knows[w] \in BOOLEAN
      BY <3>1 DEF DialogsInv, DialogsTypeOK
    <3> QED BY <3>2, <3>3
  <2>6. active' \in Dialogs \cup {Other} /\ (active' # Other => wnd'[active'] = "shown")
    <3>1. CASE active = d
      BY <2>1, <2>3, <3>1 DEF ActiveWithout
    <3>2. CASE active # d
      BY <2>1, <2>3, <3>2 DEF ActiveWithout, DialogsInv, DialogsTypeOK, KeptByItsDialog
    <3> QED BY <3>1, <3>2
  <2>7. left \subseteq kept /\ ("highlight" \in left => active' = "DATAINTERP")
    BY <2>2, <2>6, ActivationKeeps
  <2>8. "repeat" \in kept' => wnd'["GOTO"] # "none"
    <3>1. CASE d = "GOTO"
      <4>1. d \in WindowsOf(d) /\ "repeat" \in AtDestroy(d).drops
        BY <3>1, WindowsFacts DEF AtDestroy, GoToDestroy
      <4> QED BY <2>2, <4>1
    <3>2. CASE d # "GOTO"
      BY <1>0, <2>2, <2>3, <2>7, <3>2 DEF DialogsInv, KeptByItsDialog
    <3> QED BY <3>1, <3>2
  <2>9. "results" \in kept' => wnd'["SEARCH"] # "none"
    <3>1. CASE d = "SEARCH"
      <4>1. d \in WindowsOf(d) /\ "results" \in AtDestroy(d).drops
        BY <3>1, WindowsFacts DEF AtDestroy, SearchDestroy
      <4> QED BY <2>2, <4>1
    <3>2. CASE d # "SEARCH"
      BY <1>0, <2>2, <2>3, <2>7, <3>2 DEF DialogsInv, KeptByItsDialog
    <3> QED BY <3>1, <3>2
  <2>10. kept' \subseteq {"highlight", "repeat", "results"} /\ ("highlight" \in kept' => active' = "DATAINTERP")
    BY <2>2, <2>7 DEF DialogsInv, DialogsTypeOK
  <2> QED BY <2>3, <2>4, <2>5, <2>6, <2>8, <2>9, <2>10 DEF KeptByItsDialog
<1> QED BY <1>1, <1>2

-----------------------------------------------------------------------------
(* The invariant holds of every step                                       *)

LEMMA DialogsInvInit == DialogsInit => DialogsInv
<1> SUFFICES ASSUME DialogsInit PROVE DialogsInv
  OBVIOUS
<1>1. /\ phase = "none" /\ todo = <<>> /\ active = Other /\ dataSet = FALSE /\ kept = {}
      /\ wnd \in [Dialogs -> {"none", "hidden", "shown"}] /\ \A d \in Dialogs : wnd[d] = "none"
  BY DEF DialogsInit
<1>2. knows \in [Windows -> BOOLEAN] /\ noEsc \in [Windows -> BOOLEAN] /\ asked \in [Dialogs -> BOOLEAN]
  BY Zenon DEF DialogsInit
<1>3. DialogsTypeOK
  <2>1. todo \in Seq(Dialogs)
    BY <1>1
  <2>2. active \in Dialogs \cup {Other} /\ kept \subseteq {"highlight", "repeat", "results"}
    BY <1>1
  <2> QED BY <1>1, <1>2, <2>1, <2>2 DEF DialogsTypeOK
<1>4. DialogsKnowControl /\ TurnToCome /\ FlagsHeld
  BY <1>1 DEF DialogsKnowControl, TurnToCome, FlagsHeld
<1>5. KeptByItsDialog /\ NothingOutlives
  BY <1>1 DEF KeptByItsDialog, NothingOutlives
<1> QED BY <1>3, <1>4, <1>5 DEF DialogsInv

\* A new window, its tabs' with it, knows what the dialog knows.
LEMMA CreateDlgFacts ==
  ASSUME DialogsInv, NEW d \in Dialogs, NEW state \in {"hidden", "shown"}, wnd[d] = "none",
         phase = "live", CreateDlg(d, state)
  PROVE  /\ wnd' \in [Dialogs -> {"none", "hidden", "shown"}]
         /\ wnd'[d] = state /\ \A e \in Dialogs \ {d} : wnd'[e] = wnd[e]
         /\ knows' \in [Windows -> BOOLEAN]
         /\ \A e \in Dialogs : knows'[e]
         /\ \A e \in Dialogs : wnd'[e] # "none" => \A w \in WindowsOf(e) : knows'[w]
<1>1. wnd' = [wnd EXCEPT ![d] = state]
      /\ knows' = [w \in Windows |-> IF w \in WindowsOf(d) THEN knows[d] ELSE knows[w]]
  BY DEF CreateDlg
<1>2. wnd' \in [Dialogs -> {"none", "hidden", "shown"}] /\ wnd'[d] = state
      /\ \A e \in Dialogs \ {d} : wnd'[e] = wnd[e]
  BY <1>1 DEF DialogsInv, DialogsTypeOK
<1>3. \A e \in Dialogs : knows[e] /\ e \in Windows
  BY DEF DialogsInv, DialogsKnowControl, Windows
<1>4. knows' \in [Windows -> BOOLEAN] /\ \A e \in Dialogs : knows'[e]
  BY <1>1, <1>3, Zenon DEF DialogsInv, DialogsTypeOK
<1>5. \A w \in WindowsOf(d) : knows'[w]
  BY <1>1, <1>3, WindowsFacts, Zenon
<1>6. ASSUME NEW e \in Dialogs \ {d}, wnd'[e] # "none", NEW w \in WindowsOf(e)
      PROVE  knows'[w]
  <2>1. knows[w] /\ w \in Windows
    BY <1>2, <1>6, WindowsFacts DEF DialogsInv, DialogsKnowControl
  <2> QED BY <1>1, <1>3, <2>1, Zenon
<1> QED BY <1>2, <1>4, <1>5, <1>6

\* What a client does.
LEMMA ClientInv == ASSUME DialogsInv, ClientNext PROVE DialogsInv'
<1> USE DEF DialogsInv
<1>1. CASE Create
  <2>1. knows' \in [Windows -> BOOLEAN] /\ \A d \in Dialogs : knows'[d]
    BY <1>1, Zenon DEF Create, Initialize, DialogsTypeOK, Windows
  <2>2. \A d \in Dialogs : wnd'[d] = "none"
    BY <1>1 DEF Create, NothingOutlives
  <2>3. asked' \in [Dialogs -> BOOLEAN] /\ \A d \in Dialogs : ~asked'[d]
    BY <1>1 DEF Create
  <2> QED
    BY <1>1, <2>1, <2>2, <2>3 DEF Create, DialogsTypeOK, DialogsKnowControl, KeptByItsDialog,
       NothingOutlives, TurnToCome, FlagsHeld
<1>2. CASE DestroyWindow
  BY <1>2 DEF DestroyWindow, DialogsTypeOK, DialogsKnowControl, KeptByItsDialog, NothingOutlives,
     TurnToCome, FlagsHeld, Created
<1>3. ASSUME NEW set \in BOOLEAN, ChangeData(set) PROVE DialogsInv'
  <2>1. kept' \subseteq kept
    BY <1>3 DEF ChangeData, Cleared
  <2> QED
    BY <1>3, <2>1 DEF ChangeData, DialogsTypeOK, DialogsKnowControl, KeptByItsDialog,
       NothingOutlives, TurnToCome, FlagsHeld, Created
<1>4. ASSUME NEW d \in Dialogs, GetWndHandle(d) PROVE DialogsInv'
  <2>1. phase = "live" /\ wnd[d] = "none" /\ CreateDlg(d, "hidden")
        /\ UNCHANGED <<phase, todo, active, noEsc, dataSet, kept, asked>>
    BY <1>4 DEF GetWndHandle
  <2>2. "GOTO" \in Dialogs /\ "SEARCH" \in Dialogs
    BY DEF Dialogs
  <2> QED
    BY <2>1, <2>2, CreateDlgFacts DEF DialogsTypeOK, DialogsKnowControl, KeptByItsDialog,
       NothingOutlives, TurnToCome, FlagsHeld, Created
<1>5. ASSUME NEW d \in Dialogs, NEW flag \in BOOLEAN, SetDlgProperties(d, flag) PROVE DialogsInv'
  <2>1. /\ phase = "live" /\ asked' = [asked EXCEPT ![d] = flag]
        /\ noEsc' = [w \in Windows |-> IF w \in FlagsTo(d) THEN flag ELSE noEsc[w]]
        /\ UNCHANGED <<phase, todo, wnd, active, knows, dataSet, kept>>
    BY <1>5 DEF SetDlgProperties
  <2>2. noEsc' \in [Windows -> BOOLEAN] /\ asked' \in [Dialogs -> BOOLEAN]
    BY <2>1, Zenon DEF DialogsTypeOK
  <2>3. ASSUME NEW e \in Dialogs, asked'[e], NEW w \in WindowsOf(e) PROVE noEsc'[w]
    <3>1. CASE e = d
      BY <2>1, <2>3, <3>1, WindowsFacts, Zenon DEF FlagsTo, DialogsTypeOK
    <3>2. CASE e # d
      <4>1. asked[e] /\ noEsc[w] /\ w \in Windows /\ w \notin WindowsOf(d)
        BY <2>1, <2>3, <3>2, WindowsFacts DEF DialogsTypeOK, FlagsHeld
      <4> QED BY <2>1, <4>1, Zenon DEF FlagsTo
    <3> QED BY <3>1, <3>2
  <2> QED
    BY <2>1, <2>2, <2>3 DEF DialogsTypeOK, DialogsKnowControl, KeptByItsDialog, NothingOutlives,
       TurnToCome, FlagsHeld, Created
<1> QED BY <1>1, <1>2, <1>3, <1>4, <1>5 DEF ClientNext

\* A dialog that is hidden, by whatever hides it.
LEMMA HideInv ==
  ASSUME DialogsInv, NEW d \in Dialogs, wnd[d] = "shown", Hide(d),
         phase = "live", UNCHANGED <<phase, todo, knows, noEsc, dataSet, asked>>
  PROVE  DialogsInv'
<1> USE DEF DialogsInv
<1>1. wnd' = [wnd EXCEPT ![d] = "hidden"] /\ active' \in ActiveWithout(d) /\ Activate(active')
  BY DEF Hide, Activate
<1>2. wnd' \in [Dialogs -> {"none", "hidden", "shown"}]
      /\ \A e \in Dialogs : (wnd[e] # "none" <=> wnd'[e] # "none") /\ (e # d => wnd'[e] = wnd[e])
  BY <1>1 DEF DialogsTypeOK
<1>3. active' \in Dialogs \cup {Other} /\ (active' # Other => wnd'[active'] = "shown")
  <2>1. CASE active = d
    BY <1>1, <1>2, <2>1 DEF ActiveWithout
  <2>2. CASE active # d
    BY <1>1, <1>2, <2>2 DEF ActiveWithout, DialogsTypeOK, KeptByItsDialog
  <2> QED BY <2>1, <2>2
<1>4. kept' \subseteq {"highlight", "repeat", "results"} /\ KeptByItsDialog'
  BY <1>1, <1>2, <1>3, ActivationInv
<1> QED
  BY <1>2, <1>3, <1>4 DEF DialogsTypeOK, DialogsKnowControl, NothingOutlives, TurnToCome, FlagsHeld, Created

\* What a user does.
LEMMA UserInv == ASSUME DialogsInv, UserNext PROVE DialogsInv'
<1> USE DEF DialogsInv
<1>0. "GOTO" \in Dialogs /\ "SEARCH" \in Dialogs /\ "DATAINTERP" \in Dialogs /\ Other \notin Dialogs
  BY DEF Dialogs, Other
<1>1. CASE RepeatGoTo
  BY <1>1 DEF RepeatGoTo, DialogsTypeOK, DialogsKnowControl, KeptByItsDialog, NothingOutlives,
     TurnToCome, FlagsHeld, Created
<1>2. ASSUME NEW w \in Dialogs \cup {Other}, SwitchTo(w) PROVE DialogsInv'
  <2>1. /\ phase = "live" /\ Activate(w) /\ (w # Other => wnd[w] = "shown")
        /\ UNCHANGED <<phase, todo, wnd, knows, noEsc, dataSet, asked>>
    BY <1>2 DEF SwitchTo
  <2>2. /\ active' \in Dialogs \cup {Other}
        /\ kept' \subseteq {"highlight", "repeat", "results"} /\ KeptByItsDialog'
    BY <2>1, ActivationInv DEF DialogsTypeOK
  <2> QED
    BY <2>1, <2>2 DEF DialogsTypeOK, DialogsKnowControl, NothingOutlives, TurnToCome, FlagsHeld, Created
<1>3. ASSUME NEW w \in Windows, NEW id \in {"OK", "CANCEL"}, Press(w, id) PROVE DialogsInv'
  <2>1. DialogOf(w) \in Dialogs /\ wnd[DialogOf(w)] = "shown"
    BY <1>0, <1>3, WindowsFacts DEF Press, KeptByItsDialog, Other
  <2> QED BY <1>3, <2>1, HideInv DEF Press
<1>4. ASSUME NEW d \in Dialogs, OnClose(d) PROVE DialogsInv'
  <2>1. wnd[d] = "shown"
    BY <1>0, <1>4 DEF OnClose, KeptByItsDialog
  <2> QED BY <1>4, <2>1, HideInv DEF OnClose
<1>5. ASSUME NEW d \in Dialogs, OpenDialog(d) PROVE DialogsInv'
  <2>1. /\ phase = "live" /\ Activate(d)
        /\ UNCHANGED <<phase, todo, noEsc, dataSet, asked>>
        /\ IF wnd[d] = "none" THEN CreateDlg(d, "shown")
           ELSE wnd' = [wnd EXCEPT ![d] = "shown"] /\ UNCHANGED knows
    BY <1>5 DEF OpenDialog
  <2>2. /\ wnd' \in [Dialogs -> {"none", "hidden", "shown"}]
        /\ wnd'[d] = "shown" /\ \A e \in Dialogs \ {d} : wnd'[e] = wnd[e]
        /\ knows' \in [Windows -> BOOLEAN]
        /\ \A e \in Dialogs : knows'[e]
        /\ \A e \in Dialogs : wnd'[e] # "none" => \A w \in WindowsOf(e) : knows'[w]
    <3>1. CASE wnd[d] = "none"
      BY <2>1, <3>1, CreateDlgFacts
    <3>2. CASE wnd[d] # "none"
      BY <2>1, <3>2 DEF DialogsTypeOK, DialogsKnowControl
    <3> QED BY <3>1, <3>2
  <2>3. /\ active' \in Dialogs \cup {Other}
        /\ kept' \subseteq {"highlight", "repeat", "results"} /\ KeptByItsDialog'
    BY <2>1, <2>2, ActivationInv
  <2> QED
    BY <2>1, <2>2, <2>3 DEF DialogsTypeOK, DialogsKnowControl, NothingOutlives, TurnToCome, FlagsHeld, Created
<1>6. ASSUME NEW d \in Dialogs, Use(d) PROVE DialogsInv'
  <2>1. wnd[d] = "shown" /\ active = d
    BY <1>0, <1>6 DEF Use, KeptByItsDialog
  <2>2. \A what \in kept' :
          \/ what \in kept
          \/ what = "highlight" /\ d = "DATAINTERP"
          \/ what = "repeat" /\ d = "GOTO"
          \/ what = "results" /\ d = "SEARCH"
    <3>1. LeavesOf(d) = IF d = "DATAINTERP" THEN {"highlight"} ELSE IF d = "GOTO" THEN {"repeat"}
                        ELSE IF d = "SEARCH" THEN {"results"} ELSE {}
      BY DEF LeavesOf
    <3>2. kept' = kept \cup LeavesOf(d) \/ kept' = kept \ LeavesOf(d)
      BY <1>6 DEF Use
    <3>3. \A what \in kept' : what \in kept \/ what \in LeavesOf(d)
      BY <3>2
    <3> QED BY <3>1, <3>3
  <2> QED
    BY <1>6, <2>1, <2>2 DEF Use, DialogsTypeOK, DialogsKnowControl, KeptByItsDialog, NothingOutlives,
       TurnToCome, FlagsHeld, Created
<1> QED BY <1>1, <1>2, <1>3, <1>4, <1>5, <1>6 DEF UserNext

\* The end of the control's window: each dialog has its turn.
LEMMA EndInv == ASSUME DialogsInv, EndNext PROVE DialogsInv'
<1> USE DEF DialogsInv
<1>0. "GOTO" \in Dialogs /\ "SEARCH" \in Dialogs /\ "DATAINTERP" \in Dialogs /\ Other \notin Dialogs
  BY DEF Dialogs, Other
<1>1. CASE OnDestroy
  <2>1. kept' \subseteq kept
    BY <1>1 DEF OnDestroy, Cleared
  <2>2. todo' = DestroyOrder /\ DestroyOrder \in Seq(Dialogs)
        /\ \A d \in Dialogs : \E i \in 1..Len(DestroyOrder) : DestroyOrder[i] = d
    BY <1>1 DEF OnDestroy, DestroyOrder, Dialogs
  <2> QED
    BY <1>1, <2>1, <2>2 DEF OnDestroy, DialogsTypeOK, DialogsKnowControl, KeptByItsDialog,
       NothingOutlives, TurnToCome, FlagsHeld, Created
<1>2. CASE DestroyNext
  <2>1. /\ phase = "handler" /\ todo # <<>> /\ DestroyDlg(Head(todo)) /\ todo' = Tail(todo)
        /\ UNCHANGED <<phase, dataSet, asked, last>>
    BY <1>2 DEF DestroyNext
  <2>2. /\ Head(todo) \in Dialogs /\ Head(todo) = todo[1] /\ Tail(todo) \in Seq(Dialogs)
        /\ Len(todo) \in Nat \ {0} /\ Len(Tail(todo)) = Len(todo) - 1
        /\ \A i \in 1..Len(todo) - 1 : Tail(todo)[i] = todo[i + 1]
    BY <2>1 DEF DialogsTypeOK
  <2> DEFINE d == Head(todo)
  <2>3. ASSUME NEW e \in Dialogs, wnd'[e] # "none"
        PROVE  /\ \A w \in WindowsOf(e) : knows'[w]
               /\ \E i \in 1..Len(Tail(todo)) : Tail(todo)[i] = e
    <3>1. e # d /\ wnd[e] # "none" /\ \A w \in WindowsOf(e) : knows'[w] = knows[w]
      BY <2>1, <2>2, <2>3, DestroyDlgFacts
    <3>2. PICK i \in 1..Len(todo) : todo[i] = e
      BY <2>1, <3>1 DEF TurnToCome
    <3>3. i - 1 \in 1..Len(todo) - 1
      BY <2>2, <3>1, <3>2
    <3>4. Tail(todo)[i - 1] = todo[(i - 1) + 1]
      BY <2>2, <3>3
    <3>5. Tail(todo)[i - 1] = e
      <4>1. (i - 1) + 1 = i
        BY <2>2, <3>2
      <4> QED BY <3>2, <3>4, <4>1
    <3> QED BY <2>2, <3>1, <3>3, <3>5 DEF DialogsKnowControl
  <2>4. /\ wnd' \in [Dialogs -> {"none", "hidden", "shown"}]
        /\ knows' \in [Windows -> BOOLEAN] /\ noEsc' \in [Windows -> BOOLEAN]
        /\ active' \in Dialogs \cup {Other}
        /\ kept' \subseteq {"highlight", "repeat", "results"} /\ KeptByItsDialog'
    BY <2>1, <2>2, DestroyDlgFacts
  <2> QED
    BY <2>1, <2>2, <2>3, <2>4 DEF DialogsTypeOK, DialogsKnowControl, NothingOutlives, TurnToCome,
       FlagsHeld, Created
<1>3. CASE Destroyed
  <2>1. phase = "handler" /\ todo = <<>> /\ phase' = "none"
        /\ UNCHANGED <<todo, wnd, active, knows, noEsc, dataSet, kept, asked>>
    BY <1>3 DEF Destroyed
  <2>2. \A d \in Dialogs : wnd[d] = "none"
    BY <2>1 DEF TurnToCome
  <2>3. active = Other
    BY <2>2 DEF DialogsTypeOK, KeptByItsDialog
  <2>4. kept = {}
    BY <1>0, <2>2, <2>3 DEF DialogsTypeOK, KeptByItsDialog
  <2> QED
    BY <2>1, <2>2, <2>3, <2>4 DEF DialogsTypeOK, DialogsKnowControl, KeptByItsDialog, NothingOutlives,
       TurnToCome, FlagsHeld, Created
<1>4. ASSUME NEW d \in Dialogs, DestroyOwned(d) PROVE DialogsInv'
  <2>1. phase = "owned" /\ DestroyDlg(d) /\ UNCHANGED <<phase, todo, dataSet, asked, last>>
    BY <1>4 DEF DestroyOwned
  <2>2. \A e \in Dialogs : wnd'[e] # "none" => \A w \in WindowsOf(e) : knows'[w]
    BY <2>1, DestroyDlgFacts DEF DialogsKnowControl
  <2>4. /\ wnd' \in [Dialogs -> {"none", "hidden", "shown"}]
        /\ knows' \in [Windows -> BOOLEAN] /\ noEsc' \in [Windows -> BOOLEAN]
        /\ active' \in Dialogs \cup {Other}
        /\ kept' \subseteq {"highlight", "repeat", "results"} /\ KeptByItsDialog'
    BY <2>1, DestroyDlgFacts
  <2> QED
    BY <2>1, <2>2, <2>4 DEF DialogsTypeOK, DialogsKnowControl, NothingOutlives, TurnToCome,
       FlagsHeld, Created
<1> QED BY <1>1, <1>2, <1>3, <1>4 DEF EndNext

LEMMA DialogsInvStep == DialogsInv /\ [DialogsNext]_dialogVars => DialogsInv'
<1> SUFFICES ASSUME DialogsInv, [DialogsNext]_dialogVars PROVE DialogsInv'
  OBVIOUS
<1>1. CASE UNCHANGED dialogVars
  BY <1>1 DEF dialogVars, DialogsInv, DialogsTypeOK, DialogsKnowControl, KeptByItsDialog,
     NothingOutlives, TurnToCome, FlagsHeld, Created
<1> QED BY <1>1, ClientInv, UserInv, EndInv DEF DialogsNext

LEMMA DialogsAlways == DialogsSpec => []DialogsInv
<1> QED BY DialogsInvInit, DialogsInvStep, PTL DEF DialogsSpec

\* In each life of the control's window the dialogs know the control, however the
\* last life ended and whichever windows there are.
THEOREM DialogsAlwaysKnowControl == DialogsSpec => []DialogsKnowControl
<1>1. DialogsInv => DialogsKnowControl
  BY DEF DialogsInv
<1> QED BY <1>1, DialogsAlways, PTL

\* What a dialog leaves with the control is gone with its window or activation.
THEOREM KeptByTheirDialogs == DialogsSpec => []KeptByItsDialog
<1>1. DialogsInv => KeptByItsDialog
  BY DEF DialogsInv
<1> QED BY <1>1, DialogsAlways, PTL

\* No dialog's window outlives the control's, whichever of them Windows destroys
\* before the control gets to.
THEOREM NothingOutlivesControl == DialogsSpec => []NothingOutlives
<1>1. DialogsInv => NothingOutlives
  BY DEF DialogsInv
<1> QED BY <1>1, DialogsAlways, PTL

\* Dialogs, windows and control agree, in whatever order any of them come and go.
THEOREM WindowsAlwaysAgree == DialogsSpec => []WindowsAgree
BY DialogsAlwaysKnowControl, KeptByTheirDialogs, NothingOutlivesControl, PTL DEF WindowsAgree

-----------------------------------------------------------------------------
(* Esc                                                                     *)

\* A dialog gets hidden by its caption's button or by a command that no flag forbids.
LEMMA HiddenByWhat ==
  ASSUME DialogsInv, DialogsNext, NEW d \in Dialogs, wnd[d] = "shown", wnd'[d] = "hidden"
  PROVE  \/ OnClose(d)
         \/ \E w \in Windows : \E id \in {"OK", "CANCEL"} : Press(w, id) /\ DialogOf(w) = d
<1> USE DEF DialogsInv
<1>1. CASE ClientNext
  <2>1. ASSUME NEW e \in Dialogs, GetWndHandle(e) PROVE wnd'[d] = wnd[d]
    <3>1. wnd[e] = "none" /\ wnd' = [wnd EXCEPT ![e] = "hidden"]
      BY <2>1 DEF GetWndHandle, CreateDlg
    <3> QED BY <3>1 DEF DialogsTypeOK
  <2> QED BY <1>1, <2>1 DEF ClientNext, Create, DestroyWindow, ChangeData, SetDlgProperties
<1>2. CASE EndNext
  <2>1. ASSUME NEW e \in Dialogs, DestroyDlg(e) PROVE wnd'[d] # "hidden"
    <3>1. wnd'[e] = "none" /\ (e # d => wnd'[d] = wnd[d])
      BY <2>1, DestroyDlgFacts
    <3> QED BY <3>1
  <2>2. CASE DestroyNext
    <3>1. Head(todo) \in Dialogs /\ DestroyDlg(Head(todo))
      BY <2>2 DEF DestroyNext, DialogsTypeOK
    <3> QED BY <2>1, <3>1
  <2> QED BY <1>2, <2>1, <2>2 DEF EndNext, OnDestroy, Destroyed, DestroyOwned
<1>3. CASE UserNext
  <2>1. ASSUME NEW e \in Dialogs, OpenDialog(e) PROVE wnd'[d] = "shown"
    <3>1. wnd' = [wnd EXCEPT ![e] = "shown"]
      BY <2>1 DEF OpenDialog, CreateDlg
    <3> QED BY <3>1 DEF DialogsTypeOK
  <2>2. ASSUME NEW e \in Dialogs, Hide(e) PROVE e = d
    <3>1. wnd' = [wnd EXCEPT ![e] = "hidden"]
      BY <2>2 DEF Hide
    <3> QED BY <3>1 DEF DialogsTypeOK
  <2>3. ASSUME NEW e \in Dialogs, OnClose(e) PROVE OnClose(d)
    <3>1. e = d
      BY <2>2, <2>3 DEF OnClose
    <3> QED BY <2>3, <3>1
  <2>4. ASSUME NEW w \in Windows, NEW id \in {"OK", "CANCEL"}, Press(w, id) PROVE DialogOf(w) = d
    BY <2>2, <2>4, WindowsFacts DEF Press
  <2>5. CASE RepeatGoTo \/ (\E w \in Dialogs \cup {Other} : SwitchTo(w)) \/ (\E e \in Dialogs : Use(e))
    BY <2>5 DEF RepeatGoTo, SwitchTo, Use
  <2> QED BY <1>3, <2>1, <2>3, <2>4, <2>5 DEF UserNext
<1> QED BY <1>1, <1>2, <1>3 DEF DialogsNext

\* A dialog that is not to close on Esc is hidden by its caption's button only, in
\* any of its windows and whenever the client asked for it.
THEOREM EscAlwaysAsAsked == DialogsSpec => EscAsAsked
<1> DEFINE Asked == \A d \in Dialogs :
             (asked[d] /\ wnd[d] = "shown" /\ wnd'[d] = "hidden") => last' = <<"CLOSE", d>>
<1>1. DialogsInv /\ [DialogsNext]_dialogVars => [Asked]_dialogVars
  <2> SUFFICES ASSUME DialogsInv, DialogsNext, NEW d \in Dialogs, asked[d], wnd[d] = "shown", wnd'[d] = "hidden"
               PROVE  last' = <<"CLOSE", d>>
    BY DEF dialogVars
  <2>1. CASE OnClose(d)
    BY <2>1 DEF OnClose
  <2>2. ASSUME NEW w \in Windows, NEW id \in {"OK", "CANCEL"}, Press(w, id), DialogOf(w) = d PROVE FALSE
    <3>1. phase = "live" /\ ~noEsc[w]
      BY <2>2 DEF Press, HidesOn
    <3>2. w \in WindowsOf(d)
      BY <2>2, WindowsFacts
    <3> QED BY <3>1, <3>2 DEF DialogsInv, FlagsHeld
  <2> QED BY <2>1, <2>2, HiddenByWhat
<1> QED BY <1>1, DialogsAlways, PTL DEF DialogsSpec, EscAsAsked

\* The dialogs live as long as control, client and user ask, and close as they ask.
THEOREM DialogsStayAsAsked == DialogsSpec => DialogsAsAsked
BY WindowsAlwaysAgree, EscAlwaysAsAsked, PTL DEF DialogsAsAsked

-----------------------------------------------------------------------------
(* The code page dialog                                                    *)

\* The list has each page once, or nothing while there is no window.
CodepageInv ==
  /\ window \in BOOLEAN
  /\ ~window => pages = <<>>
  /\ pages \in Seq(Listed)
  /\ ListIsWhole

LEMMA ListedFinite == Cardinality(Listed) \in Nat /\ IsFiniteSet(Listed)
<1>1. IsFiniteSet(Installed \cap Informed)
  BY InstalledAssumption, FS_Intersection
<1>2. IsFiniteSet({Ascii, Utf16} \cup (Installed \cap Informed))
  <2>1. IsFiniteSet({Ascii, Utf16})
    <3>1. IsFiniteSet({} \cup {Ascii})
      BY FS_EmptySet, FS_AddElement
    <3>2. IsFiniteSet(({} \cup {Ascii}) \cup {Utf16})
      BY <3>1, FS_AddElement
    <3>3. ({} \cup {Ascii}) \cup {Utf16} = {Ascii, Utf16}
      OBVIOUS
    <3> QED BY <3>2, <3>3
  <2> QED BY <1>1, <2>1, FS_Union
<1> QED BY <1>2, FS_CardinalityType DEF Listed

\* An order of the list is a list of the same pages, the first one the same.
LEMMA OrderFacts ==
  ASSUME NEW rows \in Seq(Listed), NEW order \in Orders(rows)
  PROVE  order \in Seq(Listed) /\ Len(order) = Len(rows) /\ ToSet(order) = ToSet(rows) /\ order[1] = rows[1]
<1>1. ToSet(rows) \subseteq Listed /\ DOMAIN rows = 1..Len(rows) /\ Len(rows) \in Nat
  BY DEF ToSet
<1>2. order \in [1..Len(rows) -> ToSet(rows)] /\ ToSet(order) = ToSet(rows) /\ order[1] = rows[1]
  BY <1>1 DEF Orders
<1>3. order \in [1..Len(rows) -> Listed]
  BY <1>1, <1>2
<1> QED BY <1>1, <1>2, <1>3

\* An order that is a function is a list.
LEMMA FunctionIsList ==
  ASSUME NEW S, NEW n \in Nat, NEW order \in [1..n -> S]
  PROVE  order \in Seq(S) /\ Len(order) = n
OBVIOUS

\* Without a window there is no list.
LEMMA NoList == window = FALSE /\ pages = <<>> => CodepageInv
<1> SUFFICES ASSUME window = FALSE, pages = <<>> PROVE CodepageInv
  OBVIOUS
<1>1. pages \in Seq(Listed)
  OBVIOUS
<1> QED BY <1>1 DEF CodepageInv, ListIsWhole

LEMMA CodepageInvStep == CodepageInv /\ [CodepageNext]_codepageVars => CodepageInv'
<1> SUFFICES ASSUME CodepageInv, [CodepageNext]_codepageVars PROVE CodepageInv'
  OBVIOUS
<1> USE DEF CodepageInv
<1>1. CASE UNCHANGED <<window, pages>>
  BY <1>1 DEF ListIsWhole
<1>2. CASE CreateCodepage
  <2>1. window' = FALSE /\ pages' = <<>>
    BY <1>2 DEF CreateCodepage
  <2>2. pages' \in Seq(Listed)
    BY <2>1
  <2> QED BY <2>1, <2>2 DEF ListIsWhole
<1>3. CASE OnInitCodepage
  <2>1. ~window /\ window' = TRUE /\ pages = <<>>
    BY <1>3 DEF OnInitCodepage
  <2>2. PICK order \in [1..Cardinality(Listed) -> Listed] :
          ToSet(order) = Listed /\ order[1] = Ascii /\ pages' = pages \o order
    BY <1>3 DEF OnInitCodepage
  <2>3. order \in Seq(Listed) /\ Len(order) = Cardinality(Listed)
    BY <2>2, ListedFinite, FunctionIsList
  <2>4. pages' = order
    BY <2>1, <2>2, <2>3
  <2> QED BY <2>1, <2>2, <2>3, <2>4 DEF ListIsWhole
<1>4. ASSUME NEW column, NEW up, SortList(column, up) PROVE CodepageInv'
  <2>1. window /\ window' = window /\ pages' \in Orders(pages)
    BY <1>4 DEF SortList
  <2>2. pages' \in Seq(Listed) /\ Len(pages') = Len(pages) /\ ToSet(pages') = ToSet(pages) /\ pages'[1] = pages[1]
    BY <2>1, OrderFacts
  <2> QED BY <2>1, <2>2 DEF ListIsWhole
<1> QED
  BY <1>1, <1>2, <1>3, <1>4 DEF CodepageNext, codepageVars, OnActivateCodepage, SetCodepage, ClickRow, ToggleRow

\* The list stays whole through any sorts, and the default page first.
THEOREM ListStaysWhole == CodepageSpec => []ListIsWhole
<1>1. CodepageInit => CodepageInv
  BY NoList DEF CodepageInit
<1>2. CodepageInv => ListIsWhole
  BY DEF CodepageInv
<1> QED BY <1>1, <1>2, CodepageInvStep, PTL DEF CodepageSpec

\* A sort or an activation, whose selection sets the page of the selected row,
\* never changes the page of the text.
THEOREM PageStaysAsChosen == CodepageSpec => []PageAsChosen
<1>1. CodepageInit => PageAsChosen
  BY DEF CodepageInit, PageAsChosen
<1>2. PageAsChosen /\ [CodepageNext]_codepageVars => PageAsChosen'
  <2> SUFFICES ASSUME PageAsChosen, [CodepageNext]_codepageVars PROVE PageAsChosen'
    OBVIOUS
  <2> USE DEF PageAsChosen
  <2>1. CASE UNCHANGED <<codePage, chosen>>
    BY <2>1 DEF Known
  <2>2. ASSUME chosen' # codePage' => ~Known(chosen') PROVE PageAsChosen'
    BY <2>2 DEF Known
  <2>3. CASE CreateCodepage
    BY <2>3 DEF CreateCodepage
  <2>4. ASSUME NEW page \in Wanted, SetCodepage(page) PROVE PageAsChosen'
    BY <2>2, <2>4 DEF SetCodepage, PageAfter
  <2>5. CASE OnActivateCodepage
    <3>1. \A row \in RowInUse : PageAfter(pages[row]) = codePage
      BY DEF RowInUse, PageAfter
    <3>2. UNCHANGED <<codePage, chosen>>
      BY <2>5, <3>1 DEF OnActivateCodepage
    <3> QED BY <2>1, <3>2
  <2>6. ASSUME NEW row, Choose(row) PROVE PageAsChosen'
    BY <2>2, <2>6 DEF Choose, PageAfter
  <2>7. ASSUME NEW row \in DOMAIN pages, ClickRow(row) \/ ToggleRow(row) PROVE PageAsChosen'
    BY <2>1, <2>6, <2>7 DEF ClickRow, ToggleRow
  <2> QED
    BY <2>1, <2>3, <2>4, <2>5, <2>7 DEF CodepageNext, codepageVars, OnInitCodepage, SortList
<1> QED BY <1>1, <1>2, PTL DEF CodepageSpec

\* A row stands for its page, however the list was sorted, filled and used.
THEOREM RowsAlwaysStandForPages == CodepageSpec => []RowsStandForPages
BY ListStaysWhole, PageStaysAsChosen, PTL DEF RowsStandForPages

=============================================================================
