----------------------------- MODULE HexTooltip ------------------------------
(***************************************************************************)
(* The tooltip of the main window (TTMainShow, OnMouseMove and OnTimer of  *)
(* CHexCtrl.cpp): the description of the bookmark, or the name of the      *)
(* template's field, under the mouse, until the mouse leaves it or five    *)
(* seconds have passed.  The control remembers the bookmark by its address *)
(* in the vector of bookmarks, where the next ones move up when one is     *)
(* removed and all move when the vector grows.                             *)
(***************************************************************************)
EXTENDS Integers, Sequences, SequencesExt

CONSTANTS
  Bkms,     \* the bookmarks a user or a client adds, each of them once
  AreaOf,   \* the offsets of each
  Fields,   \* the fields of the template that is applied or not
  FieldOf,  \* the offsets of each
  Offsets   \* the offsets of the data that can be under the mouse

Margin == "margin"    \* in the window, where there is no data
Outside == "outside"  \* not over the window
None == "none"
Freed == -1           \* an address that was one of a bookmark and is none

ASSUME TooltipAssumption ==
  /\ Bkms \cap Fields = {} /\ None \notin Bkms \cup Fields
  /\ AreaOf \in [Bkms -> SUBSET Offsets] /\ FieldOf \in [Fields -> SUBSET Offsets]
  /\ Margin \notin Offsets /\ Outside \notin Offsets

VARIABLES
  bkms,     \* m_vecBookmarks
  fresh,    \* the bookmarks never added
  applied,  \* the template is applied
  tooltips, \* m_fTooltips, of fields
  mouse,    \* where it is
  bkmTT,    \* m_pBkmTTCurr: an index of bkms, Freed or 0
  fieldTT,  \* m_pTFieldTTCurr
  tip,      \* the tooltip's text, None if it is hidden
  timer,    \* the timer is set
  due,      \* five seconds have passed since m_tmTT
  quiet     \* history: what the timer has hidden the tooltip of, while the mouse stays on it

listVars == <<bkms, fresh, applied, tooltips>>
tipVars == <<bkmTT, fieldTT, tip, timer, due>>
tooltipVars == <<listVars, mouse, tipVars, quiet>>

-----------------------------------------------------------------------------
(* What is under the mouse                                                 *)

\* CHexDlgBkmMgr::HitTest: the last of the bookmarks at an offset.
BkmAt(place) == SelectLastInSeq(bkms, LAMBDA b : place \in AreaOf[b])

\* CHexDlgTemplMgr::HitTest.
FieldAt(place) ==
  IF applied /\ \E f \in Fields : place \in FieldOf[f]
  THEN CHOOSE f \in Fields : place \in FieldOf[f] ELSE None

HasTip(place) == BkmAt(place) # 0 \/ (tooltips /\ FieldAt(place) # None)
TipOf(place) ==
  IF BkmAt(place) # 0 THEN bkms[BkmAt(place)]
  ELSE IF tooltips THEN FieldAt(place) ELSE None

-----------------------------------------------------------------------------
(* The tooltip                                                             *)

\* Mutant: the timer is not set.
ShowForever(text) == tip' = text /\ due' = FALSE /\ UNCHANGED timer

\* TTMainShow(true)
Show(text) == tip' = text /\ timer' = TRUE /\ due' = FALSE

\* TTMainShow(false)
HideTip ==
  /\ tip' = None /\ timer' = FALSE
  /\ bkmTT' = 0 /\ fieldTT' = None
  /\ UNCHANGED due

\* TTMainShow(false, true)
HideByTimer ==
  /\ tip' = None /\ timer' = FALSE
  /\ UNCHANGED <<bkmTT, fieldTT, due>>

OverBkm(slot) ==
  IF bkmTT # slot THEN bkmTT' = slot /\ Show(bkms[slot]) /\ UNCHANGED fieldTT
  ELSE UNCHANGED tipVars

OverField(field) ==
  IF fieldTT # field THEN fieldTT' = field /\ Show(field) /\ UNCHANGED bkmTT
  ELSE UNCHANGED tipVars

\* Mutant: where there is no data only a bookmark's tooltip is hidden.
HideBkmOnly(place) ==
  IF bkmTT # 0 \/ (place \in Offsets /\ fieldTT # None) THEN HideTip ELSE UNCHANGED tipVars

OverNothing(place) ==
  IF bkmTT # 0 \/ fieldTT # None THEN HideTip ELSE UNCHANGED tipVars

\* A bookmark comes first; the tooltip of one is hidden before a field's is shown.
\* While the left button is pressed the mouse selects, and the tooltip stays.
OnMouseMove(place) ==
  /\ mouse' = place
  /\ IF BkmAt(place) # 0 THEN OverBkm(BkmAt(place))
     ELSE IF place \in Offsets /\ bkmTT = 0 /\ tooltips /\ FieldAt(place) # None
     THEN OverField(FieldAt(place))
     ELSE OverNothing(place)
  /\ quiet' = IF TipOf(place) = quiet THEN quiet ELSE None
  /\ UNCHANGED listVars

\* The window is not told.
MouseLeaves ==
  /\ mouse' = Outside
  /\ quiet' = None
  /\ UNCHANGED <<listVars, tipVars>>

PassFiveSeconds ==
  /\ timer /\ ~due
  /\ due' = TRUE
  /\ UNCHANGED <<listVars, mouse, bkmTT, fieldTT, tip, timer, quiet>>

\* What the mouse stays on, if the pointers say so.
EndedOn(place) ==
  IF place # Outside /\ tip = TipOf(place) /\ bkmTT = BkmAt(place) THEN tip ELSE None

\* Mutant: the pointers are reset in any case.
OnTimerForgets ==
  /\ timer
  /\ mouse = Outside \/ due
  /\ HideTip
  /\ quiet' = EndedOn(mouse)
  /\ UNCHANGED <<listVars, mouse>>

OnTimer ==
  /\ timer
  /\ \/ mouse = Outside /\ HideTip
     \/ mouse # Outside /\ due /\ HideByTimer
  /\ quiet' = EndedOn(mouse)
  /\ UNCHANGED <<listVars, mouse>>

-----------------------------------------------------------------------------
(* Bookmarks and templates change under it                                 *)

\* AddBkm: the vector may have to grow.
AddBkm(bkm) ==
  /\ bkm \in fresh
  /\ fresh' = fresh \ {bkm}
  /\ bkms' = Append(bkms, bkm)
  /\ bkmTT' \in {bkmTT} \cup (IF bkmTT = 0 THEN {} ELSE {Freed})
  /\ quiet' = None
  /\ UNCHANGED <<applied, tooltips, mouse, fieldTT, tip, timer, due>>

\* RemoveBookmark: the bookmarks behind it move up; the vector's room stays.
RemoveBkm(slot) ==
  /\ slot \in DOMAIN bkms
  /\ bkms' = RemoveAt(bkms, slot)
  /\ quiet' = None
  /\ UNCHANGED <<fresh, applied, tooltips, mouse, tipVars>>

\* SortBookmarks: the bookmarks change places.
SortBookmarks ==
  /\ bkms' = Reverse(bkms)
  /\ quiet' = None
  /\ UNCHANGED <<fresh, applied, tooltips, mouse, tipVars>>

\* ApplyTemplate and DisapplyAll, and ShowTooltips.
ApplyOrDisapply ==
  /\ applied' = ~applied
  /\ quiet' = None
  /\ UNCHANGED <<bkms, fresh, tooltips, mouse, tipVars>>

ShowTooltips ==
  /\ tooltips' = ~tooltips
  /\ quiet' = None
  /\ UNCHANGED <<bkms, fresh, applied, mouse, tipVars>>

-----------------------------------------------------------------------------

TooltipInit ==
  /\ bkms = <<>> /\ fresh = Bkms
  /\ applied = FALSE /\ tooltips = TRUE
  /\ mouse = Outside
  /\ bkmTT = 0 /\ fieldTT = None /\ tip = None /\ timer = FALSE /\ due = FALSE
  /\ quiet = None

MouseMoves == \E place \in Offsets \cup {Margin} : OnMouseMove(place)

TooltipNext ==
  \/ MouseMoves \/ MouseLeaves
  \/ PassFiveSeconds \/ OnTimer
  \/ \E bkm \in Bkms : AddBkm(bkm)
  \/ \E slot \in DOMAIN bkms : RemoveBkm(slot)
  \/ SortBookmarks \/ ApplyOrDisapply \/ ShowTooltips

\* Time passes, and Windows posts the message of a timer that is set.
Fairness == WF_tooltipVars(PassFiveSeconds) /\ WF_tooltipVars(OnTimer)

TooltipSpec == TooltipInit /\ [][TooltipNext]_tooltipVars /\ Fairness

-----------------------------------------------------------------------------
(* Properties                                                              *)

TooltipTypeOK ==
  /\ fresh \subseteq Bkms /\ bkms \in Seq(Bkms \ fresh) /\ IsInjective(bkms)
  /\ applied \in BOOLEAN /\ tooltips \in BOOLEAN /\ timer \in BOOLEAN /\ due \in BOOLEAN
  /\ mouse \in Offsets \cup {Margin, Outside}
  /\ bkmTT \in Nat \cup {Freed}
  /\ fieldTT \in Fields \cup {None} /\ {tip, quiet} \subseteq Bkms \cup Fields \cup {None}

\* A tooltip that is seen has a timer that will end it and an address by which the
\* next move of the mouse will (TTMainShow), whatever was removed since.
SeenIsWatched ==
  /\ TooltipTypeOK
  /\ tip # None => timer /\ (bkmTT # 0 \/ fieldTT # None)
  /\ timer => tip # None

\* The mouse where nothing has a tooltip shows none, though the bookmark or the
\* template whose tooltip is seen is gone or fields have tooltips no more
\* (OnMouseMove).
NoTipOfNothing ==
  [][MouseMoves /\ ~HasTip(mouse') => tip' = None]_tooltipVars

\* "When hiding tooltip by timer we not nullify the pointer. Otherwise tooltip will
\* be shown again after mouse movement, even if cursor didn't leave current bkm
\* area." (TTMainShow): while neither bookmarks nor templates change.
QuietStays ==
  [][quiet # None /\ quiet' = quiet => tip' = None]_tooltipVars

\* When the bookmarks change no more, no tooltip is seen for ever, though its
\* bookmark may be gone or elsewhere and the mouse leaves the window without a
\* message (OnTimer).
TipsEnd ==
  <>[][UNCHANGED bkms]_tooltipVars =>
    \A text \in Bkms \cup Fields : tip = text ~> tip # text

\* A tooltip follows the mouse: these three together.
TipFollowsMouse == []SeenIsWatched /\ NoTipOfNothing /\ QuietStays

=============================================================================
