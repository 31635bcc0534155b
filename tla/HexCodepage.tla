---------------------------- MODULE HexCodepage -----------------------------
(***************************************************************************)
(* The code page dialog (CHexDlgCodepage.cpp): a list of the system's code *)
(* pages, two of the control's own before them, which is sorted by its     *)
(* columns and whose selected row is the page of the control's text.  A    *)
(* row is a place in the list: what is selected stays where it is when the *)
(* pages behind the rows move.                                             *)
(***************************************************************************)
EXTENDS Integers, SequencesExt

CONSTANTS
  Installed,  \* the code pages EnumSystemCodePagesW names
  Informed,   \* those of which GetCPInfoExW knows the name
  SortKey,    \* for each column a number for each page, which it is sorted by
  Wanted      \* bound: the code pages a client sets

ASSUME InstalledAssumption == IsFiniteSet(Installed) /\ Installed \subseteq Nat \ {0}

VARIABLES
  window,   \* the dialog has a window
  pages,    \* m_vecCodePage
  selected, \* the list's selected rows
  codePage, \* m_iCodePage
  chosen    \* history: the page that was last asked for, by a client or a row

codepageVars == <<window, pages, selected, codePage, chosen>>

Ascii == -1
Utf16 == 0
Listed == {Ascii, Utf16} \cup (Installed \cap Informed)
Known(page) == page \in {Ascii, Utf16} \cup Informed

-----------------------------------------------------------------------------

\* The control's SetCodepage keeps the page it has when it is asked for another
\* that the system does not know.
PageAfter(page) == IF Known(page) THEN page ELSE codePage

\* Mutant: the first row is sorted with the others.
AllOrders(rows) == {order \in [DOMAIN rows -> ToSet(rows)] : ToSet(order) = ToSet(rows)}

\* The orders of the pages a list has, its first row kept.
Orders(rows) ==
  {order \in [DOMAIN rows -> ToSet(rows)] : ToSet(order) = ToSet(rows) /\ order[1] = rows[1]}

\* Create's SetCodepage(-1), at the end of another life of the window or not:
\* OnDestroy clears the list.
CreateCodepage ==
  /\ window' = FALSE
  /\ pages' = <<>> /\ selected' = {}
  /\ codePage' = Ascii /\ chosen' = Ascii

SetCodepage(page) ==
  /\ codePage' = PageAfter(page)
  /\ chosen' = page
  /\ UNCHANGED <<window, pages, selected>>

\* OnInitDialog: the system names its pages in any order, AddCP leaves out those
\* it knows nothing of.
OnInitCodepage ==
  /\ ~window
  /\ window' = TRUE
  /\ \E order \in [1..Cardinality(Listed) -> Listed] :
       /\ ToSet(order) = Listed
       /\ order[1] = Ascii /\ order[2] = Utf16
       /\ pages' = pages \o order
  /\ selected' = {}
  /\ UNCHANGED <<codePage, chosen>>

\* Mutant: the row is looked up as the pages were listed at first.
FirstRow == DOMAIN pages \cap {1}

\* The row of the page in use, if it is listed.
RowInUse == {row \in DOMAIN pages : pages[row] = codePage}

\* The user comes to the dialog: the row of the page in use is selected instead
\* of all others, and the list says so, which sets the page again.
OnActivateCodepage ==
  /\ window
  /\ selected' = RowInUse
  /\ codePage' \in (IF RowInUse = {} THEN {codePage} ELSE {PageAfter(pages[row]) : row \in RowInUse})
  /\ UNCHANGED <<window, pages, chosen>>

\* OnNotifyListItemChanged, of a row that gets selected.
Choose(row) == codePage' = PageAfter(pages[row]) /\ chosen' = pages[row]

\* A click selects a row alone.  If it is selected already the list need not say.
ClickRow(row) ==
  /\ row \in DOMAIN pages
  /\ selected' = {row}
  /\ Choose(row) \/ (row \in selected /\ UNCHANGED <<codePage, chosen>>)
  /\ UNCHANGED <<window, pages>>

\* Ctrl and a click: a row that gets unselected sets nothing.
ToggleRow(row) ==
  /\ row \in DOMAIN pages
  /\ IF row \in selected
     THEN selected' = selected \ {row} /\ UNCHANGED <<codePage, chosen>>
     ELSE selected' = selected \cup {row} /\ Choose(row)
  /\ UNCHANGED <<window, pages>>

\* The rows behind the first are in order.
Sorted(order, column, up) ==
  \A i, j \in 2..Len(order) :
    i < j => IF up THEN SortKey[column][order[i]] <= SortKey[column][order[j]]
             ELSE SortKey[column][order[i]] >= SortKey[column][order[j]]

\* SortList, a click on a column: std::sort leaves equal pages in any order.
SortList(column, up) ==
  /\ window
  /\ \E order \in Orders(pages) : Sorted(order, column, up) /\ pages' = order
  /\ UNCHANGED <<window, selected, codePage, chosen>>

-----------------------------------------------------------------------------
(* The specification                                                       *)

CodepageInit ==
  /\ window = FALSE /\ pages = <<>> /\ selected = {}
  /\ codePage = Ascii /\ chosen = Ascii

CodepageNext ==
  \/ CreateCodepage \/ OnInitCodepage \/ OnActivateCodepage
  \/ \E page \in Wanted : SetCodepage(page)
  \/ \E row \in DOMAIN pages : ClickRow(row) \/ ToggleRow(row)
  \/ \E column \in DOMAIN SortKey : \E up \in BOOLEAN : SortList(column, up)

CodepageSpec == CodepageInit /\ [][CodepageNext]_codepageVars

-----------------------------------------------------------------------------
(* Properties                                                              *)

\* However often it is sorted and made anew, the list has each page once, only
\* pages the control takes, and the default one first.
ListIsWhole ==
  window => /\ Len(pages) = Cardinality(Listed) /\ ToSet(pages) = Listed
            /\ pages[1] = Ascii

\* The text is in the page that was last chosen by a client or a row, unless the
\* system does not know it: neither a sort nor a return to the dialog, whose
\* selection sets the page, changes it.
PageAsChosen == Known(chosen) => codePage = chosen

\* Every row stands for the page it is to stand for, whatever was sorted.
RowsStandForPages == ListIsWhole /\ PageAsChosen

=============================================================================
