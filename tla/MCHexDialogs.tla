---------------------------- MODULE MCHexDialogs ----------------------------
(* Three parts: the windows of the dialogs, of which a behaviour opens two,    *)
(* any two; the code page dialog, with four pages to list; and the tooltip,    *)
(* over two fields and three bookmarks, of which two overlap.                  *)
EXTENDS HexDialogs, HexCodepage, HexTooltip

VARIABLES part, used

allVars == <<dialogVars, codepageVars, tooltipVars, part, used>>

MCInstalled == {437, 874, 932}
MCInformed == {437, 932, 65001}
\* By number, by name and by the number of bytes of a character.
MCSortKey ==
  [column \in 0..2 |-> [page \in {-1, 0} \cup MCInstalled |->
     CASE column = 0 -> page
       [] column = 1 -> 2000 - page
       [] OTHER -> IF page = 932 THEN 2 ELSE 1]]
MCWanted == {0, 874, 932, 65001}

\* One of the offsets has neither a bookmark nor a field.
MCBkms == {"first", "second", "third"}
MCOffsets == {"a", "b", "c", "d", "e"}
MCAreaOf == [first |-> {"a", "b"}, second |-> {"b"}, third |-> {"c"}]
MCFields == {"low", "high"}
MCFieldOf == [low |-> {"b", "c"}, high |-> {"d"}]

MCInit ==
  /\ DialogsInit /\ CodepageInit /\ TooltipInit
  /\ \/ part = "windows" /\ used \in {two \in SUBSET Dialogs : Cardinality(two) = 2}
     \/ part \in {"codepage", "tooltip"} /\ used = {}

WindowsNext ==
  /\ DialogsNext
  /\ \A d \in Dialogs \ used : wnd'[d] = "none" /\ ~asked'[d]
  /\ UNCHANGED <<codepageVars, tooltipVars>>

MCNext ==
  /\ \/ part = "windows" /\ WindowsNext
     \/ part = "codepage" /\ CodepageNext /\ UNCHANGED <<dialogVars, tooltipVars>>
     \/ part = "tooltip" /\ TooltipNext /\ UNCHANGED <<dialogVars, codepageVars>>
  /\ UNCHANGED <<part, used>>

MCSpec == MCInit /\ [][MCNext]_allVars /\ Fairness

=============================================================================
