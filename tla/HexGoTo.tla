------------------------------ MODULE HexGoTo ------------------------------
(***************************************************************************)
(* The Go To dialog (CHexDlgGoTo.cpp) and the commands that repeat it: it  *)
(* moves the caret to an offset or a page counted from the data's start,   *)
(* from its end or from the caret, in unsigned arithmetic.  The dialog     *)
(* keeps its mode, its number and what it may repeat while the data, the   *)
(* caret and the page size change.  The scrolling is HexView's GoToOffset. *)
(***************************************************************************)
EXTENDS HexNav

CONSTANT
  GoToTexts   \* bound: what a user enters: NoNumber or a number

ASSUME GoToAssumption == GoToTexts \subseteq Nat \cup {-1}

VARIABLES
  goText,    \* the edit box
  goMode,    \* the selection of m_WndCmbMode
  hasPages,  \* whether m_WndCmbMode has the four page modes
  goRepeat,  \* m_fRepeat
  asked      \* history: what this step's GoTo was asked

goVars == <<goText, goMode, hasPages, goRepeat, asked>>

NoNumber == -1   \* an empty text, or no number
NotAsked == [mode |-> "none"]

OffsetModes == {"OFFSET", "OFFSETFWD", "OFFSETBACK", "OFFSETEND"}
PageModes   == {"PAGE", "PAGEFWD", "PAGEBACK", "PAGEEND"}

-----------------------------------------------------------------------------

\* The modes the box offers follow the page size, when the dialog is told to
\* look; a page mode that goes leaves the last offset mode, not to repeat.
UpdateComboMode ==
  /\ hasPages' = (pageSize > 0)
  /\ IF hasPages /\ ~hasPages' /\ goMode \in PageModes
     THEN goMode' = "OFFSETEND" /\ goRepeat' = FALSE
     ELSE UNCHANGED <<goMode, goRepeat>>

\* The user comes to the dialog, or opens it.
OnActivateGoTo ==
  /\ IF IsDataSet THEN UpdateComboMode ELSE UNCHANGED <<hasPages, goMode, goRepeat>>
  /\ asked' = NotAsked
  /\ UNCHANGED <<vars, goText>>

EnterGoTo(text) ==
  /\ goText' = text
  /\ asked' = NotAsked
  /\ UNCHANGED <<vars, goMode, hasPages, goRepeat>>

SelectMode(mode) ==
  /\ mode \in PageModes => hasPages
  /\ goMode' = mode
  /\ asked' = NotAsked
  /\ UNCHANGED <<vars, goText, hasPages, goRepeat>>

\* ULONGLONG arithmetic; a step back is a step of -1.
Wrap(n) == n % Modulus

\* Mutant: the last page is taken to be a whole one.
WholePages(mode, n, sign) ==
  Wrap(CASE mode = "OFFSET" -> n
         [] mode = "OFFSETFWD" -> caretPos + n * sign
         [] mode = "OFFSETBACK" -> caretPos - n * sign
         [] mode = "OFFSETEND" -> dataSize - n - 1
         [] mode = "PAGE" -> n * pageSize
         [] mode = "PAGEFWD" -> caretPos + n * pageSize * sign
         [] mode = "PAGEBACK" -> caretPos - n * pageSize * sign
         [] mode = "PAGEEND" -> dataSize - pageSize - n * pageSize)

\* ullOffsetResult of GoTo.  The dialog hands MODE_OFFSET's number through
\* GetOffset, which is the identity without a virtual-offset handler.
GoToResult(mode, n, sign) ==
  LET rem == IF pageSize > 0 THEN dataSize % pageSize ELSE 0
  IN  Wrap(CASE mode = "OFFSET" -> n
             [] mode = "OFFSETFWD" -> caretPos + n * sign
             [] mode = "OFFSETBACK" -> caretPos - n * sign
             [] mode = "OFFSETEND" -> dataSize - n - 1
             [] mode = "PAGE" -> n * pageSize
             [] mode = "PAGEFWD" -> caretPos + n * pageSize * sign
             [] mode = "PAGEBACK" -> caretPos - n * pageSize * sign
             [] mode = "PAGEEND" -> dataSize - (IF rem > 0 THEN rem ELSE pageSize) - n * pageSize)

GoTo(sign) ==
  LET result == GoToResult(goMode, goText, sign)
      ready  == IsDataSet /\ goText # NoNumber
  IN  /\ goRepeat' = ready
      /\ asked' = IF ready THEN [mode |-> goMode, n |-> goText, sign |-> sign] ELSE NotAsked
      /\ IF ready /\ result < dataSize
         THEN SetCaretPos(result, TRUE)
         ELSE UNCHANGED vars
      /\ UNCHANGED <<goText, goMode, hasPages>>

\* CMD_DLG_GOTO's OK, CMD_GOTO_REPEAT and the like: ExecuteCmd asks for data.
OnOKGoTo == GoTo(1)
Repeat(sign) == IsDataSet /\ goRepeat /\ GoTo(sign)

-----------------------------------------------------------------------------
(* The specification                                                       *)

\* The dialog's window, made when it is first opened, here before any page
\* size is set.
GoInit ==
  /\ Init
  /\ goText = NoNumber
  /\ goMode = "OFFSET"
  /\ hasPages = FALSE
  /\ goRepeat = FALSE
  /\ asked = NotAsked

DialogNext ==
  \/ OnActivateGoTo \/ OnOKGoTo \/ Repeat(1) \/ Repeat(-1)
  \/ \E text \in GoToTexts : EnterGoTo(text)
  \/ \E mode \in OffsetModes \cup PageModes : SelectMode(mode)

GoNext == DialogNext \/ (Next /\ asked' = NotAsked /\ UNCHANGED <<goText, goMode, hasPages, goRepeat>>)

GoSpec == GoInit /\ [][GoNext]_<<vars, goVars>>

\* Without HexNav's three gestures that can select bytes past the data's end.
FittingGoNext ==
  DialogNext \/ (FittingNext /\ asked' = NotAsked /\ UNCHANGED <<goText, goMode, hasPages, goRepeat>>)

FittingGoSpec == GoInit /\ [][FittingGoNext]_<<vars, goVars>>

-----------------------------------------------------------------------------
(* Properties                                                              *)

\* The byte a mode asks for, counted in whole bytes and pages rather than
\* modulo 2^64: pages from the end are counted from the page the last byte
\* is in, whole or not.
LastPage == (dataSize - 1) \div pageSize

Target(x) ==
  CASE x.mode = "OFFSET" -> x.n
    [] x.mode = "OFFSETFWD" -> caretPos + x.sign * x.n
    [] x.mode = "OFFSETBACK" -> caretPos - x.sign * x.n
    [] x.mode = "OFFSETEND" -> dataSize - 1 - x.n
    [] x.mode = "PAGE" -> x.n * pageSize
    [] x.mode = "PAGEFWD" -> caretPos + x.sign * x.n * pageSize
    [] x.mode = "PAGEBACK" -> caretPos - x.sign * x.n * pageSize
    [] x.mode = "PAGEEND" -> (LastPage - x.n) * pageSize

\* Numbers whose product with the page size reaches 2^64, and page modes
\* without pages, are outside: see the README.
Countable(x) ==
  /\ x.mode # "none"
  /\ x.mode \in PageModes => pageSize > 0
  /\ x.n <= MaxSize
  /\ x.n * pageSize < Modulus - MaxSize

Lands(x) ==
  Countable(x) => caretPos' = IF Target(x) \in 0..dataSize - 1 THEN Target(x) ELSE caretPos

\* A Go To, repeated in either direction after whatever happened to the data,
\* the caret and the page size, goes to the byte asked for or, if there is no
\* such byte, nowhere: the unsigned arithmetic of GoTo never lands elsewhere.
GoesWhereAsked == [][Lands(asked')]_<<vars, goVars>>

=============================================================================
