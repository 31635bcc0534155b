# A TLA+ model of HexCtrl

HexCtrl is a hex viewer and editor control for Win32 (C++20, `src/HexCtrl/`).  A
client creates the control, gives it data – a memory span, or a *virtual* data
handler the control asks for pieces no larger than a cache – and the user moves,
selects, searches, modifies, undoes and redoes.  All of it happens on the UI
thread, except that large modifications and searches start a worker thread and
show a modal progress dialog until the worker is done.

Below, `C` is `src/HexCtrl/src/CHexCtrl.cpp`, `S` is `CHexSelection.ixx`, `L` is
`CHexScroll.ixx`, and of `Dialogs/`, `F` is `CHexDlgSearch.cpp`, `G` is
`CHexDlgProgress.ixx`, `B` is `CHexDlgBkmMgr.cpp`, `T` is `CHexDlgTemplMgr.cpp`, `D` is
`CHexDlgModify.cpp`, `I` is `CHexDlgDataInterp.cpp`, `O` is `CHexDlgGoTo.cpp` and `P` is
`CHexDlgCodepage.cpp`; `U` is `HexUtility.ixx`.

## The system

| Component | State it keeps | Operations | What makes it correct |
|---|---|---|---|
| Caret, cursor and selection (`C`, `S`) | caret, the high or low half of its byte, the mouse's two positions, the vector of spans, two marks, capacity, group and page size | caret commands, Shift+arrows, marks, Select All, mouse down, move, up and double click, the client's SetCaretPos, SetSelection, SetCapacity, SetGroupSize, SetPageSize | positions and selected bytes exist, whatever the client replaces; Shift+arrows move one end of the selection; a block drag selects a rectangle; rows hold whole groups |
| Undo and Redo (`C`) | two vectors of snapshots, at most 512 | SnapshotUndo, Undo, Redo; SetData and ClearData clear both | every snapshot leads back to the version it was taken of; the histories stay within their limit; no memory costs the history and nothing else |
| Modification (`C`) | the data, m_fRedraw | ModifyData with its five modes, ModifyWorker, the client's OnHexSetData | every byte asked for is modified once, none else; every piece fits the cache; the call ends |
| Progress dialog (`G`) | m_fCancel, minimum, current, count | DoModal, Cancel, a timer of 100 ms, EndDialog | it closes when the worker ends; Cancel ends the worker |
| Search and replace (`F`) | range, step, limit, start, counters, the list of results | Find forward and backward, Find All, Replace, Replace All, the dialog's boxes, F3 | all matches in steps are found, once; a search finds the next match and wraps around; replacements do not overlap and write a match; the call ends |
| Bookmarks (`B`) | bookmarks, the current index, the manager's list, a client's own store | add, update, remove, clear, next, previous, sort; the manager's menu | identifiers stay unique unless a client writes them alike; the menu then removes what is selected; the list shows what there is |
| Templates (`T`) | templates loaded, templates applied, a tree and a list of fields, the dialog's texts and buttons | load, unload, apply, disapply, select, highlight | nothing applied or shown outlives its template; fields tile the template; the field hit is the one shown there |
| Scrolling (`L`, `C`) | for each bar position, limit and visibility; the window's and its client area's size | keys, wheel, thumb drag, size changes, GoToOffset, GetHitTest | the position stays in range, thumb and mouse agree; what is gone to is seen; what is drawn is hit where it is drawn |
| Operations and the Modify dialog (`C`, `D`) | the controls of two tabs, the list of fillings | the 15 operations on eight integer and two floating-point types, by elements and by vectors; OK, the combos and boxes, activation | a vector computes what its elements do; the data becomes what the controls show, inside the region they show |
| Data interpreter (`I`) | the offset and the bytes it shows, the byte order, the row being edited | update, enter a value in one of its rows | what is shown is read from the data at the offset; what is entered is written there and shown again, in both byte orders |
| Typing and pasting (`C`) | the half of the byte typed next, m_fKeyDownAtm | OnKeyDown, OnChar, OnKeyUp, paste, fill with zeros | the digits typed stand in the data where they were typed; the interpreter follows the caret |
| Go To (`O`) | mode, number, whether it may be repeated | OK, repeat forward and backward | the caret goes to the byte asked for or stays |
| Drawing, printing and copying (`C`) | – (the bytes, bookmarks, fields, colours and selection of the others) | OnPaint with its layers, Print, the copies to the clipboard | every byte is drawn once, where a click hits it, over what it covers; every byte is printed once; a copy holds the bytes selected, as they are shown |
| Commands, key bindings and menu (`C`) | the list of bindings, the keys in the menu's names, its disabled items | SetConfig, keys, wheel and menu items, opening a submenu, the end of the window | a configured key runs its command, the menu names the key that runs it, and nothing runs that is not available |
| Dialogs and the control's life cycle (`C`, all dialogs) | whether a window exists and is shown, which is active, the flags, what a dialog knows and leaves with the control | Create and its Initialize calls, ShowWindow, GetWndHandle, SetDlgProperties, Esc, Enter, closing, OnDestroy with its DestroyDlg calls | a dialog in use knows its control, in each life of the control's window; nothing outlives its window; flags hold for whichever window gets the key |
| Codepage dialog (`P`, `C`) | the list of pages, its selected rows, the page in use | SetCodepage, activation, a click on a row, a sort | the list has each page once; the page in use is the one chosen |
| Tooltip (`C`, `B`, `T`) | the addresses of the bookmark and the field it is of, its text, a timer | OnMouseMove, OnTimer, TTMainShow, while bookmarks and templates come and go | it is shown where there is something to show, ends, and is not shown again at once |
| Fonts, utilities | – | – | formats and platform calls |

**How they interact.**  Almost everything is a call on the UI thread: a command
(`ExecuteCmd`) reads the selection, calls ModifyData, which takes a snapshot,
writes, and tells client and dialogs (`OnModifyData`, `ParentNotify`: a
synchronous message to the parent's window).  A client may call back at any
point between two messages, so caret, marks, selection, snapshots and
bookmarks are held across changes of the data they point into.  A worker shares
`m_fCancel` and the progress with the dialog on the UI thread, without
synchronisation; while it runs the UI thread handles messages in `DoModal`, and
after that waits in `thrd.join()`, handling none.

**What is hard.**  Stale positions (data and layout are replaced between two
uses of them); arithmetic at the end of the data; an Undo that runs out of memory
half way; a history with a limit moved between two vectors; operands, remainders
and caches of different sizes cutting up one fill; a worker and a dialog that
end each other; a worker that needs the UI thread which waits for it; lists and
trees that hold pointers and row numbers into data that changes under them; two scroll
bars each of which takes its room from the other; layers of strings that have to meet
byte by byte; pairs of conversions, written apart, that have to be each other's inverse; windows
that are destroyed in an order Windows chooses; addresses kept of what moves.  The `hazards` of PROJECT.json list them line by line.

## The modules

| Module | Models | Checked with |
|---|---|---|
| `HexNav` | caret, cursor, marks and selection | `MCHexNav`, proofs in `HexNav_proofs` |
| `HexUndo` | ModifyData's snapshots, Undo, Redo | inside `HexUndoHistory`, `HexUndo_proofs` |
| `HexHistory` | abstract: a line of versions with past and future | as a property of `HexUndoHistory` |
| `HexUndoHistory` | HexUndo with history variables, refining HexHistory | `MCHexUndoHistory`, `HexUndo_proofs` |
| `HexOper` | what an operation makes of bytes: by elements, by vectors | inside `HexDlgModify` |
| `HexDlgModify` | the Modify dialog and the ModifyData it calls | `MCHexDlgModify` |
| `HexProgress` | a worker, the progress dialog, the join | inside the next two |
| `HexModify` | ModifyData, ModifyWorker | `MCHexModify`, `HexModify_proofs` |
| `HexFindAll` | FindAll, ReplaceAll, the forward search function | `MCHexFindAll`, `HexFindAll_proofs` |
| `HexScan` | the search functions: chunks, forward and backward, vectors | inside the next |
| `HexSearchText` | what the dialog's texts mean as bytes | inside the next |
| `HexSearch` | the search dialog around them | `MCHexSearch` |
| `HexBkm` | the bookmarks and their manager | `MCHexBkm`, `HexBkm_proofs` |
| `HexTemplFields` | a template's fields, parsed from its file | inside the next |
| `HexTempl` | the template manager | `MCHexTempl`, part *manager* |
| `HexTemplValues` | a field's value, shown and entered | `MCHexTempl`, part *values* |
| `HexRows` | conversions of the interpreter's rows in both directions | inside `HexEdit`, `HexTemplValues`, `HexSearchText` |
| `HexEdit` | HexNav with the data: typing, pasting, the data interpreter | `MCHexEdit`, proofs in `HexNav_proofs` |
| `HexGoTo` | HexNav with the Go To dialog | `MCHexEdit`, proofs in `HexNav_proofs` |
| `HexCommand` | key bindings, menu, what runs a command | `MCHexEdit`, part *keys*; proofs in `HexNav_proofs` |
| `HexView` | scroll bars, geometry, the commands that scroll | `MCHexView`, part *scroll*; `HexView_proofs` |
| `HexShow` | the layers drawn, the lines painted and printed | `MCHexView`, part *paint*; proofs in `HexView_proofs` |
| `HexCopy` | what a selection puts on the clipboard | `MCHexView`, part *copy* |
| `HexDialogs` | the windows of the seven dialogs and of the control | `MCHexDialogs`, part *windows*; `HexDialogs_proofs` |
| `HexCodepage` | the code page dialog | `MCHexDialogs`, part *codepage*; `HexDialogs_proofs` |
| `HexTooltip` | the tooltip of bookmarks and fields | `MCHexDialogs`, part *tooltip*; proofs in `HexView_proofs` |
| `HexArith` | no code: quotients, remainders, least elements and flattened sequences, for the proofs | proved in itself |

**HexNav.**  One action per command and mouse handler.  A handler's effect on
caret, anchor (`m_ullCursorPrev`), cursor, selection and marks is one step; the
four Shift+arrows share `SelAdd`, as the four functions share their last lines,
and differ in `DownExtent`, `UpExtent`, `LeftExtent`, `RightExtent`: the span
each computes, and its new anchor.  Offsets are numbers, and the subtraction of
ULONGLONGs that may underflow is `Minus`, modulo `Modulus` (2^64).
`RowsOfWholeGroups` follows SetCapacity and SetGroupSize at their real limits.
A client selects any vector of spans in the data (`ClientSels`), of any sizes, in any order, overlapping
or not, as the search's list does with one span for each of its rows.  `FittingSpec` is the specification without
the three gestures that select bytes past the end of the data: a block drag and a double click on the last row, and
Shift+arrows over spans of a client that are not `Orderly` (see *Disagreements*).

**HexUndo.**  The data is a function from offsets to bytes.  A snapshot is a
sequence of entries (offset and bytes), as UNDO is; `Restored` applies the first
n entries one after the other, so that overlapping spans and an Undo that
stops half way come out as they do in the code.  `Place` is where the chunk
loops really read and write.  What ModifyData writes is left open, within its
spans.  Each of the places at which memory may run out has its own outcome:
`ModifyData` with an empty history, `UndoOutOfMemory(n)`, `RedoOutOfMemory`.
The limit of 512 and its 64, and the 10 MB, are `UndoMax`, `UndoDrop` and
`MaxSnapshot`.

**HexHistory and HexUndoHistory.**  HexHistory says what a user expects: the data
is one point of a line of versions.  HexUndoHistory adds `past` and `future`,
the versions the snapshots stand for, and maps `version` to the data.  It
restricts HexUndo to what undo is meant for: spans that do not overlap, lie
inside the data, are small enough to be remembered and, if data is virtual, no
larger than the cache.

**HexProgress.**  `ui` says what the UI thread does: `"free"` (its message loop),
`"busy"` (inside the call), `"modal"` (DoModal), `"join"`.  OnCancel, OnTimer and
the worker's end are steps of their own; all of them meet in `cancel`
(m_fCancel).

**HexModify.**  Each byte remembers the byte of the operand it was modified with.
A call is a mode, spans, the operand's size and whether data is virtual.
`Operand` is the operand ModifyData hands to the worker (256 bytes of a repeated
fill, a vector's width of an operation, 8 bytes or 1 MB of random bytes),
`LargePiece`, `SmallPiece` and `TailPiece` are the loops' pieces.  One step is
one piece: GetData, the operands applied, SetDataVirtual; `CancelChunk` ends it
after any operand.  As m_fCancel is not synchronised, the worker may also go on.

**HexOper and HexDlgModify.**  An element is a sequence of bytes of `ByteBits` bits.
`Operated` is the operation of the C++ lambdas, on numbers; each of the vector lambdas
has a definition of its own, built of intrinsics that work on all bits of a vector at once, and
`SetR` spreads the operand as the `_mm*_set1` do.  The 128-bit and the 256-bit lambdas
split a vector in the same way, so that one operator for each operation stands for both,
at the width `LaneBytes` or twice that.  `Modified` cuts the region into vectors and a remainder, as ModifyData does.  In
HexDlgModify the record `opers` is the Operations tab, `fill` the Fill tab with its
list; a message box deactivates and activates the dialog, and so sets the region anew.
Picking a text from the list notifies nobody.  One tab is used in a behaviour, and data is modified
once.  Signed overflow wraps, as the build has it; shifts and divisions that have no
meaning in C++ are left out.  A floating-point number is a sign and a magnitude, those above
`Infinity` are NaNs; sums, products and quotients are exact, so that rounding, infinities
of both signs and the sign of a zero are left out and `FloatArithmetic` is what the scalar and the vector instructions
agree on.  Where they do not, in the comparison with a NaN, each has its own definition
(`FloatOperated`, `FloatInstruction`), and `OperatesAsShown` admits both.

**HexFindAll.**  The data is the set of offsets at which it matches.  One step is
one call of the search function, or one replacement, whose bytes may make or
unmake matches wherever they reach.  `Compared` is the set of offsets
the search function looks at in the chunks of CalcMemChunks.  The user may edit
the data while the progress dialog is open (`UserEdits`), because that dialog
disables the search dialog and not the hex control.  A worker's message to the UI thread
(the check box ReplaceAll asks, the notification of ModifyData) is a step of its own,
enabled while the UI thread answers messages (`Answered`).

**HexScan, HexSearchText and HexSearch.**  HexScan translates CalcMemChunks, the loops over the
chunks, the plain comparison in both directions with its wildcard and its way with
letters (`MemCmp`), and the vectorised comparison with its shifts (`Shifted` drops what leaves
the lane, as the code's byte shift does).  HexSearchText is one operator for each Prepare function:
hex digits in pairs, a text in one of three encodings, a number that fits its type,
a date.  The code pages are the external constants `Ansi` and `Utf8`.  HexSearch
is the dialog: `Prepare` reads the boxes with every early return, `ResetSearch`
forgets the search so far, and the members that live from one press to the next are
the record `dlg`.  `FindsInOrder` compares each Find with a definition
that knows nothing of chunks, vectors or counters: the first match after the start
the dialog shows, else the first of the range, a match being what a reader of the
text typed would call one.

**HexBkm.**  The bookmarks, the current index for Next and Previous, the
number of items of the list and the selected ones.  `SetVirtual` puts a client's
IHexBookmarks in their place; an operation of the client's is a step too.  `Update` is a
client that overwrites a bookmark, its identifier included: Update itself has no caller in the
repository, but GetByID and GetByIndex hand out the pointer to do so.  An identifier is a number up to `MaxId` (2^64 - 1),
after which the next is 0, and `Written` bounds those a client writes.  `OnDestroy` is the end of the control's window, which the
bookmarks do not survive and the current index does.

**HexTemplFields and HexTempl.**  Parsing is a fold over the JSON objects
with the running offset the code passes by reference; arrays, nesting and custom types
are in it.  In HexTempl a pointer is a name (an applied template's id and a path of
field numbers), so that a pointer to what was freed is a name nothing bears.  The buttons, the
box of types and the texts that show the offset and size of the template are in it, and the window, which is destroyed with the
control's while templates loaded and applied stay.

**HexRows and HexTemplValues.**  HexRows gives each row of the interpreter two
operators, what ShowValue* makes of bytes and what SetData* makes of a text, in the
arithmetic of the code: ticks since 1601, seconds since 1970, the bit fields of MS-DOS
time, the 8 and 16-byte structures.  A text is the numbers in it, so that only what the conversion does to values
is left: a byte has `HalfValues`² values, and the epochs are constants, small in
the runs.  The template manager has the same conversions for the fields of its types, with
byte orders of its own, in HexTemplValues.

**HexEdit.**  Each handler is an action of HexNav together with what it does to the
data and with UpdateData of the interpreter, where the code calls it.  `behind` says that a caret or
data changed by a call that tells the interpreter nothing; `RowsShowData` is about
all other states.  `TypedDigitsStand` remembers the keys of one run of typing, and
`EnteredIsShown` compares a row before and after the entry that was made in it.

**HexGoTo.**  The dialog's four modes by offset and four by page, their
arithmetic modulo 2^64 (`Modulus`), the combo box that follows the page size only when the
dialog is activated, and the repetitions.  `Lands` counts in whole pages instead: see *The proofs*.

**HexCommand.**  A configuration is a sequence of a command's name and its texts, a text a sequence
of words; `KeyTexts` are the texts in the order of the file, and `BoundAll` reads them as SetConfig does, from a list with a place for each command in the
order of an unordered_map, which is any.  What the availability of commands depends on
(IsCmdAvail) is a set of facts that clients and other commands change at any time, so that an
item may be clicked, and a key pressed, when the facts are not those the menu was opened with.
`CmdKeyDown` and `OnMouseWheel` say what a key's and the wheel's messages tell of the modifiers.

**HexDialogs and HexCodepage.**  Each dialog has a record of what its class does (`GoToTakes`, `GoToHides`,
`GoToDestroy` …): which messages its ProcessMsg takes, which commands hide it, what its
OnDestroy drops and whether it forgets the control.  DestroyWindow of the control is several
steps, as Windows may destroy the windows the control's owns before or after its
WM_DESTROY, whose handler then goes through `DestroyOrder`.  Modify's two tabs are windows of their own
with flags of their own.  In HexCodepage a row is a place in the list, and the page in use is
what a row stood for when it was clicked.

**HexTooltip.**  `bkmTT` is the address m_pBkmTTCurr: a place in the vector of bookmarks, which another
bookmark may have later, or `Freed` after the vector has grown.  `quiet` remembers what the timer has hidden while the
mouse stays on it.

**HexView.**  Lengths are pixels.  `Bar` operators are the scroll bar's calculations
for a given sibling; RecalcAll sets the limits of both bars, and
WM_NCCALCSIZE takes their room from the window.  The thumb is computed with integers
where the code rounds floating-point numbers.

**HexShow and HexCopy.**  A layer is a function from offsets to items; runs of one item are
drawn as one string from the place of its first byte, with the spaces of the groups
inside it, as the seven Draw functions do with their own loops.  The lines between the areas
and the lines at the ends of pages are `VertLines`, `HorzLines` and `DrawPageLines`.  `PaintedInPlace` puts each cell at the
pixel the string reaches it and compares this with HexView's geometry, the one a mouse click
is judged by; its parts, one for the lines drawn, a row, a layer, the caret and the caption, are definitions of their
own.  `SelectNext` selects runs and blocks as the mouse makes them, and any spans in the data as a client and
the search's list do, which leave m_fSelectionBlock as the last click had it.  HexCopy has the ways to copy, with
`GetOffsetByIndex` and its value for what is beyond the spans.  `CopiedAsShown` says which bytes a copy of any such selection
has, the base64 copy as their bits; where they stand, it says of the formatted copy of a run and of a block, and of the
print screen of a run, which it compares with what HexShow draws.  Of spans that are neither see *Disagreements*.

## The runs

| Run | Bounds | Shows |
|---|---|---|
| `nav_fitting` | *halves* and *marks*: data of 1..3 bytes; *spans*: 4 bytes, a client selects up to two spans in any order; rows of 1..3, groups of 1..2, pages of 0 or 2 | whatever sequence of commands, gestures (but the three left out) and client calls: positions and selection inside the data, rows of whole groups |
| `user_input` | *gestures*: 7 bytes in rows of 1..3; *typing*: data of 2 and 3 bytes, 3 keys in a row; *interp*: 17 bytes of four values, five places, both byte orders, one entry; *goto*: 1..7 bytes, pages of 0, 2, 3, 9, numbers 0, 1, 2, 5 and 2^64 - 1; *keys*: three commands, five configurations, three keys, three sets of facts | Shift+arrows move the focus of the selection only; block drags are rectangles; digits stand where they were typed; the interpreter's rows tell of the bytes that are there, and what is entered is shown again; Go To goes where asked; the configured keys and the menu run available commands |
| `undo_history` | 3 bytes of two values, cache of 1, 3 snapshots, 2 dropped, snapshots of at most 2 bytes, disjoint spans | the histories stay bounded and well formed, and belong to data; every snapshot leads back; HexHistory is implemented |
| `modify_dialog` | bytes of two bits, 41 of them (a vector of 32, of 16, and 9 more); no selection, one of 36 bytes, a block of three 5-byte spans; operands 0, 1, 3, 5, -2 and 100; four texts, a list of two; AVX2 or not | the data becomes what the controls showed, inside the region they showed; the list keeps its limit and order |
| `modify_pieces` | 13 bytes, cache of 5, fast operands of 4, 2 and 10, a thread from 7 bytes; one to three spans | each byte modified once and as asked; pieces allowed; the call returns |
| `findall_all` | range of 6, 2 bytes searched for, cache of 4, steps of 1..3, limits of 2 and 9, replacements of 1 or 2 bytes | all matches found; replacements apart; the search returns |
| `findall_cancel_replace` | the same, Replace All on a worker | *violated*: worker and UI thread wait for each other |
| `search_dialog` | *hex*: 2 and 4 bytes of two values; *vectors*: 17 bytes in memory and 18 virtual ones, had 12 at a time, vectors of one lane of 8 bytes, searches for 1, 2 and 4 bytes from every offset; *texts*: 9 and 14 bytes of nine values, ASCII, UTF-8, UTF-16, numbers and times, one replacement | Find finds the next match in its direction; Replace writes one match; the list shows offsets of the data |
| `bkm_manager` | 3 bookmarks, data of 0 or 2, ids up to 3, a client writes the id 0; one bookmark of a client | identifiers stay distinct unless a client writes a taken one or they run out; the menu removes the selected while they are; the list follows |
| `templ_manager` | *manager*: three files, 2 templates loaded, 2 applied, both at offset 1, data of 0 or 5 bytes; *values*: six files with fields of every type, 18 bytes of four values, applied at 1 and at 9 (where it does not fit), one entry | nothing outlives its template; leaf fields tile it; the field hit has the byte; rows and nodes highlight their field, and what is entered in a row is written to its field alone and shown |
| `dialogs_life` | *windows*: any two of the seven dialogs, any number of lives of the control; *codepage*: three installed pages, one of which the system knows nothing of, three columns, two alike in one; *tooltip*: five offsets, three bookmarks, two of which overlap, over two fields, one offset with neither | dialogs know their control; nothing outlives its window; Esc does as asked; the list is whole and the page is the one chosen; a tooltip is watched, ends, is of something, and stays hidden |
| `view_scroll` | *scroll*: data of 5 or 14 bytes, rows of 2 or 4, groups of 1 or 2, fonts of 2 or 3, three widths, three heights; *paint*: 5 bytes marked with two items in every way; *copy*: 14 bytes, every run, every block and every two spans up to offset 8, at most 8 bytes copied, pages of 1..3 lines, drawn pages of 2, 3, 4 and 8 bytes | the view stays inside the data; what is gone to is seen; the thumb follows the mouse; arrow keys keep the caret in sight; bytes are drawn where they are hit, each line is printed on its page, copies have the bytes selected |

**Why the bounds are enough.**  Some runs have parts: a variable says which actions take
place, each with the data that brings its cases out, and no behaviour mixes two parts.
Navigation compares positions with each other, with
a row's ends and with the data's end: three bytes in rows of one and two have a
row that is full, one that is not, a first, an inner and a last byte; two spans in four bytes may be
of one size or not, in order or not, apart, adjacent or overlapping; the
gestures that depend on more rows have seven bytes in rows of up to three.
The undo model needs two spans in one snapshot (an Undo half way), one larger than
the cache, and a history that overflows while some of it is in m_vecRedo: three bytes and three snapshots
have all of these.  Overlapping spans, those too large to be remembered and the crash of a Redo are in `Spec` of HexUndo, about
which `UndoHistoriesOK` is proved.  HexModify needs each size to be no divisor of the one above it (13, 5, 4,
with operands of 1, 2, 3, 4, 5, 7 and 10), a span shorter and one longer than
each, and a first, an inner and a last piece.  HexFindAll needs three chunks, two
matches with and without a third between them, and a limit that ends the
search; `AllFound` is about chunks whose boundaries meet the steps (`MeetsChunks`): a step of one,
one of two from where the last chunk is met, and one of three, longer than a chunk.  HexSearch needs two matches to choose from, with everything
that may happen between two searches: 4 bytes; vectors have to be longer than twice the longest word they compare (4 bytes),
so that each shift has its mask: lanes of 8 bytes, with two of them and a rest behind, and chunks of 12, which are none of both, with a match across
each seam: 17 and 18 bytes; texts need a letter in both cases, a character
of two bytes, one the code page lacks, and a number of each size in data not much longer.
The interpreter needs data in which its longest rows (16 bytes) fit at two places and at
others do not, bytes that are dates, that are none, and that are negative; with
bytes of four values (`HalfValues` 2), 2 ticks in a millisecond and 8 in a second all
conversions round, overflow and fail as with the real constants.  Typing needs a byte
to the left, one to the right, and more keys than bytes.  Go To needs a last page that is whole, one
that is not, a page larger than the data, and a number that wraps.  The Modify dialog needs elements whose
sums carry out of a byte, a vector of each width and a remainder that is no whole
number of elements, and operands too large and of both signs: bytes of two bits have
all carries, borrows and saturations that bytes of eight have.  HexBkm needs an identifier
between two others, one that is the last there is, one written twice, and a removal of two rows of three.  HexTempl needs fields nested
in fields, arrays of custom types, a type that is not defined, and two applied
templates that overlap: both at offset 1, of templates of different sizes; its values need
what the interpreter's rows do, and a template that reaches past the data.  HexView
needs windows in which none, either and both of the bars are shown, and where
showing one makes the other necessary; its windows are at least two lines high
(a window of one line is too low for GoToOffset's centre).  What is drawn depends on
rows, on groups inside a row, and on an item that begins, ends or goes on at each of them: five bytes in
rows of two and of four have all, and all ways to mark them are tried.  Copies need a selection of one
row, of several, of a block, of two spans of a client, alike or not, one too long to copy, and all three lengths base64 pads differently.
Dialogs meet in the activation, in what they leave with the control and in the order of their end: two of them at a time
bring all of it, and the theorems are about all seven.  A page the list lacks, one the system does not know, one
that is both and two that are alike in a column are all the list tells apart.  The tooltip needs a bookmark over
another, one that moves up, a field under a bookmark and one alone.

**Deadlock** is checked where the system may not stop: `modify_pieces`,
`modify_dialog`, `findall_all`, `search_dialog`, `bkm_manager` and `dialogs_life`.  In `undo_history` the histories
may be left with nothing that undo is meant for, and
`nav_fitting`, `user_input`, `templ_manager` and `view_scroll` have bounds at which no input is left.

**Fairness** is assumed in HexModify, HexFindAll and HexTooltip only, for their three liveness
properties.  In HexTooltip time passes, and Windows posts the message of a timer that is set (weak
fairness of both): `TipsEnd` holds if the mouse never moves again.  In the other two: weak fairness of the loops' steps, as the operating system runs
both threads and every loop advances, and of the dialog's timer, which fires every
100 ms in the modal loop.  No user is assumed to do anything: `CallReturns` and
`SearchReturns` hold if nobody ever cancels.  In `findall_all` the user may cancel
Find All at any time, and lets Replace All come to its end (`PatientSpec`); with
a user who cancels it, `findall_cancel_replace` shows what happens.

A property of several parts is the conjunction of definitions that are stated, and proved, one by one
(`PiecesAsAsked`, `HistoriesLeadBack`, `KeysRunAsAsked`, `OperationsAsShown`, `DialogsAsAsked`, `RowsStandForPages`,
`TipFollowsMouse`); each part then has a mutant of its own.

Every property has a mutant in PROJECT.json: a change of the modelled code, such
as a remainder that is not filled, that makes TLC find the property
violated.

## The proofs

All theorems hold for every value of the constants that the modules' named
assumptions allow: `NavAssumption`, `GoToAssumption`, `RowsAssumption`, `EditAssumption`, `UndoAssumption`, `ModifyAssumption`,
`FindAllAssumption`, `BkmAssumption`, `ViewAssumption`, `RoomForBars`, `ShowAssumption`, `InstalledAssumption`,
`TooltipAssumption` and `CommandAssumption`.
The lemmas about quotients, remainders, least elements and flattened sequences that several of them need are in `HexArith`;
`LeastOf`, that a set of numbers has a least element, stands in where a reader would expect
an induction: the least round or index at which something fails is shown not to exist.

- `HexNav_proofs`, for any data size, capacity, group size and modulus larger than twice
  the data.  `NavPlacesInData` and `NavSelectionInData`
  for `FittingSpec`, whatever vectors of spans clients select: the inductive invariant `NavInv` is the types, the places and the
  selection together.  Shift+arrows treat the selection as one run
  of bytes from its start (`GetSelSize`), whatever its spans are.  `OrderlyRun` shows that this run is inside the data
  if the spans are `Orderly`, of one size and each behind the one before, as those of a drag are; of other spans it need not be, and
  `FittingSpec` has no Shift+arrows over them.  With it `ExtentInData` is
  shown for each of the four extents (`DownInData`, `UpInData`, `LeftInData`,
  `RightInData`); also `BlockFacts` and `BlockShape` for the rows of a block, and one
  lemma for each group of actions.
  `NavRowsOfWholeGroups`, for `Spec`, has an invariant of its own, `RowInv`: SetCapacity's rounding and
  its step back at the limit give whole groups (`FitIsWholeRow`), because the remainder of a number
  less one unit is the same (`LessOneUnit`).  `NavArrowsMoveFocus` follows from `NavInv`: with the caret
  at an end of one span, every extent goes on from the anchor.  `NavBlockIsRectangle` is an action property:
  of all steps only a drag selects several rows while the button is down
  (`OnlyDragsSelectRows`), and the spans of a drag, in each of its four directions, cover the rectangle
  (`BlockCovers`).
- `HexNav_proofs` also has `GoToLands`, that `FittingGoSpec` has `GoesWhereAsked`: for any data, page size
  and history of both, OK and the repetitions move the caret to the byte asked for, or
  leave it.  The invariant `GoInv` adds the dialog's types to `NavInv`, whose
  `CursorsInData` is what the result depends on: the caret is less than the data's
  size.  `WrapFacts` shows that a target below 0 wraps to at least `MaxSize` and is
  never taken for an offset, if 2^64 is large against the data (`NavAssumption`) and the product
  of number and page size does not reach it (`Countable`); `LastPageFacts`, that
  GoTo's remainder is the length of the last page; `ResultOfTarget` brings them together for each of the eight
  modes.  The assumption `GoToAssumption` says that an edit box gives a number or none.
- `HexNav_proofs`, about HexEdit: `TypedDigitsAlwaysStand`, and `InterpFollowsData`, that an open interpreter that was
  told of everything is at the caret and each of its rows is the text of the bytes there, for any data, any texts
  a user enters and any number of values of half a byte.  Both are for `FittingEditSpec`, which is HexEdit without the three gestures that
  `FittingNext` leaves out; `EditAssumption` says that clients and clipboard give bytes, and that a text has the fields of its row.
  `EditInv` adds to `NavInv` that the data has `dataSize` bytes (`DataOK`), the interpreter's fields,
  and the two properties.  A key changes the half of a byte at the caret and no other (`KeyStands`, `HalfFacts`),
  the caret goes on by one place, up to the last (`PlaceMoves`), and so the keys before stand where they stood
  (`OneKeyMore`): two of them are at the same place only at the last.  The rows follow because every handler either
  updates from the data and caret it leaves behind (`UpdateFollows`) or changes nothing they show (`UntoldFollows`).
  That what a row writes is bytes (`SetValueType`) rests on `ValuesFacts`: the powers in the conversions are
  a recursive function, and `RecursionExists` of `HexArith` shows that there is one, once more by the least number
  for which there is none.
- `HexNav_proofs`, about HexCommand: `KeysAlwaysRunAsAsked`, that `CmdSpec` has `MenuKeysWork` and `RunsAsAsked`, for any
  number of commands and texts, any order of the members of a file, and any place SetConfig's unordered map gives a command.
  `CommandAssumption` says that no key is a modifier or the wheel, what a configuration consists of, and what is pressed.
  `KeysBound` says what the bindings are after some of the texts: each command has a place, whose key is the first it
  was given, all its other keys are bound too, and nothing is bound that no text names.  A text more either takes a
  place kept free or comes behind all places (`OneTextMore`), and so no command loses its place (`FirstSame`); the
  least number of texts after which `KeysBound` fails does not exist (`AllBound`).  The inductive invariant
  `CmdInv` is that, for the configuration read last, and that each item shows its place's key.
- `HexUndo_proofs`: `UndoHistoriesOK` (both histories together keep
  the limit, no snapshot is empty, and without data there is nothing to undo) for `Spec`.  In `UndoInv`
  the bound on both histories together is inductive only
  if every snapshot in m_vecRedo may be taken again (`Remembered`) and none is empty.
  `SnapshotsLeadBackAlways`, and `UndoRefinesHistory`, that
  `HistorySpec` implements `History!Spec`: `HistoryInv` adds `Lines` to
  `UndoInv`: restoring the snapshots in turn gives the versions in `past` and `future`,
  and all snapshots are of disjoint spans inside the data.  The core of the
  argument is that, for disjoint spans, restoring what `Swapped` saved undoes
  what `Restored` did.  `HistoriesAlwaysLeadBack` states both together.
- `HexModify_proofs`: `ModifiesOnlyAsAsked`, `ModifiesAllAsAsked` and `AsksForPiecesInData`, that
  `Spec` has `OnlyAsAsked`, `AllAsAsked` and `PiecesAllowed`, if the calls are `Meant`: their
  spans do not overlap, and the operand fits into the cache or is a whole number of caches
  (*Disagreements* says what happens to another one).  `ModifyInv` says between which bounds the
  bytes are done: `WorkerBytes`, that a byte is as asked if it is in the part of a span which
  the worker has walked over (`DoneOf`) and untouched elsewhere; `TailBytes`, that the rest of the
  tail is untouched and all else is done; `Threads`, the protocol with the dialog: no worker outside
  the modal loop and the join, none that goes on once it was stopped.  `PieceFacts` shows the pieces of a span
  to be a walk without gap or overlap, `TailFacts` those of the tail, `AskedWhere` and `AskedInTail`
  that worker and tail share what is asked for.  Each action has a lemma; where the worker ends,
  `ToTail` hands its part over.  These are safety properties: that a call ends is `CallReturns`,
  which is model-checked.  `PiecesStayAsAsked` states the first and the last together.
- `HexFindAll_proofs`: `ReplacementsStayApart` and `FindAllFindsAll`, for any range, cache and step
  and any size of what is searched for and of its replacement.  `FindInv` adds to the types the protocol
  with the progress dialog (`Protocol`), that the search goes on behind the last replacement
  (`BehindReplaced`), and that all that is wanted below `start` is in the list (`FoundSoFar`) until it is
  all there (`Complete`).  The core is `ComparedIs`: if chunks meet the steps, the offsets that the
  search function compares in the chunks of CalcMemChunks are exactly the steps from where it began, so
  that overlapping chunks lose none and add none (`ChunksAre`, `ChunkAtSteps`).
- `HexBkm_proofs`: `BkmIdsStayDistinct`, `BkmMenuRemovesSelected` and `BkmListFollows`, for data, lists and
  selections of any size, and any bookmarks a client writes.  `BkmInv` holds types, and a selection
  that is among the list's items; not that identifiers are distinct, which a client may end.  `IdsStayDistinct` is
  therefore about steps: from distinct identifiers, of which none is the last, every step but a client's that writes one
  already taken leads to distinct ones (`DistinctStep`).  A new identifier is larger than all others
  (`NewIdFacts`), removals and sorts keep those left apart (`RemoveAtDistinct`, `WithoutSelectedDistinct`), and
  `UpdateIsWrite` says that a client overwrites the bookmark it named.  For the menu, `Kept` is the invariant of its loop: after some rounds the bookmarks
  left are those not selected and those of the first `p`, which no round has looked at and which stand where they
  stood, if no two have the same identifier; this is why the last of the selected has to go first (`KeptAsIs`, `KeptWithout`).
- `HexView_proofs`: `ViewStaysInData` and `ThumbStaysUnderMouse`, for every window with room for its
  bars, every font, layout and size of data.  `ViewInv` says that no bar is beyond its end by more than a bar's
  room, and that a hidden one is at its start and hides nothing (`Seen`).  What decides is that a
  recalculation of the frame brings any view of the right type inside (`FrameFacts`): it need not be inside before, whatever
  fonts, data or layout did to the limits.  The thumb is rounded twice: `ThumbFacts` shows that
  its room is never more than the largest position, and `RatioFacts` that under this condition the position of
  a thumb has that thumb again, but for the first pixel.  `RoomForBars` says that a window is not narrower
  than one bar nor lower than two; in a smaller one the unsigned extents wrap (*Disagreements*).
- `HexView_proofs`, `ArrowsAlwaysKeepCaret` and `GoneToStaysVisible`: `ViewInv` also says that the bars' limits are
  those of the layout and the data, and how far a frame's client area and a shown vertical bar can be off (`Framed`).
  An offset is in sight vertically iff its line is one of those from the top one on (`InSightIff`), and at
  the end of the bar none is left out under them (`LinesAtEnd`); so scrolling to where a line would be in
  sight puts it in sight even if the bar ends before (`ScrolledInSight`).  This needs no room, and with it the arrows
  need none.  `GoneToStaysVisible` has two hypotheses: `RoomForLines`, because the centre of a single line is
  the line before, and a bar hidden late leaves the view a bar's room beyond its end; and `RoomForColumns`, because
  GoToOffset's place of a column is short of the header and of some gaps, by more the more columns there are
  (`ColumnFacts`).  `MCHexView` assumes both of the cfg's windows, so that TLC evaluates them.
- `HexView_proofs`, `PrintsLinesOnce`: `ShowSpec` has `PrintedOnce`, for any data, capacity and printer.  A
  page has exactly the lines whose number, divided by the lines of a page, is the page's (`PageHas`), so that none has too many;
  every line of the data is on one of the pages (`PagesCover`), a range of pages is what they have when all are printed
  (`PagesOfRange`), and the remainder that the loop
  computes is never 0 (`FullPages`).  `ShowSpecIsView` carries the types of the view's `ViewInv` to
  `ShowSpec`.  `ShowAssumption` says that a printer's page has room for a line: a lower one divides by zero (*Disagreements*).
- `HexView_proofs`, `PaintedAlwaysInPlace`: `ShowSpec` has `PaintedInPlace`, in every window with room for the lines, for any
  marks, selection, layout and font.  `ShowInv` adds to `ViewInv` that the marks are of the data and that no selected span
  is empty (`SpansOK`, for a client's spans `ClientSpansOK`); the rest is geometry.  A string's characters stand one width apart, and a place of the string
  is the place of a column because the characters before a column are its digits, the gaps of its groups and that of its
  block (`CharsFacts`).  A row's bytes are gathered into strings of one item; `LineInv`
  is the invariant of that loop, kept by each byte (`ByteStep`) and so true after all of them (`AllDrawn`, by the
  least number after which it fails): the strings ended so far and the open one have exactly the bytes of the items, each
  where its column is.  The caption is put together from five parts,
  each of which stands where those before it end (`PartStands`, `CaptionStands`).  The lines at the ends of pages are those
  of the offsets that a page's size divides (`PageOfLine`, `PagesAreApart`).  `RoomForLines` is needed for one thing:
  that the line on top is one of the data (`TopInData`), so that lines are in sight at all.  `ShowAssumption` says that pages have lines and
  characters a width.
- `HexView_proofs` also has the tooltip's `TooltipAlwaysWatched`, `TooltipOfSomething` and `TooltipStaysQuiet`, together `TooltipFollowsMouse`, for
  all bookmarks, fields and places of both.  `TooltipInv` adds to the types that bookmarks differ (`BkmsOnce`), that
  a field's address is that of what is seen if no bookmark's is held (`TipNamed`), and what the
  history says (`QuietKept`): what the timer has hidden is what is under the mouse, and the addresses are still its.  The
  two lookups meet there: a move to another place with the same tooltip finds the same address
  (`MoveStep`), as bookmarks differ from each other and from fields.
- `HexDialogs_proofs`: `DialogsAlwaysKnowControl`, `KeptByTheirDialogs`, `NothingOutlivesControl` and
  `EscAlwaysAsAsked` for `DialogsSpec`, together `DialogsStayAsAsked`; `ListStaysWhole` and `PageStaysAsChosen`,
  together `RowsAlwaysStandForPages`, for `CodepageSpec`, for any pages and columns.
  `DialogsInv` adds `TurnToCome`, that in OnDestroy each window that is left is of a dialog whose turn is to come: with it,
  no window is left at the end, whatever Windows destroyed before.  `FlagsHeld` says that each window holds
  the flags the client last set for its dialog; without it Modify's tabs could differ from it.  The list of pages stays whole through a sort because an order of
  finitely many pages that has all of them has each once (`ListIsWhole` is about its length and its elements).

**Model-checked only.**  Liveness (`CallReturns`, `SearchReturns`, `TipsEnd`: fairness and ENABLED are beyond the
prover), and all of HexSearch, HexOper, HexDlgModify, HexTempl, HexTemplValues and HexCopy; of HexEdit `EnteredIsShown`, and of `RowsShowData` that a row's text tells of its bytes.  HexTempl cannot
be proved about: nested fields need RECURSIVE operators, with which the prover
loses its arithmetic; HexOper works on bits and cannot either; what HexRows, HexScan and HexCopy compute is
a recursion over bytes, and that the conversions of HexRows are each other's inverse an induction over it.

## Disagreements of code and words

The run `findall_cancel_replace` violates what the code's comment says: cancelling a Replace All that runs on a
worker stops the program.  PROJECT.json quotes the line.

The others were met while modelling.  No run is spent on them; where a model
leaves one out, it says so.

*Navigation.*  A block drag, or a Shift+double click, on the last row selects
bytes past the data (C:7289); Shift+Down's clamp then underflows (C:4512), and
FillWithZeros hands the span to ModifyWorker, which asserts it is not there
(`FittingSpec` leaves these gestures out).  So may Shift+arrows over several spans that a client or the search's
list selected: GetSelSize is the number of spans times the first one's size, which is more than there is behind the first byte if
sizes differ, spans overlap or the first is not the lowest.  Shift+Down and Shift+Right then underflow
in the clamp and put the caret past the data (C:4512, C:4623), Shift+Left and Shift+Up have no clamp
(C:4531, C:4647) and select past it (`FittingSpec` has Shift+arrows over `Orderly` spans only).  Shift+Left and Shift+Up reach SetSelection's
assertion without data (C:1154).

*Undo.*  In virtual data a span larger than the cache is saved and restored at
offset 0 (C:4868, 4775, 4401); a modification larger than 10 MB takes no snapshot and keeps the
older ones (C:4751); OPER_ASSIGN takes two snapshots (C:1430); Undo and Redo write to data that is
read-only by now (C:4850); Redo, when memory runs out in its SnapshotUndo, reads
a snapshot that was freed (C:4387, the action `RedoOutOfMemory`).

*Modification.*  An operand larger than the cache and no multiple of it leaves
bytes out and modifies others twice (C:4054); over several spans the progress is
reported below the dialog's minimum (C:3974); a MODIFY_ONCE outside the data leaves drawing
turned off (C:1256); a paste that fails leaves the clipboard open (C:2530).

*Search.*  A step of 0, which the dialog accepts (F:1427), compares the same bytes
forever; in virtual data the chunks need not be a whole number of steps long, and
matches between two steps are found (F:1983); VEC256 shifts each 128-bit lane by
itself, so that a match across the lanes is missed and another is made up (F:2053; the comment
at F:2061 speaks of one vector); a cancelled search says that the end was
reached; Search turns drawing off and each replacement of Replace All turns it on again (F:1703);
the number of the occurrence shown is decremented at 0 (F:422); Replace without room for
its bytes still selects them past the data.  Forward, a search for exactly 1, 2 or 4 bytes at step 1
takes the vectors, which compare exactly, also for text without regard to case, whose
search bytes are in lower case: only lower-case text is found, while backward both are
(F:502; `FindsInOrder` leaves the case out as `CaseOfVectors`).  With the box Wildcard, the hex byte 3F and each
character the code page lacks (it becomes '?') match anything; a wildcard after an odd digit is
swallowed (U:237: "1?" is the byte 01).  FILETIME in big-endian order swaps each half of its
8 bytes, where interpreter and templates swap all of them.  Another type of the same mode with the same text
keeps the results of the old one, which may reach past the data's end.

*Modify dialog.*  A list of fillings that is out of date refuses a random filling of a
small region (D:817); a text picked from the list does not enable OK (D:702); a message box
moves the region from All to Selection (D:93); a negative divisor passes the dialog, and
ModifyOper asserts that it is positive (C:4956); OPER_SWAP of one-byte elements by
vectors makes them zero (C:5054; the dialog disables it); shifts by a negative or too large count have no
meaning in the scalar form.  "Data = max(Data, Operand)" (D:484) makes two numbers of alike NaNs: vectors take the operand
(C:5756), the remainder keeps the data (C:4960).

*Dialogs.*  The Modify dialog's ProcessMsg takes no WM_CLOSE: the button of its caption does nothing, its OnClose (D:941) is
never called, and with HEXCTRL_FLAG_DLG_NOESC a user cannot close it.  A window's destruction resets its dialog's flags
(HexDialogs: `noEsc`), but flags set for a dialog that never had a window survive the control's.  In the code page dialog Enter closes it as
Esc does, and README.md:695 speaks of Esc.  The interpreter's OnDestroy does not reset the size of its highlight
(I:398).  Of Modify's two tabs the model lets either have the key.

*Bookmarks.*  An identifier is "assigned internally by framework" (src/HexCtrl/HexCtrl.h:146), but GetByID and GetByIndex
hand a client the bookmark itself, and Update, which nothing in the repository calls, copies a whole record over it (B:353): a client
can make two identifiers alike, or use the last, after which the next is 0.  The manager's menu then removes a bookmark
that was not selected, the first with the identifier (B:434; `MenuRemovesSelected` is about distinct ones).  The tooltip knows its bookmark by an address (C:7301): over a bookmark that has moved to the place of a
removed one (B:741) it is still the removed one's.  The manager's Remove looks at the control's own list even while a
client's is shown (B:420-445, against README.md:247); with the dialog open AddBkm moves
the caret (against the comment at B:649); RemoveByOffset is called after the list may have been
sorted (B:259); the first GoNext skips the first bookmark; identifiers are used
again after the largest is removed; SetVirtual does not refresh the list.  Remove is available without data, asks GetCaretPos (which
asserts and returns 0) and removes a bookmark at offset 0; the current index survives the
window, the bookmarks do not.

*Templates.*  DisapplyAll shows the texts before it resets the pointer (T:130), so that offset and size of a template that is
disapplied stay, against T:1917.  A field without a byte order of its own is little-endian whatever the
default of its level (T:2181, against README.md:335).  A right click in the tree highlights at another template's
offset; unloading all leaves the buttons enabled; templates applied before the dialog
exists never enter its tree; UnloadTemplate empties the list whichever template it
shows; an array on a field with "Fields" is ignored; ClearData does not disapply; a
field of a custom size is shown swapped under a big-endian order and written as it is;
an entry there that is no number of its size is accepted without a word; SetDataFILETIME
writes a valid time and then reports incorrect data (T:1627-1645); a field of a template that does not wholly fit
shows nothing, but can be entered, and is written if the field itself fits; a
SYSTEMTIME of month 13 is accepted; the box "Highlight selected" is unchecked in a new window, as
it is set from itself (T:715).  A client that disapplies while an edit box is open leaves the box, whose
Enter reads the list of fields that is gone (HexTemplValues leaves this client out).

*Data interpreter.*  A row newly selected shows its bits without the big-endian
swap that UpdateData and SetDataBinary make; ShowValueJAVATIME drops the sign SetDataJAVATIME
writes for times before 1970; the two MS-DOS rows are shown swapped in big-endian order and written
as they are; the MS-DOS row, of 4 bytes, is declared a QWORD; SYSTEMTIME and UDTTM
confirmed unchanged lose the weekday, FILETIME its ticks below a millisecond; the
spaces of a 32 and 64-bit binary value are not at its bytes (I:1012, I:1020).  A drag and a double click move the caret without
telling the interpreter; its highlight is drawn at the caret while its values, and what is
entered, are at the offset of the last update; ClearData, SetData and SetMutable do not update it.  After data
became smaller, a row kept from before asserts in SetIHexTData and writes nothing.

*Go To.*  A page size set to 0 while the dialog is inactive leaves a page mode and what may be repeated:
"page" then goes to 0.  Huge numbers wrap: forward by 2^64 - 1 moves back by one.

*Drawing, printing and copying.*  DrawTemplates' fPrintVertLine is never false, against the
comment at C:3163.  A window with room for one line or none, scrolled to the end, has its top line
below its bottom line: the assertion at C:7406 fails and nothing is drawn (left out of the model).  Print draws the
caret on every page, judged by what the window shows, and may read outside the page's text
(C:3590); "current page" prints none (C:4206); data that fills its pages exactly gets an empty last page;
printing a window scrolled sideways prints it shifted; a page lower than one line divides by zero.
Of several spans that are neither a block nor one run, CopyPrintScreen ("Only works with classical selection.", C:2781) and the
rows of CopyHexFmt lay out one run of GetSelSize bytes from the first span's start: the print screen shows bytes that are not selected in place of
selected ones.  Of spans of unequal sizes, GetSelSize is more or less than there is to copy, and a copy ends early or has, for what no span has, a byte
that GetData finds for the offset 2^64 - 1 (S: GetOffsetByIndex; `NoOffset` in HexCopy).
CopyHexFmt's leading spaces lack the gap between the halves of a row for odd capacities; CopyPrintScreen
counts a line too many for two or more whole rows, and asks virtual data for more than its cache holds.

*View.*  GoToOffset(offset, 1) near the start underflows and goes to the end of the
data (C:1020, against README.md:534-537); a scroll bar deducts its sibling's room
twice; whether H is shown is decided before V is (L:333); a position may lie past
the end by up to one bar; a slow drag may leave the thumb where it was; when all is
in sight the thumb's ratio is 0/0; a lost mouse capture is not noticed and the
repeat timer goes on; HitTest accepts one line below the last
(`y <= m_iEndWorkAreaPx`); CaretMoveLeft to the end of the line above does not scroll
sideways.

A window narrower than one bar, or lower than two, wraps the unsigned extents that are left and
hides the bar (L:342, L:359; `RoomForBars` leaves it out).

*Commands and keys.*  A name in the menu keeps the key of a configuration that is no longer in force if the
new one gives its command none (C:1886); F10 alone arrives as WM_SYSKEYDOWN, for which Alt is
taken to be pressed (C:7467), so that "f10" never runs a command and "alt+f10" runs on F10; the wheel never
tells of Alt, so that "alt+mouse_wheel_up" never runs (`Told` in HexCommand).

*Elsewhere.*  OPER_MIN takes the larger and OPER_MAX the smaller of two values, so that
they are a floor and a ceiling (C:4960); of two commands bound to one key the order of an unordered_map
decides; a configuration file that cannot be opened leaves a null document whose members are
read (C:1857); m_fKeyDownAtm stays set when the focus leaves while
a key is down (C:7039), and the data interpreter does not follow the caret until the
next key is released.

## What is not modelled, and why

- Vendored libraries (`dep/`: rapidjson, ListEx, StrToNum): third-party code, and about 60 % of
  the repository's lines.
- Platform calls: places of windows, fonts, brushes, colours, the tooltip of the scrolled offset, message texts; the info
  bar and its page numbers.
- Printing a selection only (HexShow prints all the data or some of its pages), a client's selection of an empty span or one
  outside the data, which SetSelection does not check, and the marks around bytes in the C array and grep copies, which are
  formats.
- Tables: the code pages (constants of HexSearchText), the decimal text of floating-point numbers, OLE time.
- The rounding of floating-point operations, and the values of random bytes.
- Who sets the selection highlight (SetSelHighlight; HexShow draws any), dragging outside the
  window, the keyboard state of the horizontal wheel, windows of one line.
- A memory shortage outside the try blocks of SnapshotUndo and Undo, which
  leaves the control as an exception; ARM64, where the vector width differs.
- A client that calls back into the control from a notification: its calls are
  actions of their own, between two handlers and not inside one.
- A search step near 2^64, whose multiples overflow; data of another size set while a search runs.

## The plan

Done, in this order: HexNav and its proofs; HexUndo, HexHistory, the refinement
and their proofs; HexProgress with HexModify, its proofs, and HexFindAll; HexScan and HexSearch;
HexBkm; HexTemplFields and HexTempl; HexView; HexOper and HexDlgModify; HexRows, HexEdit
and HexTemplValues; HexGoTo and its proof; HexSearchText; HexShow and HexCopy; HexCommand; the proofs
of the gestures and rows of HexNav, of HexFindAll, HexBkm and HexView; HexDialogs and HexCodepage with their proofs;
floating-point types in HexOper; HexTooltip and its proofs; the proofs of HexShow, of HexEdit and of HexCommand.

Left, in order of what can go wrong most:

1. Proofs: that the conversions of HexRows are each other's inverse, with which
   `InterpFollowsData` would become `RowsShowData`.
2. HexNav composed with HexUndo: Undo changes the data under a selection that a
   client adjusted.
3. A client that calls back from a notification, inside a handler.
