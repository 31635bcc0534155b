------------------------------ MODULE HexModify ------------------------------
(***************************************************************************)
(* How a modification reaches every byte of its spans (CHexCtrl.cpp:       *)
(* ModifyData, ModifyWorker).  A call repeats an operand over its spans.   *)
(* A single span is filled with a longer, faster operand and its remainder *)
(* afterwards; virtual data goes through a cache, piece by piece; large    *)
(* calls run on a thread of their own, behind the progress dialog.  Bytes  *)
(* are represented by what was written to them: the operand's byte.        *)
(***************************************************************************)
EXTENDS HexProgress, Integers, SequencesExt

CONSTANTS
  DataSize,    \* GetDataSize()
  CacheSize,   \* GetCacheSize(), at least 64 KB
  FastFill,    \* ulSizeBuffFastFill, 256
  VecSize,     \* ulSizeOfVec, 16 or 32
  Word,        \* sizeof(std::uint64_t)
  RandBuffer,  \* ulSizeRandBuff, 1 MB
  ThreadSize,  \* uSizeToRunThread, 50 MB
  Calls        \* bound: the calls made

Modes == {"ONCE", "RAND_MT19937", "RAND_FAST", "REPEAT", "OPERATION"}

Spans == [ullOffset : Nat, ullSize : Nat \ {0}]

\* A modification: fill is the operand's size (spnData; a number's size in
\* OPERATION; 1 for random bytes, each as good as the other).
ASSUME ModifyAssumption ==
  /\ {DataSize, CacheSize, FastFill, VecSize, Word, RandBuffer} \subseteq Nat \ {0}
  /\ ThreadSize \in Nat
  /\ \A size \in {FastFill, VecSize, Word} : size <= CacheSize
  /\ Calls \subseteq [mode : Modes, virtual : BOOLEAN, spans : Seq(Spans), fill : Nat \ {0}]
  /\ \A c \in Calls :
       /\ c.spans # <<>>
       /\ \A k \in 1..Len(c.spans) : c.spans[k].ullOffset + c.spans[k].ullSize <= DataSize
       /\ c.mode \in {"RAND_MT19937", "RAND_FAST"} => c.fill = 1
       /\ c.mode = "OPERATION" => VecSize % c.fill = 0

VARIABLES
  stage,    \* of ModifyData: "idle", "worker", "tail", "done"
  call,     \* hms, the last call's
  k,        \* the worker's span, from 1
  chunk,    \* iterChunk, or the tail's piece, from 0
  touched,  \* what each byte was modified with
  stopped,  \* the worker was cancelled
  redraw    \* m_fRedraw

modifyVars == <<stage, call, k, chunk, touched, stopped, redraw, progressVars>>

Offset == 0..DataSize - 1
Untouched == -1
Twice == -2

Least(a, b) == IF a <= b THEN a ELSE b
DivUp(a, b) == (a \div b) + (IF a % b > 0 THEN 1 ELSE 0)

Total(c) == SumFunction([i \in 1..Len(c.spans) |-> c.spans[i].ullSize])
Single(c) == Len(c.spans) = 1
Size(c) == Last(c.spans).ullSize

-----------------------------------------------------------------------------
(* What the worker is given, and what is left to the tail                  *)

\* The operand ModifyWorker repeats: for a single span, if it is worth it, a
\* buffer of many of the call's operands.
Operand(c) ==
  CASE c.mode = "REPEAT" /\ Single(c) /\ Size(c) > FastFill
         /\ c.fill < FastFill /\ FastFill % c.fill = 0 -> FastFill
    [] c.mode = "OPERATION" /\ Single(c) /\ Size(c) \div VecSize > 0 -> VecSize
    [] c.mode = "RAND_MT19937" /\ Single(c) /\ Size(c) >= Word -> Word
    [] c.mode = "RAND_FAST" /\ Single(c) /\ Size(c) >= CacheSize -> RandBuffer
    [] OTHER -> c.fill

\* Mutant: the remainder of the fast operand is not filled.
NoTail(c) == IF c.mode = "ONCE" THEN Least(Size(c), c.fill) ELSE 0

\* The bytes at the last span's end left after the worker: whole operands of
\* the remainder (GetData is asked for all of it).  ONCE has no worker: all
\* it copies.
TailSize(c) ==
  LET rem == Size(c) % Operand(c)
  IN  IF c.mode = "ONCE" THEN Least(Size(c), c.fill)
      ELSE IF Operand(c) = c.fill THEN 0
      ELSE rem - (rem % c.fill)

TailStart(c) ==
  IF c.mode = "ONCE" THEN Last(c.spans).ullOffset
  ELSE Last(c.spans).ullOffset + Size(c) - (Size(c) % Operand(c))

-----------------------------------------------------------------------------
(* Pieces: one GetData, the operands applied to it, one SetDataVirtual.    *)
(* first is the operand's byte that the piece starts with                  *)

Piece(offset, size, first) == [ullOffset |-> offset, ullSize |-> size, first |-> first]

\* Mutant: pieces of the whole span, whatever the cache.
WholeSpan(c, span) == span.ullSize

\* The cache holds an operand: pieces of as many operands as fit into it.
Aligned(c, span) ==
  IF ~c.virtual THEN span.ullSize
  ELSE Least(span.ullSize, CacheSize - (CacheSize % Operand(c)))

\* Mutant: the piece at the span's end is not cut off there.
LongPiece(c, span, i) ==
  LET start == span.ullOffset + i * Aligned(c, span)
  IN  Piece(start, Least(Aligned(c, span), DataSize - start), 0)

LargePiece(c, span, i) ==
  LET start == span.ullOffset + i * Aligned(c, span)
      room  == Least(DataSize, span.ullOffset + span.ullSize) - start
  IN  Piece(start, Least(Aligned(c, span), room), 0)

CacheHoldsOperand(c) == ~c.virtual \/ CacheSize >= Operand(c)

\* The operand is larger than the cache: it is applied in SmallChunks pieces
\* of the cache's size, the last one smaller.
SmallMod(c) == Operand(c) % CacheSize
SmallChunks(c) == DivUp(Operand(c), CacheSize)

SmallPiece(c, span, i) ==
  LET cur == i % SmallChunks(c)
  IN  IF cur = SmallChunks(c) - 1 /\ SmallMod(c) > 0
      THEN Piece(span.ullOffset + (i - 1) * CacheSize + SmallMod(c), SmallMod(c),
                 (cur - 1) * CacheSize + SmallMod(c))
      ELSE Piece(span.ullOffset + i * CacheSize, CacheSize, cur * CacheSize)

Chunks(c, span) ==
  IF CacheHoldsOperand(c) THEN DivUp(span.ullSize, Aligned(c, span))
  ELSE (span.ullSize \div Operand(c)) * SmallChunks(c)

WorkerPiece(c, span, i) ==
  IF CacheHoldsOperand(c) THEN LargePiece(c, span, i) ELSE SmallPiece(c, span, i)

\* A piece shorter than the operand ends the span.
HasPiece(c, span, i) ==
  /\ i < Chunks(c, span)
  /\ CacheHoldsOperand(c) => LargePiece(c, span, i).ullSize >= Operand(c)

\* How often the operand goes into a piece.
Times(c, piece) == IF CacheHoldsOperand(c) THEN piece.ullSize \div Operand(c) ELSE 1
Unit(c, piece) == IF CacheHoldsOperand(c) THEN Operand(c) ELSE piece.ullSize

\* The tail's copy loop, for the modes whose tail may exceed the cache: the
\* remainder goes into the last piece but one.
InCache(c) == Least(TailSize(c), CacheSize)
TailChunks(c) == DivUp(TailSize(c), InCache(c))

TailPiece(c, i) ==
  LET rem   == TailSize(c) % InCache(c)
      short == rem > 0 /\ i = TailChunks(c) - 2
      start == IF rem > 0 /\ i = TailChunks(c) - 1 THEN (i - 1) * InCache(c) + rem
                                                  ELSE i * InCache(c)
  IN  IF c.mode = "ONCE" /\ ~c.virtual
      THEN Piece(TailStart(c), TailSize(c), 0)
      ELSE Piece(TailStart(c) + start, IF short THEN rem ELSE InCache(c), start)

TailPieces(c) ==
  IF TailSize(c) = 0 THEN 0 ELSE IF c.mode = "ONCE" /\ ~c.virtual THEN 1 ELSE TailChunks(c)

\* Mutant: the fast operand holds the call's operand once, not repeatedly.
TouchUnrepeated(c, piece, size) ==
  [o \in Offset |->
     IF o \in piece.ullOffset..piece.ullOffset + size - 1
     THEN IF touched[o] = Untouched THEN piece.first + ((o - piece.ullOffset) % Operand(c)) ELSE Twice
     ELSE touched[o]]

\* The first size bytes of a piece modified with the operand's bytes.
Touch(c, piece, size) ==
  [o \in Offset |->
     IF o \in piece.ullOffset..piece.ullOffset + size - 1
     THEN IF touched[o] = Untouched THEN (piece.first + (o - piece.ullOffset)) % c.fill ELSE Twice
     ELSE touched[o]]

-----------------------------------------------------------------------------
(* ModifyData                                                              *)

curSpan == call.spans[k]
curPiece == WorkerPiece(call, curSpan, chunk)

ModifyData(c) ==
  /\ stage \in {"idle", "done"}
  /\ call' = c
  /\ stage' = IF c.mode = "ONCE" THEN "tail" ELSE "worker"
  /\ k' = 1
  /\ chunk' = 0
  /\ touched' = [o \in Offset |-> Untouched]
  /\ stopped' = FALSE
  /\ redraw' = FALSE
  /\ IF c.mode # "ONCE" /\ Total(c) > ThreadSize
     THEN Launch(Last(c.spans).ullOffset)
     ELSE RunInline(Last(c.spans).ullOffset)

\* A span too short for the operand ends the loop over the spans.
AtSpan == stage = "worker" /\ WorkerRuns /\ k <= Len(call.spans) /\ Operand(call) <= curSpan.ullSize

\* Where the worker is in the span once the n-th operand of the piece is in.
Report(n) == current' = IF CacheHoldsOperand(call)
                        THEN curPiece.ullOffset + (n - 1) * Operand(call)
                        ELSE curPiece.ullOffset + curPiece.ullSize

\* Also when m_fCancel, a plain bool of both threads, is set: the worker may see
\* it late, or not at all.
ModifyChunk ==
  /\ AtSpan
  /\ HasPiece(call, curSpan, chunk)
  /\ touched' = Touch(call, curPiece, Times(call, curPiece) * Unit(call, curPiece))
  /\ chunk' = chunk + 1
  /\ Report(Times(call, curPiece))
  /\ UNCHANGED <<stage, call, k, stopped, redraw, ui, worker, cancel>>

\* The worker looks at m_fCancel after each operand; what is modified by then
\* is stored.
CancelChunk(n) ==
  /\ AtSpan
  /\ worker = "running"
  /\ HasPiece(call, curSpan, chunk)
  /\ cancel
  /\ ~stopped
  /\ n \in 1..Times(call, curPiece)
  /\ touched' = Touch(call, curPiece, n * Unit(call, curPiece))
  /\ stopped' = TRUE
  /\ WorkerEnds
  /\ UNCHANGED <<stage, call, k, chunk, redraw>>

NextSpan ==
  /\ AtSpan
  /\ ~HasPiece(call, curSpan, chunk)
  /\ k' = k + 1
  /\ chunk' = 0
  /\ UNCHANGED <<stage, call, touched, stopped, redraw, progressVars>>

\* The worker comes to its end; inline, ModifyData goes on to the tail.
EndWorker ==
  /\ stage = "worker"
  /\ WorkerRuns
  /\ ~(k <= Len(call.spans) /\ Operand(call) <= curSpan.ullSize)
  /\ IF worker = "running"
     THEN WorkerEnds /\ UNCHANGED <<stage, chunk>>
     ELSE stage' = "tail" /\ chunk' = 0 /\ UNCHANGED progressVars
  /\ UNCHANGED <<call, k, touched, stopped, redraw>>

JoinWorker ==
  /\ Join
  /\ stage' = "tail"
  /\ chunk' = 0
  /\ UNCHANGED <<call, k, touched, stopped, redraw>>

\* The remainder is filled whether or not the worker was cancelled.
ModifyTail ==
  /\ stage = "tail"
  /\ chunk < TailPieces(call)
  /\ touched' = Touch(call, TailPiece(call, chunk), TailPiece(call, chunk).ullSize)
  /\ chunk' = chunk + 1
  /\ UNCHANGED <<stage, call, k, stopped, redraw, progressVars>>

\* SetRedraw(true) and OnModifyData.
EndModify ==
  /\ stage = "tail"
  /\ chunk >= TailPieces(call)
  /\ stage' = "done"
  /\ redraw' = TRUE
  /\ ui' = "free"
  /\ UNCHANGED <<call, k, chunk, touched, stopped, worker, cancel, current>>

modifyElse == <<stage, call, k, chunk, touched, stopped, redraw>>

CancelDialog == OnCancel /\ UNCHANGED modifyElse
CloseDialog == OnTimer /\ UNCHANGED modifyElse

-----------------------------------------------------------------------------
(* The specification                                                       *)

Init ==
  /\ stage = "idle"
  /\ call \in Calls
  /\ k = 1
  /\ chunk = 0
  /\ touched = [o \in Offset |-> Untouched]
  /\ stopped = FALSE
  /\ redraw = TRUE
  /\ ProgressInit

\* One pass of the loops, whichever thread they run on.
ModifyStep ==
  \/ ModifyChunk \/ NextSpan \/ EndWorker
  \/ AtSpan /\ \E n \in 1..Times(call, curPiece) : CancelChunk(n)
  \/ JoinWorker \/ ModifyTail \/ EndModify

Next ==
  \/ \E c \in Calls : ModifyData(c)
  \/ ModifyStep
  \/ CancelDialog
  \/ CloseDialog

\* The threads are scheduled, and the dialog's timer fires while it is open.
\* Nothing makes the user cancel.
Fairness ==
  /\ WF_modifyVars(ModifyStep)
  /\ WF_modifyVars(CloseDialog)

Spec == Init /\ [][Next]_modifyVars /\ Fairness

-----------------------------------------------------------------------------
(* Properties                                                              *)

\* The state's types.
TypeOK ==
  /\ stage \in {"idle", "worker", "tail", "done"}
  /\ call \in Calls
  /\ k \in 1..Len(call.spans) + 1
  /\ chunk \in Nat
  /\ touched \in [Offset -> {Untouched, Twice} \cup (0..call.fill - 1)]
  /\ stopped \in BOOLEAN
  /\ redraw \in BOOLEAN
  /\ ProgressTypeOK

\* What a call asks for, as the interface states it: its bytes once (ONCE),
\* or again and again over each span, as often as they fit; the first span
\* they do not fit into ends it.
Filled(c, i, o) ==
  /\ \A j \in 1..i : c.spans[j].ullSize >= c.fill
  /\ o >= c.spans[i].ullOffset
  /\ o < c.spans[i].ullOffset + (c.spans[i].ullSize \div c.fill) * c.fill

Asked(c, o) ==
  IF c.mode = "ONCE"
  THEN IF o \in Last(c.spans).ullOffset..Last(c.spans).ullOffset + Least(Size(c), c.fill) - 1
       THEN o - Last(c.spans).ullOffset ELSE Untouched
  ELSE IF \E i \in 1..Len(c.spans) : Filled(c, i, o)
       THEN (o - c.spans[CHOOSE i \in 1..Len(c.spans) : Filled(c, i, o)].ullOffset) % c.fill
       ELSE Untouched

\* No byte is ever modified twice, with another byte than its own, or outside
\* the spans: however the fast operand, its remainder, the cache's pieces and
\* a Cancel cut the call up (an OPERATION applied twice is not what was asked).
OnlyAsAsked == TypeOK /\ \A o \in Offset : touched[o] \in {Untouched, Asked(call, o)}

\* A call that was not cancelled has modified all it was asked to, and drawing
\* is on again (SetRedraw).
AllAsAsked ==
  stage = "done" => redraw /\ (~stopped => \A o \in Offset : touched[o] = Asked(call, o))

\* What GetData asserts of every piece: not empty, inside the data and, if
\* data is virtual, no larger than the cache.
PieceAllowed(p) ==
  /\ p.ullSize > 0
  /\ p.ullOffset + p.ullSize <= DataSize
  /\ call.virtual => p.ullSize <= CacheSize

PiecesAllowed ==
  /\ (AtSpan /\ HasPiece(call, curSpan, chunk)) => PieceAllowed(curPiece)
  /\ (stage = "tail" /\ chunk < TailPieces(call)) => PieceAllowed(TailPiece(call, chunk))

\* The pieces of a call are of its bytes, each byte once, and GetData allows them.
PiecesAsAsked == OnlyAsAsked /\ PiecesAllowed

\* The UI thread always comes out of a call: the dialog closes by itself when
\* the worker ends, and the worker is joined.
CallReturns == ui # "free" ~> ui = "free"

=============================================================================
