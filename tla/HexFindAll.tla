----------------------------- MODULE HexFindAll -----------------------------
(***************************************************************************)
(* Find All and Replace All of the search dialog (CHexDlgSearch.cpp).      *)
(* Small ranges are searched on the UI thread, others on a worker behind   *)
(* the progress dialog.  That dialog disables the search dialog only: the  *)
(* user can change the data in the hex control meanwhile.  A replacement   *)
(* is a ModifyData call, which sends a message to the parent's window:     *)
(* from the worker, it waits until the UI thread takes messages.           *)
(***************************************************************************)
EXTENDS HexProgress, Integers, Sequences

CONSTANTS
  Sentinel,  \* GetSentinel(): the end of the range searched
  SizeFind,  \* GetSearchDataSize()
  CacheSize, \* GetCacheSize(): of virtual data, a search gets so much at once
  Requests   \* bound: the searches made

\* small is IsSmallSearch(), virtual IsVirtual(); the rest is set in the dialog.

ASSUME FindAllAssumption ==
  /\ Sentinel \in Nat \ {0}
  /\ SizeFind \in 1..Sentinel
  /\ CacheSize \in Nat /\ CacheSize > SizeFind
  /\ Requests \subseteq [replace : BOOLEAN, small : BOOLEAN, virtual : BOOLEAN, from : Nat,
                         step : Nat, sizeRepl : Nat \ {0}, limit : Nat \ {0}]
  /\ \A r \in Requests : r.from + SizeFind <= Sentinel

VARIABLES
  req,       \* m_fReplace, GetStep(), m_dwLimit, m_vecReplaceData.size(), ...
  pc,        \* of the loop: "idle", "ask", "search", "notify", "ended", "finish"
  start,     \* m_ullStartFrom
  found,     \* findRes.ullOffset
  results,   \* m_vecSearchRes
  matches,   \* the offsets where the data matches, as it is now
  edited,    \* the user changed the data during this search
  broken     \* the search was cut short by Cancel

findVars == <<req, pc, start, found, results, matches, edited, broken, progressVars>>

Places == 0..Sentinel - SizeFind
LastSearchOffset == Sentinel - SizeFind

-----------------------------------------------------------------------------
(* The search function: the first match it comes across from start on      *)

Least(a, b) == IF a <= b THEN a ELSE b

\* CalcMemChunks: how far into a chunk the last comparison is made, and whether
\* the next chunk is a step away (fBigStep) or where this one ended.
ChunkSize == IF req.virtual THEN Least(CacheSize, Sentinel - start) ELSE Sentinel - start
ChunkMaxOffset(at) == Least(ChunkSize, Sentinel - at) - SizeFind
BigStep == req.virtual /\ req.step > ChunkMaxOffset(start)
ChunkStep(at) == IF BigStep THEN req.step ELSE ChunkMaxOffset(at)

Chunks ==
  IF ~req.virtual THEN 1
  ELSE LET total == Sentinel - start
       IN  (total \div ChunkStep(start)) + (IF total % ChunkStep(start) > 0 THEN 1 ELSE 0)

ChunkStarts ==
  LET at[i \in 0..Chunks - 1] == IF i = 0 THEN start ELSE at[i - 1] + ChunkStep(at[i - 1])
  IN  {at[i] : i \in 0..Chunks - 1}

\* Within a chunk, comparisons are a step apart; a step of 0 stays at its start.
Compared ==
  {o \in Places : \E at \in ChunkStarts :
     /\ o \in at..at + ChunkMaxOffset(at)
     /\ IF req.step = 0 THEN o = start ELSE (o - at) % req.step = 0}

Ahead == matches \cap Compared
First(S) == CHOOSE o \in S : \A p \in S : o <= p

\* Mutant: a replacement is searched again.
NextByStep(o) == o + req.step

\* What was replaced is not searched again.
Next_(o) ==
  o + (IF req.replace /\ req.sizeRepl > req.step THEN req.sizeRepl ELSE req.step)

\* Mutant: the last offset is never searched.
LastLeftOut(o, n) == Next_(o) >= LastSearchOffset \/ n >= req.limit

\* Mutant: the search goes on past the last offset.
OnlyLimited(o, n) == n >= req.limit

Exhausted(o, n) == Next_(o) > LastSearchOffset \/ n >= req.limit

-----------------------------------------------------------------------------
(* Actions                                                                 *)

Start(r) ==
  /\ pc = "idle"
  /\ req' = r
  /\ start' = r.from
  /\ found' = r.from
  /\ results' = <<>>
  /\ edited' = FALSE
  /\ broken' = FALSE
  /\ UNCHANGED matches
  /\ IF r.small
     THEN RunInline(r.from) /\ pc' = "search"
     ELSE Launch(r.from) /\ pc' = IF r.replace THEN "ask" ELSE "search"

\* A message of the worker to a window of the UI thread is answered: directly
\* when both are one thread, otherwise in the dialog's message loop.
Answered == ui \in {"busy", "modal"}

\* ReplaceAll's worker asks a check box of the dialog (IsInverted).
AskInverted ==
  /\ pc = "ask"
  /\ Answered
  /\ pc' = "search"
  /\ UNCHANGED <<req, start, found, results, matches, edited, broken, progressVars>>

\* The loop ends: on the worker, OnCancel closes the dialog.
LeaveLoop ==
  IF worker = "running" THEN WorkerEnds /\ pc' = "ended"
                        ELSE pc' = "finish" /\ UNCHANGED progressVars

\* An occurrence is put into the list, and the loop goes on behind it.  The
\* worker may see m_fCancel, a plain bool of both threads, late or not at all.
TakeResult(o) ==
  /\ results' = Append(results, o)
  /\ \E canceled \in {FALSE, worker = "running" /\ cancel} :
       IF Exhausted(o, Len(results) + 1) \/ canceled
       THEN /\ LeaveLoop
            /\ broken' = ~Exhausted(o, Len(results) + 1)
            /\ UNCHANGED start
       ELSE /\ pc' = "search"
            /\ start' = Next_(o)
            /\ current' = o
            /\ UNCHANGED <<broken, ui, worker, cancel>>

FindNext ==
  /\ pc = "search"
  /\ ~req.replace
  /\ Ahead # {}
  /\ found' = First(Ahead)
  /\ TakeResult(First(Ahead))
  /\ UNCHANGED <<req, matches, edited>>

\* The bytes are replaced: places that overlap them match or not.
Overlaps(o, p) == p + SizeFind > o /\ p < o + req.sizeRepl

ReplaceNext ==
  /\ pc = "search"
  /\ req.replace
  /\ Ahead # {}
  /\ First(Ahead) + req.sizeRepl <= Sentinel
  /\ found' = First(Ahead)
  /\ \E new \in SUBSET {p \in Places : Overlaps(First(Ahead), p)} :
       matches' = {p \in matches : ~Overlaps(First(Ahead), p)} \cup new
  /\ pc' = "notify"
  /\ UNCHANGED <<req, start, results, edited, broken, progressVars>>

\* ParentNotify's SendMessage returns.
Notified ==
  /\ pc = "notify"
  /\ Answered
  /\ TakeResult(found)
  /\ UNCHANGED <<req, found, matches, edited>>

\* Nothing more to be found, or no room to replace it.  With a step of 0 the
\* comparisons do not come to an end.
NotFound ==
  /\ pc = "search"
  /\ \/ Ahead = {} /\ req.step > 0
     \/ req.replace /\ Ahead # {} /\ First(Ahead) + req.sizeRepl > Sentinel
  /\ LeaveLoop
  /\ UNCHANGED <<req, start, found, results, matches, edited, broken>>

\* The worker's search function looks at m_fCancel on its way.
SearchCanceled ==
  /\ pc = "search"
  /\ worker = "running"
  /\ cancel
  /\ LeaveLoop
  /\ broken' = TRUE
  /\ UNCHANGED <<req, start, found, results, matches, edited>>

JoinSearch ==
  /\ Join
  /\ pc' = "finish"
  /\ UNCHANGED <<req, start, found, results, matches, edited, broken>>

\* The list is shown, drawing goes on.
Finish ==
  /\ pc = "finish"
  /\ pc' = "idle"
  /\ ui' = "free"
  /\ UNCHANGED <<req, start, found, results, matches, edited, broken, worker, cancel, current>>

findElse == <<req, pc, start, found, results, broken>>

CancelDialog == OnCancel /\ UNCHANGED <<findElse, matches, edited>>
CloseDialog == OnTimer /\ UNCHANGED <<findElse, matches, edited>>

\* The user types into the hex control, whose window is not disabled.
UserEdits(new) ==
  /\ ui = "modal"
  /\ matches' = new
  /\ edited' = TRUE
  /\ UNCHANGED <<findElse, progressVars>>

-----------------------------------------------------------------------------
(* The specification                                                       *)

Init ==
  /\ req \in Requests
  /\ pc = "idle"
  /\ start = 0
  /\ found = 0
  /\ results = <<>>
  /\ matches \in SUBSET Places
  /\ edited = FALSE
  /\ broken = FALSE
  /\ ProgressInit

LoopStep ==
  \/ AskInverted \/ FindNext \/ ReplaceNext \/ Notified \/ NotFound \/ SearchCanceled
  \/ JoinSearch \/ Finish

Next ==
  \/ \E r \in Requests : Start(r)
  \/ LoopStep
  \/ CancelDialog
  \/ CloseDialog
  \/ \E new \in SUBSET Places : UserEdits(new)

\* Both threads are scheduled and the dialog's timer fires; the user need not
\* do anything.
Fairness ==
  /\ WF_findVars(LoopStep)
  /\ WF_findVars(CloseDialog)

Spec == Init /\ [][Next]_findVars /\ Fairness

\* A user who lets Replace All come to its end.
PatientNext ==
  \/ \E r \in Requests : Start(r)
  \/ LoopStep
  \/ ~req.replace /\ CancelDialog
  \/ CloseDialog
  \/ \E new \in SUBSET Places : UserEdits(new)

PatientSpec == Init /\ [][PatientNext]_findVars /\ Fairness

-----------------------------------------------------------------------------
(* Properties                                                              *)

\* The state's types; the search never starts where it cannot find anything.
TypeOK ==
  /\ req \in Requests
  /\ pc \in {"idle", "ask", "search", "notify", "ended", "finish"}
  /\ start \in Places
  /\ found \in Places
  /\ results \in Seq(Places)
  /\ matches \subseteq Places
  /\ edited \in BOOLEAN
  /\ broken \in BOOLEAN
  /\ ProgressTypeOK

\* Replace All never replaces what it has just put there, nor beyond the range,
\* whatever its replacements and the user make of the data meanwhile.
ReplacementsApart ==
  /\ TypeOK
  /\ req.replace =>
       /\ \A i \in 1..Len(results) - 1 : results[i] + req.sizeRepl <= results[i + 1]
       /\ \A i \in 1..Len(results) : results[i] + req.sizeRepl <= Sentinel

\* Comparisons start anew at each chunk of virtual data, the last of which may
\* begin anywhere: steps go on across chunks only if they divide what a chunk
\* covers and the whole range, or if they are longer than any chunk.
MeetsChunks(r) ==
  /\ r.step > 0
  /\ r.virtual => \/ r.step > CacheSize - SizeFind
                  \/ /\ (CacheSize - SizeFind) % r.step = 0
                     /\ (LastSearchOffset - r.from) % r.step = 0

\* Find All finds, in order, the matches that are whole steps from where it
\* started, as many as the limit allows: on whichever thread it runs, and however
\* its search function goes over the data, as long as steps and chunks meet.
Wanted == {o \in matches : o >= req.from /\ (o - req.from) % req.step = 0}

AllFound ==
  (pc = "finish" /\ ~req.replace /\ MeetsChunks(req) /\ ~edited /\ ~broken) =>
    /\ \A i \in 1..Len(results) : results[i] \in Wanted
    /\ \A i \in 1..Len(results) - 1 : results[i] < results[i + 1]
    /\ \A o \in Wanted : \/ \E i \in 1..Len(results) : results[i] = o
                         \/ Len(results) = req.limit /\ results[req.limit] < o

\* The UI thread always comes out of a search, and with it the program: the
\* search ends, its dialog closes, and its worker can be joined.
SearchReturns == ui # "free" ~> ui = "free"

=============================================================================
