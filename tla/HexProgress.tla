----------------------------- MODULE HexProgress -----------------------------
(***************************************************************************)
(* Long operations of the hex control (CHexDlgProgress.ixx and its users): *)
(* a worker thread does the work while the UI thread runs the modal loop   *)
(* of the progress dialog and then joins the worker.  The two threads      *)
(* share m_fCancel, which the user's Cancel sets and the worker polls, and *)
(* which the worker itself sets when it ends, to close the dialog.         *)
(***************************************************************************)
EXTENDS Naturals

VARIABLES
  ui,      \* the UI thread: "free", "busy" in the call, "modal", "join"
  worker,  \* the worker thread: "none", "running", "ended"
  cancel,  \* m_fCancel
  current  \* m_ullCurr, the progress the worker reports

progressVars == <<ui, worker, cancel, current>>

ProgressTypeOK ==
  /\ ui \in {"free", "busy", "modal", "join"}
  /\ worker \in {"none", "running", "ended"}
  /\ cancel \in BOOLEAN
  /\ current \in Nat

ProgressInit ==
  /\ ui = "free"
  /\ worker = "none"
  /\ cancel = FALSE
  /\ current = 0

\* The call starts without a thread: the worker's code runs on the UI thread.
RunInline(min) ==
  /\ ui = "free"
  /\ ui' = "busy"
  /\ worker' = "none"
  /\ cancel' = FALSE
  /\ current' = min

\* std::thread, then DoModal.
Launch(min) ==
  /\ ui = "free"
  /\ ui' = "modal"
  /\ worker' = "running"
  /\ cancel' = FALSE
  /\ current' = min

\* The Cancel button, Escape, or the dialog's close box.
OnCancel ==
  /\ ui = "modal"
  /\ cancel' = TRUE
  /\ UNCHANGED <<ui, worker, current>>

\* The dialog looks at m_fCancel every 100 ms; EndDialog returns to join().
OnTimer ==
  /\ ui = "modal"
  /\ cancel
  /\ ui' = "join"
  /\ UNCHANGED <<worker, cancel, current>>

\* Mutant: the worker ends without closing the dialog.
WorkerEndsSilently ==
  /\ worker' = IF worker = "running" THEN "ended" ELSE worker
  /\ UNCHANGED <<ui, cancel, current>>

\* The worker's last act; inline, there is no dialog to close.
WorkerEnds ==
  /\ worker' = IF worker = "running" THEN "ended" ELSE worker
  /\ cancel' = TRUE
  /\ UNCHANGED <<ui, current>>

\* thrd.join() returns; the call goes on.
Join ==
  /\ ui = "join"
  /\ worker = "ended"
  /\ ui' = "busy"
  /\ worker' = "none"
  /\ UNCHANGED <<cancel, current>>

\* The thread that runs the worker's code is able to.
WorkerRuns == worker = "running" \/ ui = "busy"

=============================================================================
