--------------------------- MODULE ScanLifecycle ---------------------------
(***************************************************************************)
(* The life of a memory scan in AppController: the GUI thread owns the     *)
(* session and starts one ScanWorker thread per scan; the worker answers   *)
(* only through signals that Qt queues for the GUI thread.  The slots that *)
(* receive them look at the CURRENT session and request, never at the      *)
(* worker that sent the signal, so the model keeps the sender of every     *)
(* queued signal and the session each worker was started for.              *)
(*                                                                         *)
(* User actions and agent calls may run between any two deliveries: Qt     *)
(* does not order window-system input against posted events, and an agent  *)
(* call posted before a worker's signal runs after that worker ended.      *)
(***************************************************************************)
EXTENDS Naturals, Sequences

CONSTANTS
    MaxScans,    \* bound: scan workers ever started
    MaxAttach    \* bound: attachments ever made

ASSUME BoundsAssumption == MaxScans \in Nat \ {0} /\ MaxAttach \in Nat \ {0}

VARIABLES
    epoch,      \* attachments so far; names the process the backend has open
    attached,   \* MemoryBackend.is_open
    session,    \* AppController._session
    request,    \* AppController._active_scan_request is not None
    refining,   \* AppController._scan_is_refinement
    thread,     \* AppController._scan_thread, _scan_worker and _scan_cancel
    scans,      \* scan workers started so far
    worker,     \* the ScanWorkers and the thread each runs in
    inbox,      \* signals queued for the GUI thread
    panel       \* ScanPanel: the state and the attachment its buttons follow

vars == <<epoch, attached, session, request, refining, thread, scans, worker,
          inbox, panel>>

Scans == 1..MaxScans
None == 0

SessionState == {"new", "scanning", "ready", "cancelled", "error"}
Outcome == {"completed", "failed", "cancelled"}

\* A session is named by the worker of its first scan; result names the worker
\* whose payload it holds.
Session == [id : Scans \cup {None}, epoch : 0..MaxAttach, state : SessionState,
            result : Scans \cup {None}, snapshot : BOOLEAN]
NoSession == [id |-> None, epoch |-> 0, state |-> "new", result |-> None,
              snapshot |-> FALSE]

\* snapshot: the payload is an UnknownSnapshot, not a CandidateSet.
Worker == [phase : {"unused", "scanning", "emitted", "ended"}, cancel : BOOLEAN,
           snapshot : BOOLEAN, session : Scans \cup {None}, epoch : 0..MaxAttach]
NoWorker == [phase |-> "unused", cancel |-> FALSE, snapshot |-> FALSE,
             session |-> None, epoch |-> 0]

Signal == [type : Outcome \cup {"ended"}, scan : Scans]

TypeOK ==
    /\ epoch \in 0..MaxAttach
    /\ attached \in BOOLEAN
    /\ session \in Session
    /\ request \in BOOLEAN
    /\ refining \in BOOLEAN
    /\ thread \in Scans \cup {None}
    /\ scans \in 0..MaxScans
    /\ worker \in [Scans -> Worker]
    /\ inbox \in Seq(Signal)
    /\ panel \in [state : SessionState, attached : BOOLEAN]

Init ==
    /\ epoch = 0
    /\ attached = FALSE
    /\ session = NoSession
    /\ request = FALSE
    /\ refining = FALSE
    /\ thread = None
    /\ scans = 0
    /\ worker = [w \in Scans |-> NoWorker]
    /\ inbox = <<>>
    /\ panel = [state |-> "new", attached |-> FALSE]

-----------------------------------------------------------------------------
(* Helpers.                                                                *)

Running(w) == worker[w].phase \in {"scanning", "emitted"}

\* _ensure_no_active_scan lets the scan start.
NoActiveScan == thread # None => ~Running(thread)

\* _stop_scan_worker: ask the current worker to stop.  The wait that follows is
\* bounded, so the worker may still be running when it returns.
WithCancel(wk) ==
    IF thread = None THEN wk ELSE [wk EXCEPT ![thread].cancel = TRUE]

Post(type, w) == inbox' = Append(inbox, [type |-> type, scan |-> w])

-----------------------------------------------------------------------------
(* GUI thread: attachment.                                                 *)

\* attach, with the _detach_internal of a process still open before it.
Attach ==
    /\ epoch < MaxAttach
    /\ epoch' = epoch + 1
    /\ attached' = TRUE
    /\ session' = NoSession
    /\ request' = IF attached THEN FALSE ELSE request
    /\ worker' = IF attached THEN WithCancel(worker) ELSE worker
    /\ panel' = [state |-> "new", attached |-> TRUE]
    /\ UNCHANGED <<refining, thread, scans, inbox>>

\* _detach_internal: on the user's request, or when a guarded operation or the
\* scheduler finds the process gone.
Detach ==
    /\ attached
    /\ attached' = FALSE
    /\ session' = NoSession
    /\ request' = FALSE
    /\ worker' = WithCancel(worker)
    /\ panel' = [state |-> "new", attached |-> FALSE]
    /\ UNCHANGED <<epoch, refining, thread, scans, inbox>>

-----------------------------------------------------------------------------
(* GUI thread: scan operations.                                            *)

Launch(sid, snapshot) ==
    /\ scans < MaxScans
    /\ scans' = scans + 1
    /\ thread' = scans + 1
    /\ worker' = [worker EXCEPT ![scans + 1] =
                    [phase |-> "scanning", cancel |-> FALSE, snapshot |-> snapshot,
                     session |-> sid, epoch |-> epoch]]
    /\ request' = TRUE
    /\ panel' = [state |-> "scanning", attached |-> TRUE]

StartScan ==
    /\ attached
    /\ NoActiveScan
    /\ \E snapshot \in BOOLEAN : Launch(scans + 1, snapshot)
    /\ session' = [id |-> scans + 1, epoch |-> epoch, state |-> "scanning",
                   result |-> None, snapshot |-> FALSE]
    /\ refining' = FALSE
    /\ UNCHANGED <<epoch, attached, inbox>>

\* The panel offers the first scan only when none is running and none is ready.
UserStartScan ==
    /\ panel.attached
    /\ panel.state \notin {"scanning", "ready"}
    /\ StartScan

\* The agent's start_scan tool does not look at the panel, and its flow state
\* leaves SCANNING as soon as a watch changes.
AgentStartScan == StartScan

RefineScan ==
    /\ attached
    /\ NoActiveScan
    /\ session.id # None
    /\ session.result # None
    /\ session.state = "ready"
    /\ session.epoch = epoch
    /\ Launch(session.id, FALSE)
    /\ session' = [session EXCEPT !.state = "scanning"]
    /\ refining' = TRUE
    /\ UNCHANGED <<epoch, attached, inbox>>

\* The panel offers it while it scans; the agent's cancel_scan does not ask it.
CancelScan ==
    /\ thread # None
    /\ worker' = WithCancel(worker)
    /\ UNCHANGED <<epoch, attached, session, request, refining, thread, scans,
                   inbox, panel>>

ResetScan ==
    /\ panel.attached
    /\ panel.state = "ready"
    /\ attached
    /\ session.state # "scanning"
    /\ session' = NoSession
    /\ request' = FALSE
    /\ refining' = FALSE
    /\ panel' = [state |-> "new", attached |-> TRUE]
    /\ UNCHANGED <<epoch, attached, thread, scans, worker, inbox>>

-----------------------------------------------------------------------------
(* Worker thread.                                                          *)

\* Mutant: the worker does not look at the cancel event again after the scan.
WorkerFinishUnchecked(w) ==
    /\ worker[w].phase = "scanning"
    /\ \E outcome \in {"completed", "failed"} : Post(outcome, w)
    /\ worker' = [worker EXCEPT ![w].phase = "emitted"]
    /\ UNCHANGED <<epoch, attached, session, request, refining, thread, scans,
                   panel>>

\* ScanWorker.run: the scan ends with a result or an exception, and the cancel
\* event, looked at afterwards, turns either into the cancelled signal.
WorkerFinish(w) ==
    /\ worker[w].phase = "scanning"
    /\ \E outcome \in IF worker[w].cancel THEN {"cancelled"}
                                          ELSE {"completed", "failed"} :
           Post(outcome, w)
    /\ worker' = [worker EXCEPT ![w].phase = "emitted"]
    /\ UNCHANGED <<epoch, attached, session, request, refining, thread, scans,
                   panel>>

\* worker.finished quits the thread directly; its end is queued for the GUI.
ThreadEnd(w) ==
    /\ worker[w].phase = "emitted"
    /\ worker' = [worker EXCEPT ![w].phase = "ended"]
    /\ Post("ended", w)
    /\ UNCHANGED <<epoch, attached, session, request, refining, thread, scans,
                   panel>>

-----------------------------------------------------------------------------
(* GUI thread: the slots that receive a worker's signals.                  *)

Receive(type, w) ==
    /\ inbox # <<>>
    /\ Head(inbox) = [type |-> type, scan |-> w]
    /\ inbox' = Tail(inbox)

\* _on_scan_completed stores the payload only in a session that is scanning.
Accepts == session.id # None /\ request /\ session.state = "scanning"

\* Mutant: the session takes the name of the signal for its state.
OnScanCompletedMisnamed(w) ==
    /\ Receive("completed", w)
    /\ Accepts
    /\ session' = [session EXCEPT !.state = "completed", !.result = w]
    /\ panel' = [state |-> "ready", attached |-> TRUE]
    /\ UNCHANGED <<epoch, attached, request, refining, thread, scans, worker>>

OnScanCompleted(w) ==
    /\ Receive("completed", w)
    /\ \/ /\ ~Accepts
          /\ UNCHANGED <<session, panel>>
       \/ /\ Accepts
          /\ ~(refining /\ worker[w].snapshot)
          /\ session' = [session EXCEPT !.state = "ready", !.result = w,
                                        !.snapshot = worker[w].snapshot]
          /\ panel' = [state |-> "ready", attached |-> TRUE]
       \/ /\ Accepts
          /\ refining /\ worker[w].snapshot
          /\ session' = [session EXCEPT !.state = "error"]
          /\ panel' = [state |-> "error", attached |-> TRUE]
    /\ UNCHANGED <<epoch, attached, request, refining, thread, scans, worker>>

OnScanFailed(w) ==
    /\ Receive("failed", w)
    /\ session' = IF session.id # None THEN [session EXCEPT !.state = "error"]
                                       ELSE session
    /\ panel' = [state |-> "error", attached |-> TRUE]
    /\ UNCHANGED <<epoch, attached, request, refining, thread, scans, worker>>

\* Mutant: the panel is not told of a cancellation.
OnScanCancelledUnannounced(w) ==
    /\ Receive("cancelled", w)
    /\ session' = IF session.state = "scanning"
                  THEN [session EXCEPT !.state = "cancelled"] ELSE session
    /\ UNCHANGED <<epoch, attached, request, refining, thread, scans, worker, panel>>

OnScanCancelled(w) ==
    /\ Receive("cancelled", w)
    /\ session' = IF session.state = "scanning"
                  THEN [session EXCEPT !.state = "cancelled"] ELSE session
    /\ panel' = [state |-> "cancelled", attached |-> TRUE]
    /\ UNCHANGED <<epoch, attached, request, refining, thread, scans, worker>>

\* Mutant: any thread's end clears the current one.
OnThreadFinishedUnchecked(w) ==
    /\ Receive("ended", w)
    /\ thread' = None /\ request' = FALSE /\ refining' = FALSE
    /\ UNCHANGED <<epoch, attached, session, scans, worker, panel>>

\* _on_scan_thread_finished compares its sender with the current thread.
OnThreadFinished(w) ==
    /\ Receive("ended", w)
    /\ IF w = thread
       THEN thread' = None /\ request' = FALSE /\ refining' = FALSE
       ELSE UNCHANGED <<thread, request, refining>>
    /\ UNCHANGED <<epoch, attached, session, scans, worker, panel>>

-----------------------------------------------------------------------------

Deliver(w) ==
    \/ OnScanCompleted(w)
    \/ OnScanFailed(w)
    \/ OnScanCancelled(w)
    \/ OnThreadFinished(w)

Next ==
    \/ Attach
    \/ Detach
    \/ UserStartScan
    \/ AgentStartScan
    \/ RefineScan
    \/ CancelScan
    \/ ResetScan
    \/ \E w \in Scans : WorkerFinish(w) \/ ThreadEnd(w) \/ Deliver(w)

\* Threads run and the event loop turns; users and agents owe nothing.
Fairness ==
    /\ \A w \in Scans : WF_vars(WorkerFinish(w)) /\ WF_vars(ThreadEnd(w))
    /\ WF_vars(\E w \in Scans : Deliver(w))

Spec == Init /\ [][Next]_vars /\ Fairness

-----------------------------------------------------------------------------
(* Properties.                                                             *)

\* At no time do two scan threads run, whatever was cancelled, detached or
\* re-attached in between: _ensure_no_active_scan asks the thread the
\* controller remembers, and it never forgets one that still runs.
OneScanThread == \A v, w \in Scans : Running(v) /\ Running(w) => v = w

\* A scan that was cancelled while it was still reading memory never becomes a
\* result, neither of its own session nor of any later one: ScanWorker.run
\* looks at the cancel event after the scan.
CancelledScanNeverPublishes ==
    \A w \in Scans :
        [](worker[w].phase = "scanning" /\ worker[w].cancel
             => [](session.result # w))

\* The panel never stays in the scanning state: some answer to every scan
\* reaches it, even when the session was replaced under the running worker.
PanelLeavesScanning == panel.state = "scanning" ~> panel.state # "scanning"

\* What a session holds was computed by a worker started for that session:
\* refine_scan rejects a session of another process ("error.scan_session_process"),
\* but _on_scan_completed accepts any worker's payload.
ResultOfOwnSession ==
    session.result # None => worker[session.result].session = session.id
=============================================================================
