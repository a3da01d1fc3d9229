------------------------- MODULE ScanLifecycleProofs -------------------------
(***************************************************************************)
(* Proofs about ScanLifecycle, for every number of scans and attachments.  *)
(***************************************************************************)
EXTENDS ScanLifecycle, TLAPS

\* A worker not started yet is unused, so a new one takes a fresh place.
FreshAhead == \A w \in Scans : w > scans => worker[w].phase = "unused"

\* Only the thread the controller remembers can be running.
RunningIsRemembered == \A w \in Scans : Running(w) => w = thread

\* The end of a thread is announced only once it has ended.
EndedHaveEnded ==
    \A i \in 1..Len(inbox) :
        inbox[i].type = "ended" => worker[inbox[i].scan].phase = "ended"

\* OneScanThread is not inductive: the slot of a thread's end forgets the thread,
\* and only because that announcement is never early does nothing run unseen.
IInv == TypeOK /\ FreshAhead /\ RunningIsRemembered /\ EndedHaveEnded

-----------------------------------------------------------------------------

\* Posting a signal about a worker leaves a well-typed queue.
LEMMA PostTyped ==
    ASSUME inbox \in Seq(Signal), NEW w \in Scans,
           NEW type \in Outcome \cup {"ended"}, Post(type, w)
    PROVE  /\ inbox' \in Seq(Signal)
           /\ Len(inbox') = Len(inbox) + 1
           /\ \A i \in 1..Len(inbox) : inbox'[i] = inbox[i]
           /\ inbox'[Len(inbox')] = [type |-> type, scan |-> w]
<1>1. [type |-> type, scan |-> w] \in Signal
  BY DEF Signal
<1> QED
  BY <1>1 DEF Post

\* Receiving a signal takes the oldest one off the queue.
LEMMA ReceiveTyped ==
    ASSUME inbox \in Seq(Signal), NEW w \in Scans,
           NEW type \in Outcome \cup {"ended"}, Receive(type, w)
    PROVE  /\ inbox' \in Seq(Signal)
           /\ 1 \in 1..Len(inbox)
           /\ inbox[1] = [type |-> type, scan |-> w]
           /\ Len(inbox') = Len(inbox) - 1
           /\ \A i \in 1..Len(inbox') : i + 1 \in 1..Len(inbox) /\ inbox'[i] = inbox[i + 1]
  BY DEF Receive

\* Every queued signal names a worker.
LEMMA QueuedTyped ==
    ASSUME inbox \in Seq(Signal), NEW i \in 1..Len(inbox)
    PROVE  inbox[i].scan \in Scans
<1>1. inbox[i] \in Signal
  OBVIOUS
<1> QED
  BY <1>1 DEF Signal

\* Asking the current worker to stop moves no worker.
LEMMA WithCancelKeeps ==
    ASSUME worker \in [Scans -> Worker], thread \in Scans \cup {None}
    PROVE  /\ WithCancel(worker) \in [Scans -> Worker]
           /\ \A w \in Scans : WithCancel(worker)[w].phase = worker[w].phase
  BY DEF WithCancel, Worker

\* The invariant holds of the controller as it is constructed.
LEMMA InitIInv == Init => IInv
<1> SUFFICES ASSUME Init PROVE IInv
  OBVIOUS
<1> USE BoundsAssumption DEF Scans, None
<1>1. TypeOK
  <2>1. session \in Session
    <3>1. NoSession \in Session
      BY DEF Session, NoSession, SessionState
    <3> QED
      BY <3>1 DEF Init
  <2>2. NoWorker \in Worker
    BY DEF NoWorker, Worker
  <2>3. worker \in [Scans -> Worker]
    BY <2>2 DEF Init
  <2>4. inbox \in Seq(Signal)
    BY DEF Init
  <2>5. panel \in [state : SessionState, attached : BOOLEAN]
    BY DEF Init, SessionState
  <2>6. epoch \in 0..MaxAttach /\ scans \in 0..MaxScans
    BY DEF Init
  <2> QED
    BY <2>1, <2>3, <2>4, <2>5, <2>6 DEF Init, TypeOK
<1>2. FreshAhead /\ RunningIsRemembered
  BY DEF Init, FreshAhead, RunningIsRemembered, Running, NoWorker
<1>3. EndedHaveEnded
  BY DEF Init, EndedHaveEnded
<1> QED
  BY <1>1, <1>2, <1>3 DEF IInv

\* Starting a worker: the remembered thread has ended, so the new one runs alone.
LEMMA LaunchKeeps ==
    ASSUME IInv, NoActiveScan, NEW sid \in Scans \cup {None}, NEW snapshot \in BOOLEAN,
           Launch(sid, snapshot), UNCHANGED <<epoch, inbox>>
    PROVE  /\ thread' \in Scans \cup {None}
           /\ scans' \in 0..MaxScans
           /\ worker' \in [Scans -> Worker]
           /\ request' \in BOOLEAN
           /\ panel' \in [state : SessionState, attached : BOOLEAN]
           /\ (FreshAhead /\ RunningIsRemembered /\ EndedHaveEnded)'
<1> USE BoundsAssumption DEF IInv, TypeOK, Launch
<1> DEFINE new == [phase |-> "scanning", cancel |-> FALSE, snapshot |-> snapshot,
                   session |-> sid, epoch |-> epoch]
<1>1. scans + 1 \in Scans /\ new \in Worker
  BY DEF Scans, Worker
<1>2. worker' = [worker EXCEPT ![scans + 1] = new]
  OBVIOUS
<1>3. worker' \in [Scans -> Worker]
  BY <1>1, <1>2
<1>4. \A w \in Scans : ~Running(w)
  BY DEF NoActiveScan, RunningIsRemembered, Scans, None
<1>5. FreshAhead'
  BY <1>1, <1>2 DEF FreshAhead, Scans
<1>6. RunningIsRemembered'
  BY <1>1, <1>2, <1>4 DEF RunningIsRemembered, Running
<1>7. EndedHaveEnded'
  <2> SUFFICES ASSUME NEW i \in 1..Len(inbox), inbox[i].type = "ended"
               PROVE  worker'[inbox[i].scan].phase = "ended"
    BY DEF EndedHaveEnded
  <2>1. inbox[i].scan \in Scans
    BY QueuedTyped
  <2>2. worker[inbox[i].scan].phase = "ended"
    BY DEF EndedHaveEnded
  <2>3. inbox[i].scan # scans + 1
    BY <2>2, <1>1 DEF FreshAhead, Scans
  <2> QED
    BY <1>2, <2>1, <2>2, <2>3
<1> QED
  BY <1>1, <1>3, <1>5, <1>6, <1>7 DEF Scans, SessionState

\* A step that leaves the phases, the queue and the remembered thread alone.
LEMMA PhasesKept ==
    ASSUME IInv, TypeOK', UNCHANGED <<scans, thread, inbox>>,
           \A w \in Scans : worker'[w].phase = worker[w].phase
    PROVE  IInv'
<1>1. FreshAhead' /\ RunningIsRemembered'
  BY DEF IInv, FreshAhead, RunningIsRemembered, Running
<1>2. \A i \in 1..Len(inbox) : inbox[i].scan \in Scans
  BY QueuedTyped DEF IInv, TypeOK
<1>3. EndedHaveEnded'
  BY <1>2 DEF IInv, EndedHaveEnded
<1> QED
  BY <1>1, <1>3 DEF IInv

\* A slot that leaves the workers alone.
LEMMA ReceiveKeeps ==
    ASSUME IInv, TypeOK', NEW w \in Scans, NEW type \in Outcome \cup {"ended"},
           Receive(type, w), UNCHANGED <<scans, worker>>,
           thread' = thread \/ (type = "ended" /\ w = thread)
    PROVE  IInv'
<1> USE DEF IInv
<1>1. /\ inbox[1] = [type |-> type, scan |-> w]
      /\ 1 \in 1..Len(inbox)
      /\ \A i \in 1..Len(inbox') : i + 1 \in 1..Len(inbox) /\ inbox'[i] = inbox[i + 1]
  BY ReceiveTyped DEF TypeOK
<1>2. FreshAhead'
  BY DEF FreshAhead
<1>3. EndedHaveEnded'
  BY <1>1 DEF EndedHaveEnded
<1>4. type = "ended" => ~Running(w)
  BY <1>1 DEF EndedHaveEnded, Running
<1>5. RunningIsRemembered'
  BY <1>4 DEF RunningIsRemembered, Running
<1> QED
  BY <1>2, <1>3, <1>5

\* Every step keeps it, one case for each operation and slot.
LEMMA NextIInv == IInv /\ [Next]_vars => IInv'
<1> SUFFICES ASSUME IInv, [Next]_vars PROVE IInv'
  OBVIOUS
<1> USE BoundsAssumption
<1>a. TypeOK
  BY DEF IInv
<1>b. None \notin Scans /\ "ended" \notin Outcome
  BY DEF None, Scans, Outcome
<1>c. NoSession \in Session
  BY DEF NoSession, Session, SessionState
<1>d. /\ WithCancel(worker) \in [Scans -> Worker]
      /\ \A w \in Scans : WithCancel(worker)[w].phase = worker[w].phase
  BY <1>a, WithCancelKeeps DEF TypeOK
<1>1. CASE Attach
  <2>1. epoch' \in 0..MaxAttach
    BY <1>a, <1>1 DEF Attach, TypeOK
  <2>2. worker' \in [Scans -> Worker]
    BY <1>a, <1>d, <1>1 DEF Attach, TypeOK
  <2>3. session' \in Session /\ panel' \in [state : SessionState, attached : BOOLEAN]
    BY <1>c, <1>1 DEF Attach, SessionState
  <2>4. TypeOK'
    BY <1>a, <1>1, <2>1, <2>2, <2>3 DEF Attach, TypeOK
  <2> QED
    BY <2>4, <1>1, <1>d, PhasesKept DEF Attach
<1>2. CASE Detach
  <2>1. TypeOK'
    BY <1>a, <1>c, <1>d, <1>2 DEF Detach, TypeOK, SessionState
  <2> QED
    BY <2>1, <1>2, <1>d, PhasesKept DEF Detach
<1>3. ASSUME StartScan PROVE IInv'
  <2>1. scans + 1 \in Scans
    BY <1>3, <1>a DEF StartScan, Launch, TypeOK, Scans
  <2>2. PICK snapshot \in BOOLEAN : Launch(scans + 1, snapshot)
    BY <1>3 DEF StartScan
  <2>3. /\ thread' \in Scans \cup {None}
        /\ scans' \in 0..MaxScans
        /\ worker' \in [Scans -> Worker]
        /\ request' \in BOOLEAN
        /\ panel' \in [state : SessionState, attached : BOOLEAN]
        /\ (FreshAhead /\ RunningIsRemembered /\ EndedHaveEnded)'
    BY <1>3, <2>1, <2>2, LaunchKeeps DEF StartScan
  <2>4. session' \in Session
    BY <1>3, <1>a, <2>1 DEF StartScan, TypeOK, Session, SessionState
  <2> QED
    BY <1>3, <1>a, <2>3, <2>4 DEF StartScan, IInv, TypeOK
<1>4. CASE RefineScan
  <2>1. session.id \in Scans \cup {None}
    BY <1>a DEF TypeOK, Session
  <2>2. /\ thread' \in Scans \cup {None}
        /\ scans' \in 0..MaxScans
        /\ worker' \in [Scans -> Worker]
        /\ request' \in BOOLEAN
        /\ panel' \in [state : SessionState, attached : BOOLEAN]
        /\ (FreshAhead /\ RunningIsRemembered /\ EndedHaveEnded)'
    BY <1>4, <2>1, LaunchKeeps DEF RefineScan
  <2>3. session' \in Session
    BY <1>4, <1>a DEF RefineScan, TypeOK, Session, SessionState
  <2> QED
    BY <1>4, <1>a, <2>2, <2>3 DEF RefineScan, IInv, TypeOK
<1>5. CASE CancelScan
  <2>1. TypeOK'
    BY <1>a, <1>d, <1>5 DEF CancelScan, TypeOK
  <2> QED
    BY <2>1, <1>5, <1>d, PhasesKept DEF CancelScan
<1>6. CASE ResetScan
  <2>1. TypeOK'
    BY <1>a, <1>c, <1>6 DEF ResetScan, TypeOK, SessionState
  <2> QED
    BY <2>1, <1>6, PhasesKept DEF ResetScan
<1>7. ASSUME NEW w \in Scans, WorkerFinish(w) PROVE IInv'
  <2>1. PICK outcome \in Outcome : Post(outcome, w)
    BY <1>7 DEF WorkerFinish, Outcome
  <2>2. /\ inbox' \in Seq(Signal)
        /\ Len(inbox') = Len(inbox) + 1
        /\ \A i \in 1..Len(inbox) : inbox'[i] = inbox[i]
        /\ inbox'[Len(inbox')] = [type |-> outcome, scan |-> w]
    BY <1>a, <2>1, PostTyped DEF TypeOK
  <2>3. /\ worker' = [worker EXCEPT ![w].phase = "emitted"]
        /\ worker[w].phase = "scanning"
        /\ UNCHANGED <<epoch, attached, session, request, refining, thread, scans, panel>>
    BY <1>7 DEF WorkerFinish
  <2>4. worker' \in [Scans -> Worker]
    BY <1>a, <2>3 DEF TypeOK, Worker
  <2>5. TypeOK'
    BY <1>a, <2>2, <2>3, <2>4 DEF TypeOK
  <2>6. FreshAhead' /\ RunningIsRemembered'
    BY <1>a, <2>3 DEF IInv, FreshAhead, RunningIsRemembered, Running, TypeOK, Worker
  <2>7. EndedHaveEnded'
    <3> SUFFICES ASSUME NEW i \in 1..Len(inbox'), inbox'[i].type = "ended"
                 PROVE  worker'[inbox'[i].scan].phase = "ended"
      BY DEF EndedHaveEnded
    <3>1. i \in 1..Len(inbox)
      BY <1>a, <1>b, <2>2 DEF TypeOK
    <3>2. inbox[i].scan \in Scans /\ worker[inbox[i].scan].phase = "ended"
      BY <1>a, <3>1, <2>2, QueuedTyped DEF IInv, EndedHaveEnded, TypeOK
    <3> QED
      BY <1>a, <2>2, <2>3, <3>1, <3>2 DEF TypeOK
  <2> QED
    BY <2>5, <2>6, <2>7 DEF IInv
<1>8. ASSUME NEW w \in Scans, ThreadEnd(w) PROVE IInv'
  <2>1. /\ Post("ended", w)
        /\ worker' = [worker EXCEPT ![w].phase = "ended"]
        /\ worker[w].phase = "emitted"
        /\ UNCHANGED <<epoch, attached, session, request, refining, thread, scans, panel>>
    BY <1>8 DEF ThreadEnd
  <2>2. /\ inbox' \in Seq(Signal)
        /\ Len(inbox') = Len(inbox) + 1
        /\ \A i \in 1..Len(inbox) : inbox'[i] = inbox[i]
        /\ inbox'[Len(inbox')] = [type |-> "ended", scan |-> w]
    BY <1>a, <2>1, PostTyped DEF TypeOK
  <2>3. worker' \in [Scans -> Worker]
    BY <1>a, <2>1 DEF TypeOK, Worker
  <2>4. TypeOK'
    BY <1>a, <2>1, <2>2, <2>3 DEF TypeOK
  <2>5. FreshAhead' /\ RunningIsRemembered'
    BY <1>a, <2>1 DEF IInv, FreshAhead, RunningIsRemembered, Running, TypeOK, Worker
  <2>6. \A v \in Scans : worker[v].phase = "ended" \/ v = w => worker'[v].phase = "ended"
    BY <1>a, <2>1 DEF TypeOK, Worker
  <2>7. EndedHaveEnded'
    <3> SUFFICES ASSUME NEW i \in 1..Len(inbox'), inbox'[i].type = "ended"
                 PROVE  worker'[inbox'[i].scan].phase = "ended"
      BY DEF EndedHaveEnded
    <3>1. CASE i \in 1..Len(inbox)
      BY <1>a, <2>2, <2>6, <3>1, QueuedTyped DEF IInv, EndedHaveEnded, TypeOK
    <3>2. CASE i = Len(inbox')
      BY <2>2, <2>6, <3>2
    <3> QED
      BY <1>a, <2>2, <3>1, <3>2 DEF TypeOK
  <2> QED
    BY <2>4, <2>5, <2>7 DEF IInv
<1>9. ASSUME NEW w \in Scans, OnScanCompleted(w) PROVE IInv'
  <2>1. inbox' \in Seq(Signal)
    BY <1>a, <1>9, ReceiveTyped DEF OnScanCompleted, TypeOK, Outcome
  <2>2. worker[w].snapshot \in BOOLEAN /\ session \in Session
    BY <1>a DEF TypeOK, Worker
  <2>3. /\ session' \in Session
        /\ panel' \in [state : SessionState, attached : BOOLEAN]
    <3> USE DEF SessionState
    <3>1. CASE UNCHANGED <<session, panel>>
      BY <1>a, <3>1 DEF TypeOK
    <3>2. CASE /\ session' = [session EXCEPT !.state = "ready", !.result = w,
                                            !.snapshot = worker[w].snapshot]
               /\ panel' = [state |-> "ready", attached |-> TRUE]
      BY <2>2, <3>2 DEF Session
    <3>3. CASE /\ session' = [session EXCEPT !.state = "error"]
               /\ panel' = [state |-> "error", attached |-> TRUE]
      BY <2>2, <3>3 DEF Session
    <3> QED
      BY <1>9, <3>1, <3>2, <3>3 DEF OnScanCompleted
  <2>4. TypeOK'
    BY <1>a, <1>9, <2>1, <2>3 DEF OnScanCompleted, TypeOK
  <2> QED
    BY <1>9, <2>4, ReceiveKeeps DEF OnScanCompleted, Outcome
<1>10. ASSUME NEW w \in Scans, OnScanFailed(w) PROVE IInv'
  <2>1. inbox' \in Seq(Signal)
    BY <1>a, <1>10, ReceiveTyped DEF OnScanFailed, TypeOK, Outcome
  <2>2. session' \in Session /\ panel' \in [state : SessionState, attached : BOOLEAN]
    BY <1>a, <1>10 DEF OnScanFailed, TypeOK, Session, SessionState
  <2>3. TypeOK'
    BY <1>a, <1>10, <2>1, <2>2 DEF OnScanFailed, TypeOK
  <2> QED
    BY <1>10, <2>3, ReceiveKeeps DEF OnScanFailed, Outcome
<1>11. ASSUME NEW w \in Scans, OnScanCancelled(w) PROVE IInv'
  <2>1. inbox' \in Seq(Signal)
    BY <1>a, <1>11, ReceiveTyped DEF OnScanCancelled, TypeOK, Outcome
  <2>2. session' \in Session /\ panel' \in [state : SessionState, attached : BOOLEAN]
    BY <1>a, <1>11 DEF OnScanCancelled, TypeOK, Session, SessionState
  <2>3. TypeOK'
    BY <1>a, <1>11, <2>1, <2>2 DEF OnScanCancelled, TypeOK
  <2> QED
    BY <1>11, <2>3, ReceiveKeeps DEF OnScanCancelled, Outcome
<1>12. ASSUME NEW w \in Scans, OnThreadFinished(w) PROVE IInv'
  <2>1. inbox' \in Seq(Signal)
    BY <1>a, <1>12, ReceiveTyped DEF OnThreadFinished, TypeOK
  <2>2. TypeOK'
    BY <1>a, <1>12, <2>1 DEF OnThreadFinished, TypeOK
  <2>3. thread' = thread \/ w = thread
    BY <1>12 DEF OnThreadFinished
  <2> QED
    BY <1>12, <2>2, <2>3, ReceiveKeeps DEF OnThreadFinished
<1>13. CASE UNCHANGED vars
  <2>1. TypeOK'
    BY <1>a, <1>13 DEF vars, TypeOK
  <2> QED
    BY <1>13, <2>1, PhasesKept DEF vars
<1> QED
  BY <1>1, <1>2, <1>3, <1>4, <1>5, <1>6, <1>7, <1>8, <1>9, <1>10, <1>11, <1>12, <1>13
     DEF Next, Deliver, UserStartScan, AgentStartScan

-----------------------------------------------------------------------------

\* Hence every behaviour has it throughout.
LEMMA SpecIInv == Spec => []IInv
  BY InitIInv, NextIInv, PTL DEF Spec

\* The variables keep their types, with any number of scans and attachments.
THEOREM TypeCorrect == Spec => []TypeOK
<1>1. IInv => TypeOK
  BY DEF IInv
<1> QED
  BY <1>1, SpecIInv, PTL

\* At most one scan thread runs, however scans, cancellations, detachments and
\* late signals interleave.
THEOREM ScanThreadIsAlone == Spec => []OneScanThread
<1>1. IInv => OneScanThread
  BY DEF IInv, RunningIsRemembered, OneScanThread
<1> QED
  BY <1>1, SpecIInv, PTL

-----------------------------------------------------------------------------
(* A cancelled scan never publishes.  Once a worker was asked to stop while *)
(* it scans, nothing it computed is in the session or on its way there.     *)

Result(w) == [type |-> "completed", scan |-> w]

\* No result of worker w is stored or queued.
Quiet(w) ==
    /\ session.result # w
    /\ \A i \in 1..Len(inbox) : inbox[i] # Result(w)

UnfinishedIsQuiet ==
    \A w \in Scans : worker[w].phase \in {"unused", "scanning"} => Quiet(w)

\* Worker w has nothing to publish and never will.
Muted(w) ==
    /\ worker[w].phase # "unused"
    /\ worker[w].phase = "scanning" => worker[w].cancel
    /\ Quiet(w)

\* A worker moves forward only, and a request to stop is not withdrawn.
LEMMA WorkerAdvances ==
    ASSUME IInv, [Next]_vars, NEW w \in Scans
    PROVE  /\ worker'[w].phase = "unused" => worker[w].phase = "unused"
           /\ worker'[w].phase = "scanning" =>
                  \/ worker[w].phase = "unused"
                  \/ worker[w].phase = "scanning" /\ (worker[w].cancel => worker'[w].cancel)
<1> USE DEF IInv, TypeOK
<1>1. CASE StartScan \/ RefineScan
  <2>1. /\ scans < MaxScans
        /\ \E new : worker' = [worker EXCEPT ![scans + 1] = new]
    BY <1>1 DEF StartScan, RefineScan, Launch
  <2>2. scans + 1 \in Scans /\ worker[scans + 1].phase = "unused"
    BY <2>1, BoundsAssumption DEF FreshAhead, Scans
  <2>3. w # scans + 1 => worker'[w] = worker[w]
    BY <2>1, <2>2
  <2> QED
    BY <2>2, <2>3
<1>2. CASE Attach \/ Detach \/ CancelScan
  <2>1. worker' = worker \/ worker' = WithCancel(worker)
    BY <1>2 DEF Attach, Detach, CancelScan
  <2> QED
    BY <2>1 DEF WithCancel, Worker
<1>3. ASSUME NEW v \in Scans, WorkerFinish(v) \/ ThreadEnd(v)
      PROVE  worker'[w] = worker[w] \/ worker'[w].phase \in {"emitted", "ended"}
  BY <1>3 DEF WorkerFinish, ThreadEnd, Worker
<1>4. ASSUME UNCHANGED worker PROVE worker'[w] = worker[w]
  BY <1>4
<1>5. ASSUME NEW v \in Scans, Deliver(v) PROVE UNCHANGED worker
  BY <1>5 DEF Deliver, OnScanCompleted, OnScanFailed, OnScanCancelled, OnThreadFinished
<1>6. CASE ResetScan \/ UNCHANGED vars
  BY <1>6 DEF ResetScan, vars
<1> QED
  BY <1>1, <1>2, <1>3, <1>4, <1>5, <1>6 DEF Next, UserStartScan, AgentStartScan

\* Only a worker that ends its scan without a request to stop breaks the silence.
LEMMA QuietKept ==
    ASSUME IInv, [Next]_vars, NEW w \in Scans, Quiet(w),
           WorkerFinish(w) => worker[w].cancel
    PROVE  Quiet(w)'
<1> USE DEF IInv, TypeOK
<1>a. w # None
  BY DEF Scans, None
<1>1. ASSUME UNCHANGED inbox, session'.result \in {session.result, None}
      PROVE  Quiet(w)'
  BY <1>a, <1>1 DEF Quiet
<1>2. CASE Attach \/ Detach \/ StartScan \/ ResetScan
  <2>1. CASE StartScan
    BY <1>1, <2>1 DEF StartScan
  <2>2. CASE Attach \/ Detach \/ ResetScan
    <3>1. session' = NoSession /\ UNCHANGED inbox
      BY <2>2 DEF Attach, Detach, ResetScan
    <3> QED
      BY <1>1, <3>1 DEF NoSession
  <2> QED
    BY <1>2, <2>1, <2>2
<1>3. CASE RefineScan \/ CancelScan \/ UNCHANGED vars
  <2>1. session'.result = session.result
    BY <1>3 DEF RefineScan, CancelScan, vars, Session
  <2> QED
    BY <1>1, <1>3, <2>1 DEF RefineScan, CancelScan, vars
<1>4. ASSUME NEW v \in Scans, NEW type \in Outcome \cup {"ended"}, Post(type, v),
             UNCHANGED session, v = w => type # "completed"
      PROVE  Quiet(w)'
  <2>1. [type |-> type, scan |-> v] # Result(w)
    BY <1>4 DEF Result
  <2>2. /\ inbox \in Seq(Signal)
        /\ Len(inbox') = Len(inbox) + 1
        /\ \A i \in 1..Len(inbox) : inbox'[i] = inbox[i]
        /\ inbox'[Len(inbox')] = [type |-> type, scan |-> v]
    BY <1>4, PostTyped
  <2>3. ASSUME NEW i \in 1..Len(inbox') PROVE inbox'[i] # Result(w)
    <3>1. CASE i \in 1..Len(inbox)
      BY <2>2, <3>1 DEF Quiet
    <3>2. CASE i = Len(inbox')
      BY <2>1, <2>2, <3>2
    <3>3. Len(inbox) \in Nat
      BY <2>2
    <3> QED
      BY <2>2, <3>1, <3>2, <3>3
  <2> QED
    BY <1>4, <2>3 DEF Quiet
<1>5. ASSUME NEW v \in Scans, WorkerFinish(v) PROVE Quiet(w)'
  <2>1. PICK type \in Outcome : Post(type, v) /\ (v = w => type # "completed")
    BY <1>5 DEF WorkerFinish, Outcome
  <2> QED
    BY <1>4, <1>5, <2>1 DEF WorkerFinish
<1>6. ASSUME NEW v \in Scans, ThreadEnd(v) PROVE Quiet(w)'
  BY <1>4, <1>6 DEF ThreadEnd
<1>7. ASSUME NEW v \in Scans, NEW type \in Outcome \cup {"ended"}, Receive(type, v),
             session'.result = session.result \/ (type = "completed" /\ session'.result = v)
      PROVE  Quiet(w)'
  <2>1. /\ inbox[1] = [type |-> type, scan |-> v] /\ 1 \in 1..Len(inbox)
        /\ \A i \in 1..Len(inbox') : i + 1 \in 1..Len(inbox) /\ inbox'[i] = inbox[i + 1]
    BY <1>7, ReceiveTyped
  <2>2. type = "completed" => v # w
    BY <2>1 DEF Quiet, Result
  <2> QED
    BY <1>7, <2>1, <2>2 DEF Quiet
<1>8. ASSUME NEW v \in Scans, OnScanCompleted(v) PROVE Quiet(w)'
  <2>1. session'.result \in {session.result, v}
    BY <1>8 DEF OnScanCompleted, Session
  <2> QED
    BY <1>7, <1>8, <2>1 DEF OnScanCompleted, Outcome
<1>9. ASSUME NEW v \in Scans, OnScanFailed(v) PROVE Quiet(w)'
  <2>1. session'.result = session.result
    BY <1>9 DEF OnScanFailed, Session
  <2> QED
    BY <1>7, <1>9, <2>1 DEF OnScanFailed, Outcome
<1>10. ASSUME NEW v \in Scans, OnScanCancelled(v) PROVE Quiet(w)'
  <2>1. session'.result = session.result
    BY <1>10 DEF OnScanCancelled, Session
  <2> QED
    BY <1>7, <1>10, <2>1 DEF OnScanCancelled, Outcome
<1>11. ASSUME NEW v \in Scans, OnThreadFinished(v) PROVE Quiet(w)'
  BY <1>7, <1>11 DEF OnThreadFinished
<1> QED
  BY <1>2, <1>3, <1>5, <1>6, <1>8, <1>9, <1>10, <1>11
     DEF Next, Deliver, UserStartScan, AgentStartScan

\* Until its scan ends a worker has published nothing.
LEMMA SpecUnfinished == Spec => []UnfinishedIsQuiet
<1>1. Init => UnfinishedIsQuiet
  BY DEF Init, UnfinishedIsQuiet, Quiet, NoSession, Scans, None
<1>2. IInv /\ UnfinishedIsQuiet /\ [Next]_vars => UnfinishedIsQuiet'
  <2> SUFFICES ASSUME IInv, UnfinishedIsQuiet, [Next]_vars, NEW w \in Scans,
                      worker'[w].phase \in {"unused", "scanning"}
               PROVE  Quiet(w)'
    BY DEF UnfinishedIsQuiet
  <2>1. Quiet(w)
    BY WorkerAdvances DEF UnfinishedIsQuiet
  <2>2. ~WorkerFinish(w)
    BY DEF WorkerFinish, IInv, TypeOK, Worker
  <2> QED
    BY <2>1, <2>2, QuietKept
<1> QED
  BY <1>1, <1>2, SpecIInv, PTL DEF Spec

\* A scan cancelled while it reads never becomes a result, of its own session or of
\* a later one, whatever was detached, attached and started in the meantime.
THEOREM CancelledStaysSilent == Spec => CancelledScanNeverPublishes
<1> SUFFICES ASSUME NEW w \in Scans
             PROVE  Spec => [](worker[w].phase = "scanning" /\ worker[w].cancel
                                 => [](session.result # w))
  BY DEF CancelledScanNeverPublishes
<1>1. UnfinishedIsQuiet /\ worker[w].phase = "scanning" /\ worker[w].cancel => Muted(w)
  BY DEF UnfinishedIsQuiet, Muted
<1>2. IInv /\ Muted(w) /\ [Next]_vars => Muted(w)'
  <2> SUFFICES ASSUME IInv, Muted(w), [Next]_vars PROVE Muted(w)'
    OBVIOUS
  <2>1. Quiet(w)'
    BY QuietKept DEF Muted, WorkerFinish
  <2> QED
    BY <2>1, WorkerAdvances DEF Muted
<1>3. Muted(w) => session.result # w
  BY DEF Muted, Quiet
<1> QED
  BY <1>1, <1>2, <1>3, SpecIInv, SpecUnfinished, PTL DEF Spec
=============================================================================
