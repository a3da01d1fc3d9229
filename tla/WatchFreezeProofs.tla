-------------------------- MODULE WatchFreezeProofs --------------------------
(***************************************************************************)
(* Proofs about WatchFreeze, for any number of watches, values, writes per *)
(* tick and attachments.                                                   *)
(***************************************************************************)
EXTENDS WatchFreeze, TLAPS

\* A scheduler that runs is the one of the present attachment.
SchedulerIsPresent == scheduler # 0 => scheduler = backend.epoch

\* TickInsideAttachment is not inductive: a tick takes its attachment from its
\* scheduler, and only the stop of the old scheduler makes that the open one.
IInv == TypeOK /\ SchedulerIsPresent /\ TickInsideAttachment

-----------------------------------------------------------------------------

\* The invariant holds at the start.
LEMMA InitIInv == Init => IInv
<1> SUFFICES ASSUME Init PROVE IInv
  OBVIOUS
<1> USE ParamAssumption DEF Init
<1>1. NoEntry \in Entry
  BY DEF NoEntry, Entry
<1>2. Nothing \in [Watch -> Val \cup {NoVal}]
  BY DEF Nothing
<1>3. NoTick \in Tick
  BY <1>2 DEF NoTick, Tick
<1>4. inbox \in Seq(1..MaxAttach)
  OBVIOUS
<1>5. table \in [Watch -> Entry]
  BY <1>1
<1>6. /\ backend \in [open : BOOLEAN, write : BOOLEAN, epoch : 0..MaxAttach]
      /\ scheduler \in 0..MaxAttach
  OBVIOUS
<1>7. TypeOK
  BY <1>3, <1>4, <1>5, <1>6 DEF TypeOK
<1>8. SchedulerIsPresent /\ TickInsideAttachment
  BY DEF SchedulerIsPresent, TickInsideAttachment, TickOver, NoTick
<1> QED
  BY <1>7, <1>8 DEF IInv

\* Operations on memory and on watches leave scheduler, tick and attachment alone.
LEMMA EditKeeps ==
    ASSUME IInv, memory' \in [Watch -> Val], table' \in [Watch -> Entry],
           UNCHANGED <<alive, backend, scheduler, tick, inbox>>
    PROVE  IInv'
  BY DEF IInv, TypeOK, SchedulerIsPresent, TickInsideAttachment, TickOver

\* Closing the backend, which waits for the tick in progress.
LEMMA DetachKeeps ==
    ASSUME IInv, DetachInternal, inbox' \in Seq(1..MaxAttach)
    PROVE  IInv'
<1> USE ParamAssumption DEF IInv, DetachInternal
<1>1. backend' \in [open : BOOLEAN, write : BOOLEAN, epoch : 0..MaxAttach]
  BY DEF TypeOK
<1>2. TypeOK'
  BY <1>1 DEF TypeOK
<1>3. SchedulerIsPresent' /\ TickInsideAttachment'
  BY DEF SchedulerIsPresent, TickInsideAttachment, TickOver
<1> QED
  BY <1>2, <1>3

\* Every step keeps it, one case for each operation.
LEMMA NextIInv == IInv /\ [Next]_vars => IInv'
<1> SUFFICES ASSUME IInv, [Next]_vars PROVE IInv'
  OBVIOUS
<1> USE ParamAssumption
<1>a. TypeOK /\ SchedulerIsPresent /\ TickInsideAttachment
  BY DEF IInv
<1>b. \A w \in Watch : table[w] \in Entry
  BY <1>a DEF TypeOK
<1>c. table \in [Watch -> Entry]
  BY <1>a DEF TypeOK
<1>1. CASE ProgramWrites
  <2>1. memory' \in [Watch -> Val] /\ table' \in [Watch -> Entry]
    BY <1>a, <1>1 DEF ProgramWrites, TypeOK
  <2> QED
    BY <2>1, <1>1, EditKeeps DEF ProgramWrites
<1>2. CASE ProcessExits
  BY <1>a, <1>2 DEF ProcessExits, IInv, TypeOK, SchedulerIsPresent, TickInsideAttachment,
                    TickOver
<1>3. CASE Attach
  <2>1. PICK write \in BOOLEAN :
            backend' = [open |-> TRUE, write |-> write, epoch |-> backend.epoch + 1]
    BY <1>3 DEF Attach
  <2>2. backend.epoch \in 0..MaxAttach /\ backend.epoch + 1 \in 0..MaxAttach
    BY <1>a, <1>3 DEF Attach, TypeOK
  <2>3. backend' \in [open : BOOLEAN, write : BOOLEAN, epoch : 0..MaxAttach]
    BY <2>1, <2>2
  <2>4. TypeOK'
    BY <1>a, <1>3, <2>2, <2>3 DEF Attach, TypeOK
  <2>5. SchedulerIsPresent' /\ TickInsideAttachment'
    BY <1>3, <2>1 DEF Attach, SchedulerIsPresent, TickInsideAttachment, TickOver
  <2> QED
    BY <2>4, <2>5 DEF IInv
<1>4. CASE Detach
  <2>1. inbox' \in Seq(1..MaxAttach)
    BY <1>a, <1>4 DEF Detach, TypeOK
  <2> QED
    BY <1>4, <2>1, DetachKeeps DEF Detach
<1>5. ASSUME NEW w \in Watch, AddWatch(w) PROVE IInv'
  <2>1. PICK d \in Val \cup {NoVal} :
            table' = [table EXCEPT ![w].state = "present", ![w].desired = d]
    BY <1>5 DEF AddWatch
  <2> DEFINE e == [table[w] EXCEPT !.state = "present", !.desired = d]
  <2>a. e \in Entry
    BY <1>b DEF Entry
  <2>b. table' = [table EXCEPT ![w] = e]
    BY <1>c, <2>1
  <2> HIDE DEF e
  <2>2. table' \in [Watch -> Entry]
    BY <1>c, <2>a, <2>b
  <2> QED
    BY <1>a, <1>5, <2>2, EditKeeps DEF AddWatch, TypeOK
<1>6. ASSUME NEW w \in Watch, RemoveWatch(w) PROVE IInv'
  <2>1. [NoEntry EXCEPT !.state = "removed"] \in Entry
    BY DEF NoEntry, Entry
  <2>2. table' \in [Watch -> Entry]
    BY <1>a, <1>6, <2>1 DEF RemoveWatch, TypeOK
  <2> QED
    BY <1>a, <1>6, <2>2, EditKeeps DEF RemoveWatch, TypeOK
<1>7. ASSUME NEW w \in Watch, UpdateWatch(w) PROVE IInv'
  <2>1. PICK d \in Val : table' = [table EXCEPT ![w].desired = d]
    BY <1>7 DEF UpdateWatch
  <2>2. table' \in [Watch -> Entry]
    BY <1>a, <1>b, <2>1 DEF TypeOK, Entry
  <2> QED
    BY <1>a, <1>7, <2>2, EditKeeps DEF UpdateWatch, TypeOK
<1>8. ASSUME NEW w \in Watch, NEW frozen \in BOOLEAN, SetFreeze(w, frozen) PROVE IInv'
  <2>1. PICK value \in Val \cup {table[w].desired} :
            table' = [table EXCEPT ![w].frozen = frozen, ![w].desired = value]
    BY <1>8 DEF SetFreeze
  <2>2. value \in Val \cup {NoVal}
    BY <1>b DEF Entry
  <2> DEFINE e == [table[w] EXCEPT !.frozen = frozen, !.desired = value]
  <2>a. e \in Entry
    BY <1>b, <2>2 DEF Entry
  <2>b. table' = [table EXCEPT ![w] = e]
    BY <1>c, <2>1
  <2> HIDE DEF e
  <2>3. table' \in [Watch -> Entry]
    BY <1>c, <2>a, <2>b
  <2> QED
    BY <1>a, <1>8, <2>3, EditKeeps DEF SetFreeze, TypeOK
<1>9. ASSUME NEW w \in Watch, SetWatchValue(w) PROVE IInv'
  <2>1. PICK v \in Val :
            /\ memory' = [memory EXCEPT ![w] = v]
            /\ table' = [table EXCEPT ![w].desired = v, ![w].current = v]
    BY <1>9 DEF SetWatchValue
  <2> DEFINE e == [table[w] EXCEPT !.desired = v, !.current = v]
  <2>a. e \in Entry
    BY <1>b DEF Entry
  <2>b. table' = [table EXCEPT ![w] = e]
    BY <1>c, <2>1
  <2> HIDE DEF e
  <2>2. table' \in [Watch -> Entry]
    BY <1>c, <2>a, <2>b
  <2>3. memory' \in [Watch -> Val]
    BY <1>a, <2>1 DEF TypeOK
  <2> QED
    BY <1>9, <2>2, <2>3, EditKeeps DEF SetWatchValue
<1>10. CASE OnProcessGone
  <2>1. inbox' \in Seq(1..MaxAttach)
    BY <1>a, <1>10 DEF OnProcessGone, TypeOK
  <2>2. CASE DetachInternal
    BY <2>1, <2>2, DetachKeeps
  <2>3. CASE UNCHANGED <<memory, alive, backend, table, scheduler, tick>>
    BY <1>a, <2>1, <2>3 DEF IInv, TypeOK, SchedulerIsPresent, TickInsideAttachment, TickOver
  <2> QED
    BY <1>10, <2>2, <2>3 DEF OnProcessGone
<1>11. CASE TickStart
  <2> DEFINE frozen == [w \in Watch |-> IF Present(w) /\ table[w].frozen
                                        THEN table[w].desired ELSE NoVal]
  <2>1. frozen \in [Watch -> Val \cup {NoVal}]
    BY <1>b DEF Entry
  <2>2. Nothing \in [Watch -> Val \cup {NoVal}]
    BY DEF Nothing
  <2>3. tick' = [phase |-> "copied", epoch |-> scheduler,
                 due |-> {w \in Watch : Present(w)}, target |-> frozen,
                 written |-> Nothing, left |-> MaxWrites]
    BY <1>11 DEF TickStart
  <2>4. MaxWrites \in 0..MaxWrites /\ scheduler \in 0..MaxAttach
    BY <1>a DEF TypeOK
  <2>5. tick' \in Tick
    <3> HIDE DEF frozen
    <3> QED
      BY <2>1, <2>2, <2>3, <2>4 DEF Tick
  <2>6. TypeOK'
    BY <1>a, <1>11, <2>5 DEF TickStart, TypeOK
  <2>7. SchedulerIsPresent' /\ TickInsideAttachment'
    BY <1>a, <1>11, <2>3 DEF TickStart, SchedulerIsPresent, TickInsideAttachment, TickOver
  <2> QED
    BY <2>6, <2>7 DEF IInv
<1>12. CASE TickRead
  <2> DEFINE read == IF alive THEN tick.due ELSE {}
             left == [w \in Watch |-> IF w \in read /\ memory[w] # tick.target[w]
                                      THEN tick.target[w] ELSE NoVal]
  <2>1. tick \in Tick /\ tick' = [tick EXCEPT !.phase = "read", !.target = left]
    BY <1>a, <1>12 DEF TickRead, TypeOK
  <2>2. left \in [Watch -> Val \cup {NoVal}]
    BY <2>1 DEF Tick
  <2>3. tick' \in Tick
    <3> HIDE DEF left
    <3> QED
      BY <2>1, <2>2 DEF Tick
  <2>4. table' = [w \in Watch |-> IF Present(w) /\ w \in read
                                  THEN [table[w] EXCEPT !.current = memory[w]] ELSE table[w]]
    BY <1>12 DEF TickRead
  <2>5. \A w \in Watch : [table[w] EXCEPT !.current = memory[w]] \in Entry
    BY <1>a, <1>b DEF TypeOK, Entry
  <2>6. table' \in [Watch -> Entry]
    BY <1>b, <2>4, <2>5
  <2>7. TypeOK'
    BY <1>a, <1>12, <2>3, <2>6 DEF TickRead, TypeOK
  <2>8. tick'.epoch = tick.epoch /\ tick.phase = "copied"
    BY <1>12, <2>1 DEF Tick, TickRead
  <2>9. SchedulerIsPresent' /\ TickInsideAttachment'
    BY <1>a, <1>12, <2>8 DEF TickRead, SchedulerIsPresent, TickInsideAttachment, TickOver
  <2> QED
    BY <2>7, <2>9 DEF IInv
<1>13. CASE TickGone
  <2>1. scheduler \in 1..MaxAttach
    BY <1>a, <1>13 DEF TickGone, TypeOK
  <2>2. inbox' \in Seq(1..MaxAttach)
    BY <1>a, <1>13, <2>1 DEF TickGone, TypeOK
  <2>3. TypeOK'
    BY <1>a, <1>13, <2>2 DEF TickGone, TypeOK
  <2> QED
    BY <1>13, <2>3 DEF IInv, TickGone, SchedulerIsPresent, TickInsideAttachment, TickOver
<1>14. ASSUME NEW w \in Watch, FreezeWrite(w) PROVE IInv'
  <2>1. tick \in Tick /\ tick.target[w] \in Val /\ tick.phase = "read"
    BY <1>a, <1>14 DEF FreezeWrite, TypeOK, Tick
  <2>2. memory' \in [Watch -> Val]
    BY <1>a, <1>14, <2>1 DEF FreezeWrite, TypeOK
  <2>3. tick' \in Tick /\ tick'.phase = "read" /\ tick'.epoch = tick.epoch
    <3>1. CASE /\ tick.left > 0
               /\ tick' = [tick EXCEPT !.target[w] = NoVal, !.left = @ - 1,
                                       !.written[w] = tick.target[w]]
      <4>1. /\ [tick.target EXCEPT ![w] = NoVal] \in [Watch -> Val \cup {NoVal}]
            /\ [tick.written EXCEPT ![w] = tick.target[w]] \in [Watch -> Val \cup {NoVal}]
        BY <2>1 DEF Tick
      <4>2. tick.left - 1 \in 0..MaxWrites
        BY <2>1, <3>1 DEF Tick
      <4> QED
        BY <2>1, <3>1, <4>1, <4>2 DEF Tick
    <3>2. CASE tick' = [tick EXCEPT !.target[w] = NoVal]
      BY <2>1, <3>2 DEF Tick
    <3> QED
      BY <1>14, <3>1, <3>2 DEF FreezeWrite
  <2>4. TypeOK'
    BY <1>a, <1>14, <2>2, <2>3 DEF FreezeWrite, TypeOK
  <2>5. SchedulerIsPresent' /\ TickInsideAttachment'
    BY <1>a, <1>14, <2>1, <2>3 DEF FreezeWrite, SchedulerIsPresent, TickInsideAttachment,
                                    TickOver
  <2> QED
    BY <2>4, <2>5 DEF IInv
<1>15. CASE TickEnd
  <2>1. NoTick \in Tick
    BY DEF NoTick, Nothing, Tick
  <2>2. \A w \in Watch : tick.written[w] # NoVal
            => [table[w] EXCEPT !.current = tick.written[w]] \in Entry
    <3> SUFFICES ASSUME NEW w \in Watch, tick.written[w] # NoVal
                 PROVE  [table[w] EXCEPT !.current = tick.written[w]] \in Entry
      OBVIOUS
    <3>1. tick.written[w] \in Val \cup {NoVal}
      BY <1>a DEF TypeOK, Tick
    <3> QED
      BY <1>b, <3>1 DEF Entry
  <2>3. table' \in [Watch -> Entry]
    BY <1>b, <1>15, <2>2 DEF TickEnd
  <2>4. TypeOK'
    BY <1>a, <1>15, <2>1, <2>3 DEF TickEnd, TypeOK
  <2> QED
    BY <1>a, <1>15, <2>4 DEF IInv, TickEnd, SchedulerIsPresent, TickInsideAttachment,
                             TickOver, NoTick
<1>16. CASE UNCHANGED vars
  BY <1>a, <1>16 DEF vars, IInv, TypeOK, SchedulerIsPresent, TickInsideAttachment, TickOver
<1> QED
  BY <1>1, <1>2, <1>3, <1>4, <1>5, <1>6, <1>7, <1>8, <1>9, <1>10, <1>11, <1>12, <1>13,
     <1>14, <1>15, <1>16 DEF Next, UserOrAgent, Scheduler

-----------------------------------------------------------------------------

\* Hence every behaviour has it throughout.
LEMMA SpecIInv == Spec => []IInv
  BY InitIInv, NextIInv, PTL DEF Spec

\* The variables keep their types, with any number of watches and attachments.
THEOREM TypeCorrect == Spec => []TypeOK
<1>1. IInv => TypeOK
  BY DEF IInv
<1> QED
  BY <1>1, SpecIInv, PTL

\* Whatever is edited, attached and detached during a tick, the tick ends before
\* its attachment does, so the freezer writes only into the process it read.
THEOREM TicksStayInside == Spec => []TickInsideAttachment
<1>1. IInv => TickInsideAttachment
  BY DEF IInv
<1> QED
  BY <1>1, SpecIInv, PTL

-----------------------------------------------------------------------------
(* Reports of processes that exited.                                       *)

\* GoneReportedOnce is not inductive: a report is new because the scheduler that
\* makes it has made none, and none is of an attachment still to come.
Reports ==
    /\ GoneReportedOnce
    /\ \A i \in DOMAIN inbox :
          inbox[i] <= backend.epoch /\ (scheduler # 0 => inbox[i] # scheduler)

\* Steps that queue or deliver no report and do not attach.
LEMMA QuietKeepsReports ==
    ASSUME Reports, inbox' = inbox, backend'.epoch = backend.epoch,
           alive' => alive, backend'.open => backend.open,
           scheduler' \in {scheduler, 0}
    PROVE  Reports'
  BY DEF Reports, GoneReportedOnce

\* A delivered report leaves the others as they are.
LEMMA DeliveryKeepsReports ==
    ASSUME TypeOK, Reports, OnProcessGone
    PROVE  Reports'
<1>1. /\ inbox \in Seq(1..MaxAttach) /\ inbox # <<>> /\ inbox' = Tail(inbox)
      /\ backend \in [open : BOOLEAN, write : BOOLEAN, epoch : 0..MaxAttach]
  BY DEF OnProcessGone, TypeOK
<1>2. /\ Len(inbox') = Len(inbox) - 1 /\ inbox' \in Seq(1..MaxAttach)
      /\ \A i \in 1..Len(inbox') : i + 1 \in 1..Len(inbox) /\ inbox'[i] = inbox[i + 1]
  BY <1>1
<1>3. /\ backend'.epoch = backend.epoch /\ alive' = alive
      /\ scheduler' \in {scheduler, 0}
      /\ backend'.open => backend.open
  BY <1>1 DEF OnProcessGone, DetachInternal
<1>4. DOMAIN inbox = 1..Len(inbox) /\ DOMAIN inbox' = 1..Len(inbox')
  BY <1>1, <1>2
<1>5. ASSUME NEW i \in DOMAIN inbox'
      PROVE  /\ inbox'[i] = backend'.epoch /\ backend'.open => ~alive'
             /\ inbox'[i] <= backend'.epoch
             /\ scheduler' # 0 => inbox'[i] # scheduler'
  <2>1. i + 1 \in DOMAIN inbox /\ inbox'[i] = inbox[i + 1]
    BY <1>2, <1>4
  <2>2. /\ inbox[i + 1] = backend.epoch /\ backend.open => ~alive
        /\ inbox[i + 1] <= backend.epoch
        /\ scheduler # 0 => inbox[i + 1] # scheduler
    BY <2>1 DEF Reports, GoneReportedOnce
  <2> QED
    BY <2>1, <2>2, <1>3
<1>6. ASSUME NEW i \in DOMAIN inbox', NEW j \in DOMAIN inbox', inbox'[j] = inbox'[i]
      PROVE  j = i
  <2>1. i \in Nat /\ j \in Nat /\ i + 1 \in DOMAIN inbox /\ j + 1 \in DOMAIN inbox
    BY <1>2, <1>4
  <2>2. j + 1 = i + 1
    BY <2>1, <1>2, <1>4, <1>6 DEF Reports, GoneReportedOnce
  <2> QED
    BY <2>1, <2>2
<1> QED
  BY <1>5, <1>6 DEF Reports, GoneReportedOnce

\* The report of a tick that finds its process dead is the first of it.
LEMMA GoneKeepsReports ==
    ASSUME TypeOK, SchedulerIsPresent, Reports, TickGone
    PROVE  Reports'
<1>1. /\ inbox \in Seq(1..MaxAttach) /\ scheduler = backend.epoch /\ scheduler # 0
      /\ scheduler \in 0..MaxAttach /\ inbox' = Append(inbox, scheduler)
      /\ scheduler' = 0 /\ ~alive' /\ backend' = backend
  BY DEF TickGone, TypeOK, SchedulerIsPresent
<1>2. /\ DOMAIN inbox = 1..Len(inbox) /\ DOMAIN inbox' = 1..(Len(inbox) + 1)
      /\ Len(inbox) \in Nat /\ inbox'[Len(inbox) + 1] = scheduler
      /\ \A i \in 1..Len(inbox) : inbox'[i] = inbox[i]
  <2>1. scheduler \in 1..MaxAttach
    BY <1>1
  <2> QED
    BY <1>1, <2>1
<1>3. \A i \in 1..Len(inbox) : inbox[i] # scheduler
  BY <1>1, <1>2 DEF Reports
<1>4. ASSUME NEW i \in DOMAIN inbox', NEW j \in DOMAIN inbox', inbox'[j] = inbox'[i]
      PROVE  j = i
  <2>1. i \in 1..Len(inbox) \/ i = Len(inbox) + 1
    BY <1>2
  <2>2. j \in 1..Len(inbox) \/ j = Len(inbox) + 1
    BY <1>2
  <2> QED
    BY <2>1, <2>2, <1>2, <1>3, <1>4 DEF Reports, GoneReportedOnce
<1>5. \A i \in DOMAIN inbox' : inbox'[i] <= backend'.epoch
  <2>1. scheduler <= backend.epoch
    BY <1>1
  <2> QED
    BY <2>1, <1>1, <1>2 DEF Reports
<1> QED
  BY <1>1, <1>4, <1>5 DEF Reports, GoneReportedOnce

\* No report is of the attachment that begins.
LEMMA AttachKeepsReports ==
    ASSUME TypeOK, Reports, Attach
    PROVE  Reports'
<1>1. /\ backend.epoch \in Nat /\ backend'.epoch = backend.epoch + 1
      /\ scheduler' = backend.epoch + 1 /\ inbox' = inbox
  BY DEF Attach, TypeOK
<1>2. \A i \in DOMAIN inbox : inbox[i] \in Nat
  <2>1. inbox \in Seq(1..MaxAttach) /\ MaxAttach \in Nat
    BY ParamAssumption DEF TypeOK
  <2> QED
    BY <2>1
<1>3. \A i \in DOMAIN inbox : inbox[i] <= backend.epoch
  BY DEF Reports
<1>4. \A i \in DOMAIN inbox' : inbox'[i] < backend'.epoch /\ inbox'[i] # scheduler'
  BY <1>1, <1>2, <1>3
<1>5. \A i \in DOMAIN inbox' :
        inbox'[i] # backend'.epoch /\ inbox'[i] <= backend'.epoch
  BY <1>1, <1>2, <1>4
<1> QED
  BY <1>1, <1>4, <1>5 DEF Reports, GoneReportedOnce

\* Every step keeps it.
LEMMA NextReports ==
    ASSUME IInv, Reports, [Next]_vars
    PROVE  Reports'
<1>1. CASE ProgramWrites \/ ProcessExits
  BY <1>1, QuietKeepsReports DEF ProgramWrites, ProcessExits
<1>2. CASE Attach
  BY <1>2, AttachKeepsReports DEF IInv
<1>3. CASE Detach
  BY <1>3, QuietKeepsReports DEF Detach, DetachInternal, IInv, TypeOK
<1>4. ASSUME NEW w \in Watch, \/ AddWatch(w) \/ RemoveWatch(w) \/ UpdateWatch(w)
                              \/ SetWatchValue(w)
      PROVE  Reports'
  BY <1>4, QuietKeepsReports DEF AddWatch, RemoveWatch, UpdateWatch, SetWatchValue
<1>5. ASSUME NEW w \in Watch, NEW frozen \in BOOLEAN, SetFreeze(w, frozen)
      PROVE  Reports'
  BY <1>5, QuietKeepsReports DEF SetFreeze
<1>6. CASE OnProcessGone
  BY <1>6, DeliveryKeepsReports DEF IInv
<1>7. CASE TickStart \/ TickRead \/ TickEnd
  BY <1>7, QuietKeepsReports DEF TickStart, TickRead, TickEnd
<1>8. CASE TickGone
  BY <1>8, GoneKeepsReports DEF IInv
<1>9. ASSUME NEW w \in Watch, FreezeWrite(w)
      PROVE  Reports'
  BY <1>9, QuietKeepsReports DEF FreezeWrite
<1>10. CASE UNCHANGED vars
  BY <1>10, QuietKeepsReports DEF vars
<1> QED
  BY <1>1, <1>2, <1>3, <1>4, <1>5, <1>6, <1>7, <1>8, <1>9, <1>10
     DEF Next, UserOrAgent, Scheduler

\* For any number of attachments: a queued report is true of its process, and
\* there is no other of it, however late the reports before it are delivered.
THEOREM ReportsAreTrue == Spec => []GoneReportedOnce
<1>1. Init => Reports
  BY DEF Init, Reports, GoneReportedOnce
<1>2. Reports => GoneReportedOnce
  BY DEF Reports
<1>3. IInv /\ Reports /\ [Next]_vars => Reports'
  BY NextReports
<1> QED
  BY <1>1, <1>2, <1>3, SpecIInv, PTL DEF Spec
=============================================================================
