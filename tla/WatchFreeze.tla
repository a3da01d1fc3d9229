---------------------------- MODULE WatchFreeze ----------------------------
(***************************************************************************)
(* Watches, the WatchScheduler thread and the freezer.  The GUI thread     *)
(* edits the WatchTable and attaches and detaches the backend; the         *)
(* scheduler thread ticks: it copies the table, reads every watch, and the *)
(* FreezeController writes back the desired value of each frozen watch     *)
(* whose bytes differ.  The table lock covers single operations only, so   *)
(* the GUI may edit a watch between the copy and the write; detaching      *)
(* waits for the tick in progress (a blocking call of WatchScheduler.stop  *)
(* in the scheduler's own thread).                                         *)
(*                                                                         *)
(* Watches are numbered in insertion order, the order of the table; each   *)
(* has a location of its own and is due at every tick.  Intervals, address *)
(* resolution and value encoding are abstracted.                           *)
(***************************************************************************)
EXTENDS Naturals, Sequences, FiniteSets

CONSTANTS
    Val,          \* values a watched location can hold
    NoVal,        \* no desired value, nothing shown
    MaxWrites,    \* FreezeController.max_writes_per_tick
    MaxWatches,   \* bound: watches ever added
    MaxAttach     \* bound: attachments ever made

ASSUME ParamAssumption ==
    /\ NoVal \notin Val
    /\ MaxWrites \in Nat \ {0}
    /\ MaxWatches \in Nat \ {0}
    /\ MaxAttach \in Nat \ {0}

VARIABLES
    memory,     \* the open process's memory at the watches' locations
    alive,      \* whether that process still runs
    backend,    \* MemoryBackend: open, write permission, which attachment
    table,      \* WatchTable
    scheduler,  \* the attachment whose scheduler thread runs, 0 if none does
    tick,       \* the tick in progress
    inbox       \* process_gone signals queued for the GUI, by their scheduler

vars == <<memory, alive, backend, table, scheduler, tick, inbox>>

Watch == 1..MaxWatches

\* A removed watch's identifier is never used again.
Entry == [state : {"unused", "present", "removed"}, frozen : BOOLEAN,
          desired : Val \cup {NoVal}, current : Val \cup {NoVal}]
NoEntry == [state |-> "unused", frozen |-> FALSE, desired |-> NoVal,
            current |-> NoVal]
Present(w) == table[w].state = "present"

\* due: the watches copied at the start of the tick; target: what the freezer
\* still has to write, per watch; written: what it has written.
Tick == [phase : {"idle", "copied", "read"}, epoch : 0..MaxAttach,
         due : SUBSET Watch, target : [Watch -> Val \cup {NoVal}],
         written : [Watch -> Val \cup {NoVal}], left : 0..MaxWrites]
Nothing == [w \in Watch |-> NoVal]
NoTick == [phase |-> "idle", epoch |-> 0, due |-> {}, target |-> Nothing,
           written |-> Nothing, left |-> 0]

TypeOK ==
    /\ memory \in [Watch -> Val]
    /\ alive \in BOOLEAN
    /\ backend \in [open : BOOLEAN, write : BOOLEAN, epoch : 0..MaxAttach]
    /\ table \in [Watch -> Entry]
    /\ scheduler \in 0..MaxAttach
    /\ tick \in Tick
    /\ inbox \in Seq(1..MaxAttach)

Init ==
    /\ memory \in [Watch -> Val]
    /\ alive = FALSE
    /\ backend = [open |-> FALSE, write |-> FALSE, epoch |-> 0]
    /\ table = [w \in Watch |-> NoEntry]
    /\ scheduler = 0
    /\ tick = NoTick
    /\ inbox = <<>>

-----------------------------------------------------------------------------
(* The target process (outside the program).                               *)

ProgramWrites ==
    /\ alive
    /\ \E w \in Watch, v \in Val :
           v # memory[w] /\ memory' = [memory EXCEPT ![w] = v]
    /\ UNCHANGED <<alive, backend, table, scheduler, tick, inbox>>

ProcessExits ==
    /\ alive
    /\ alive' = FALSE
    /\ UNCHANGED <<memory, backend, table, scheduler, tick, inbox>>

-----------------------------------------------------------------------------
(* GUI thread: attachment.                                                 *)

\* _stop_scheduler returns once the tick in progress is over.
TickOver == tick.phase = "idle"

\* attach: a process still open is detached first; the watches stay.
Attach ==
    /\ TickOver
    /\ backend.epoch < MaxAttach
    /\ \E write \in BOOLEAN :
           backend' = [open |-> TRUE, write |-> write, epoch |-> backend.epoch + 1]
    /\ memory' \in [Watch -> Val]
    /\ alive' = TRUE
    /\ scheduler' = backend.epoch + 1
    /\ UNCHANGED <<table, tick, inbox>>

\* Mutant: the scheduler is told to stop but not waited for.
DetachWithoutWaiting ==
    /\ backend' = [backend EXCEPT !.open = FALSE, !.write = FALSE]
    /\ scheduler' = 0
    /\ UNCHANGED <<memory, alive, table, tick>>

DetachInternal ==
    /\ TickOver
    /\ backend' = [backend EXCEPT !.open = FALSE, !.write = FALSE]
    /\ scheduler' = 0
    /\ UNCHANGED <<memory, alive, table, tick>>

\* detach, and _require_attached finding the process dead.
Detach ==
    /\ backend.open
    /\ DetachInternal
    /\ UNCHANGED inbox

\* _on_scheduler_process_gone detaches whatever is attached now.
OnProcessGone ==
    /\ inbox # <<>>
    /\ inbox' = Tail(inbox)
    /\ IF backend.open THEN DetachInternal
       ELSE UNCHANGED <<memory, alive, backend, table, scheduler, tick>>

-----------------------------------------------------------------------------
(* GUI thread: watches.  Each operation passes _require_attached first.    *)

Attached == backend.open /\ alive

AddWatch(w) ==
    /\ Attached
    /\ table[w].state = "unused"
    /\ \A v \in 1..(w - 1) : table[v].state # "unused"
    /\ \E d \in Val \cup {NoVal} :
           table' = [table EXCEPT ![w].state = "present", ![w].desired = d]
    /\ UNCHANGED <<memory, alive, backend, scheduler, tick, inbox>>

RemoveWatch(w) ==
    /\ Attached
    /\ Present(w)
    /\ table' = [table EXCEPT ![w] = [NoEntry EXCEPT !.state = "removed"]]
    /\ UNCHANGED <<memory, alive, backend, scheduler, tick, inbox>>

UpdateWatch(w) ==
    /\ Attached
    /\ Present(w)
    /\ \E d \in Val : table' = [table EXCEPT ![w].desired = d]
    /\ UNCHANGED <<memory, alive, backend, scheduler, tick, inbox>>

\* set_freeze keeps the entry's desired value when none is given.
SetFreeze(w, frozen) ==
    /\ Attached
    /\ Present(w)
    /\ \E value \in Val \cup {table[w].desired} :
           /\ frozen => value # NoVal
           /\ table' = [table EXCEPT ![w].frozen = frozen, ![w].desired = value]
    /\ UNCHANGED <<memory, alive, backend, scheduler, tick, inbox>>

\* set_watch_value writes at once, then records the value as desired and seen.
SetWatchValue(w) ==
    /\ Attached
    /\ backend.write
    /\ Present(w)
    /\ \E v \in Val :
           /\ memory' = [memory EXCEPT ![w] = v]
           /\ table' = [table EXCEPT ![w].desired = v, ![w].current = v]
    /\ UNCHANGED <<alive, backend, scheduler, tick, inbox>>

-----------------------------------------------------------------------------
(* Scheduler thread.                                                       *)

\* Mutant: the count of writes is carried over from one tick to the next.
TickStartKeepsCount ==
    /\ scheduler # 0
    /\ backend.open
    /\ alive
    /\ TickOver
    /\ tick' = [phase |-> "copied", epoch |-> scheduler,
                due |-> {w \in Watch : Present(w)},
                target |-> [w \in Watch |-> IF Present(w) /\ table[w].frozen
                                            THEN table[w].desired ELSE NoVal],
                written |-> Nothing, left |-> tick.left]
    /\ UNCHANGED <<memory, alive, backend, table, scheduler, inbox>>

TickStart ==
    /\ scheduler # 0
    /\ backend.open
    /\ alive
    /\ TickOver
    /\ tick' = [phase |-> "copied", epoch |-> scheduler,
                due |-> {w \in Watch : Present(w)},
                target |-> [w \in Watch |-> IF Present(w) /\ table[w].frozen
                                            THEN table[w].desired ELSE NoVal],
                written |-> Nothing, left |-> MaxWrites]
    /\ UNCHANGED <<memory, alive, backend, table, scheduler, inbox>>

\* Mutant: only the watches that are to be frozen are shown again.
TickReadSkipping ==
    /\ tick.phase = "copied"
    /\ LET read == IF alive THEN tick.due ELSE {}
       IN  /\ tick' = [tick EXCEPT !.phase = "read",
                         !.target = [w \in Watch |->
                             IF w \in read /\ memory[w] # tick.target[w]
                             THEN tick.target[w] ELSE NoVal]]
           /\ table' = [w \in Watch |->
                           IF Present(w) /\ w \in read /\ tick.target[w] # NoVal
                           THEN [table[w] EXCEPT !.current = memory[w]]
                           ELSE table[w]]
    /\ UNCHANGED <<memory, alive, backend, scheduler, inbox>>

\* The watches are read and shown; a frozen one whose bytes equal the desired
\* ones is done.  Nothing can be read of a process that exited meanwhile.
TickRead ==
    /\ tick.phase = "copied"
    /\ LET read == IF alive THEN tick.due ELSE {}
       IN  /\ tick' = [tick EXCEPT !.phase = "read",
                         !.target = [w \in Watch |->
                             IF w \in read /\ memory[w] # tick.target[w]
                             THEN tick.target[w] ELSE NoVal]]
           /\ table' = [w \in Watch |->
                           IF Present(w) /\ w \in read
                           THEN [table[w] EXCEPT !.current = memory[w]]
                           ELSE table[w]]
    /\ UNCHANGED <<memory, alive, backend, scheduler, inbox>>

\* Mutant: the scheduler stops without a report.
TickGoneSilently ==
    /\ scheduler # 0
    /\ backend.open
    /\ ~alive
    /\ TickOver
    /\ scheduler' = 0
    /\ UNCHANGED <<memory, alive, backend, table, tick, inbox>>

\* Mutant: the report does not stop the timer.
TickGoneTicksOn ==
    /\ scheduler # 0
    /\ backend.open
    /\ ~alive
    /\ TickOver
    /\ inbox' = Append(inbox, scheduler)
    /\ UNCHANGED <<memory, alive, backend, table, scheduler, tick>>

\* The tick finds the process dead: it reports and stops its own scheduler.
TickGone ==
    /\ scheduler # 0
    /\ backend.open
    /\ ~alive
    /\ TickOver
    /\ inbox' = Append(inbox, scheduler)
    /\ scheduler' = 0
    /\ UNCHANGED <<memory, alive, backend, table, tick>>

\* Mutant: the limit of writes per tick is off by one.
FreezeWriteOneMore(w) ==
    /\ tick.phase = "read"
    /\ tick.target[w] # NoVal
    /\ \A v \in 1..(w - 1) : tick.target[v] = NoVal
    /\ alive
    /\ backend.write
    /\ memory' = [memory EXCEPT ![w] = tick.target[w]]
    /\ tick' = [tick EXCEPT !.target[w] = NoVal, !.left = @ - 1,
                            !.written[w] = tick.target[w]]
    /\ UNCHANGED <<alive, backend, table, scheduler, inbox>>

\* The next target of apply, in table order: over the limit it is skipped, and
\* so is a write the backend refuses.
FreezeWrite(w) ==
    /\ tick.phase = "read"
    /\ tick.target[w] # NoVal
    /\ \A v \in 1..(w - 1) : tick.target[v] = NoVal
    /\ IF tick.left > 0 /\ alive /\ backend.write
       THEN /\ memory' = [memory EXCEPT ![w] = tick.target[w]]
            /\ tick' = [tick EXCEPT !.target[w] = NoVal, !.left = @ - 1,
                                    !.written[w] = tick.target[w]]
       ELSE /\ tick' = [tick EXCEPT !.target[w] = NoVal]
            /\ UNCHANGED memory
    /\ UNCHANGED <<alive, backend, table, scheduler, inbox>>

\* update_runtime of the written values; a watch removed meanwhile is skipped.
TickEnd ==
    /\ tick.phase = "read"
    /\ tick.target = Nothing
    /\ table' = [w \in Watch |->
                    IF Present(w) /\ tick.written[w] # NoVal
                    THEN [table[w] EXCEPT !.current = tick.written[w]]
                    ELSE table[w]]
    /\ tick' = NoTick
    /\ UNCHANGED <<memory, alive, backend, scheduler, inbox>>

-----------------------------------------------------------------------------

UserOrAgent ==
    \/ Attach
    \/ Detach
    \/ \E w \in Watch :
           \/ AddWatch(w)
           \/ RemoveWatch(w)
           \/ UpdateWatch(w)
           \/ \E frozen \in BOOLEAN : SetFreeze(w, frozen)
           \/ SetWatchValue(w)

Scheduler ==
    \/ TickStart
    \/ TickRead
    \/ TickGone
    \/ \E w \in Watch : FreezeWrite(w)
    \/ TickEnd

Next ==
    \/ ProgramWrites
    \/ ProcessExits
    \/ UserOrAgent
    \/ OnProcessGone
    \/ Scheduler

\* The timer fires for as long as its thread runs, and the event loop delivers.
Spec == Init /\ [][Next]_vars /\ WF_vars(Scheduler) /\ WF_vars(OnProcessGone)

-----------------------------------------------------------------------------
(* Properties.                                                             *)

\* No tick outlives its attachment, so what the freezer writes goes to the
\* process whose watches it read: _detach_internal stops the scheduler in the
\* scheduler's own thread before it closes the handle and attach opens another.
TickInsideAttachment ==
    ~TickOver => backend.open /\ tick.epoch = backend.epoch

\* A frozen watch comes back to its desired value each time the program changes
\* it, unless it is edited or the process goes away, as long as fewer frozen
\* watches than the writes of one tick come before it.  (The others may starve.)
FreezeHolds ==
    \A w \in Watch, d \in Val :
        LET ahead == {v \in 1..(w - 1) : Present(v) /\ table[v].frozen}
            held == /\ Attached /\ backend.write
                    /\ Present(w) /\ table[w].frozen /\ table[w].desired = d
                    /\ Cardinality(ahead) < MaxWrites
        IN  held /\ memory[w] # d ~> memory[w] = d \/ ~held

\* A watch whose location settles is eventually shown with its value, whatever
\* stale value a tick in progress stored in between.
ShownSettles ==
    \A w \in Watch, v \in Val :
        <>[](Attached /\ Present(w) /\ memory[w] = v)
            => <>[](table[w].current = v)

\* A process that exits is eventually detached, even if nobody uses it.
DeadProcessDetached == backend.open /\ ~alive ~> ~(backend.open /\ ~alive)

\* A report still queued is of a process that exited, and the only one of it.  Its
\* slot detaches whatever is attached by then, so this is what bounds the living
\* processes that late reports can detach: no more of them than exited.
GoneReportedOnce ==
    \A i \in DOMAIN inbox :
        /\ inbox[i] = backend.epoch /\ backend.open => ~alive
        /\ \A j \in DOMAIN inbox : inbox[j] = inbox[i] => j = i
=============================================================================
