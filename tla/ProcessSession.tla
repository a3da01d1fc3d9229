--------------------------- MODULE ProcessSession ---------------------------
(***************************************************************************)
(* From the list of processes to an attachment and its end.  The operating *)
(* system gives the numbers of processes that ended to new ones; the list  *)
(* in the dialog is as old as the worker that made it; the controller      *)
(* remembers the identity it first saw for a number; the backend opens by  *)
(* number and then holds a handle, which stays with the process it was     *)
(* opened on.  The scheduler thread watches that process and counts freeze *)
(* writes; every attachment and detachment goes to the audit log.          *)
(*                                                                         *)
(* An instance is a process from its start to its end, numbered in order   *)
(* of starts: its creation time.  Access masks, architectures, scans and   *)
(* watches are left out (ScanLifecycle, WatchFreeze, Trainer).             *)
(***************************************************************************)
EXTENDS AuditLog, FiniteSets, SequencesExt

CONSTANTS
    Pids,         \* process numbers
    Kinds,        \* of processes: some of user, system and protected
    MaxInstances, \* bound: processes ever started
    MaxListings,  \* bound: process listings running at once
    MaxGone       \* bound: process_gone signals waiting

ASSUME SessionAssumption ==
    /\ Kinds \subseteq {"user", "system", "protected"}
    /\ Pids = Subjects
    /\ MaxInstances \in Nat \ {0}
    /\ MaxListings \in Nat \ {0}
    /\ MaxGone \in Nat \ {0}

VARIABLES
    procs,     \* the instance that has a number now, None if there is none
    kinds,     \* the kind of each instance started
    known,     \* _known_identities
    handle,    \* the backend
    sched,     \* whether the WatchScheduler runs
    gone,      \* process_gone signals queued for the GUI thread
    listings,  \* ProcessListWorkers: what they found, by the filter asked for
    dialog     \* AttachDialog

sessionVars == <<procs, kinds, known, handle, sched, gone, listings, dialog>>
vars == <<audit, sessionVars>>

None == 0
Instance == 1..MaxInstances
Row == [pid : Pids, can_attach : BOOLEAN]
Rows == SUBSET Row

NoHandle == [open |-> FALSE, pid |-> None, instance |-> None, identity |-> None]
NoDialog == [open |-> FALSE, rows |-> {}]

TypeOK ==
    /\ audit \in AuditState
    /\ procs \in [Pids -> Instance \cup {None}]
    /\ kinds \in Seq(Kinds) /\ Len(kinds) <= MaxInstances
    /\ known \in [Pids -> Instance \cup {None}]
    /\ handle \in [open : BOOLEAN, pid : Pids \cup {None},
                   instance : Instance \cup {None}, identity : Instance \cup {None}]
    /\ sched \in BOOLEAN
    /\ gone \in 0..MaxGone
    /\ listings \in Seq([system : BOOLEAN, done : BOOLEAN, rows : Rows])
    /\ dialog \in [open : BOOLEAN, rows : Rows]

Init ==
    /\ AuditInit
    /\ procs = [p \in Pids |-> None]
    /\ kinds = <<>>
    /\ known = [p \in Pids |-> None]
    /\ handle = NoHandle
    /\ sched = FALSE
    /\ gone = 0
    /\ listings = <<>>
    /\ dialog = NoDialog

-----------------------------------------------------------------------------
(* The operating system.                                                   *)

StartProcess(p, kind) ==
    /\ procs[p] = None
    /\ Len(kinds) < MaxInstances
    /\ kinds' = Append(kinds, kind)
    /\ procs' = [procs EXCEPT ![p] = Len(kinds) + 1]
    /\ UNCHANGED <<audit, known, handle, sched, gone, listings, dialog>>

EndProcess(p) ==
    /\ procs[p] # None
    /\ procs' = [procs EXCEPT ![p] = None]
    /\ UNCHANGED <<audit, kinds, known, handle, sched, gone, listings, dialog>>

Running == {procs[p] : p \in Pids} \ {None}

\* Mutant: alive while the number it was opened by is in use.
NumberInUse(h) == h.open /\ procs[h.pid] # None

\* is_alive asks the handle for the exit code.
IsAlive(h) == h.open /\ h.instance \in Running

-----------------------------------------------------------------------------
(* Attaching.                                                              *)

\* ProcessService.identity refuses what must never be attached to.
Allowed(p) == procs[p] # None /\ kinds[procs[p]] # "protected"

\* _identity_for_pid, once an identity was found.
Identity(p) == IF known[p] # None THEN known[p] ELSE procs[p]

\* _detach_internal
Detached == handle' = NoHandle /\ sched' = FALSE

StartScheduler == sched' = TRUE

\* Open and the rest of attach.
Opened(p) ==
    /\ handle' = [open |-> TRUE, pid |-> p, instance |-> procs[p],
                  identity |-> Identity(p)]
    /\ StartScheduler

\* Mutant: a process that is left for another is not recorded.
NotLeft(a) == a

\* Mutant: the backend is closed before it is asked for the number.
LeftWhenClosed(a) == IF handle.open THEN Recorded(a, "detach", None) ELSE a

\* The attachment there is, if there is one, has been left.
Left(a) == IF handle.open THEN Recorded(a, "detach", handle.pid) ELSE a

\* A row of the dialog, or the number the agent or the memory lab names.
Chosen(p) == dialog.open => [pid |-> p, can_attach |-> TRUE] \in dialog.rows

AttachBegins(p) ==
    /\ Chosen(p)
    /\ known[p] # None \/ Allowed(p)
    /\ known' = [known EXCEPT ![p] = Identity(p)]
    /\ UNCHANGED <<procs, kinds, gone, listings>>

\* When the last record fails the call does, with the process open.
Attach(p) ==
    /\ AttachBegins(p)
    /\ procs[p] # None
    /\ Opened(p)
    /\ \/ audit' = Recorded(Left(audit), "attach", p) /\ dialog' = NoDialog
       \/ audit' \in Failed(Left(audit)) /\ UNCHANGED dialog

\* The process cannot be opened, or leaving the one before was not recorded.
AttachFails(p) ==
    /\ AttachBegins(p)
    /\ Detached
    /\ \/ audit' = Left(audit)
       \/ handle.open /\ audit' \in Failed(audit)
    /\ UNCHANGED dialog

LeftOrFailed == IF handle.open THEN {Left(audit)} \cup Failed(audit) ELSE {audit}

Detach ==
    /\ handle.open
    /\ Detached
    /\ audit' \in LeftOrFailed
    /\ UNCHANGED <<procs, kinds, known, gone, listings, dialog>>

\* _on_scheduler_process_gone: whatever is attached now is left.
OnProcessGone ==
    /\ gone > 0
    /\ gone' = gone - 1
    /\ IF handle.open THEN Detached ELSE UNCHANGED <<handle, sched>>
    /\ audit' \in LeftOrFailed
    /\ UNCHANGED <<procs, kinds, known, listings, dialog>>

-----------------------------------------------------------------------------
(* Scheduler thread.                                                       *)

\* A tick of a living target makes up to one freeze write and counts it.
Tick(count) ==
    /\ sched /\ IsAlive(handle)
    /\ audit.made + count <= MaxWrites
    /\ audit' \in FreezeRecorded(audit, count)
    /\ UNCHANGED sessionVars

\* A tick that finds the target gone says so and stops the scheduler.
TickFindsGone ==
    /\ sched /\ handle.open /\ ~IsAlive(handle)
    /\ gone < MaxGone
    /\ gone' = gone + 1
    /\ sched' = FALSE
    /\ UNCHANGED <<audit, procs, kinds, known, handle, listings, dialog>>

TimePasses ==
    /\ audit' = Later(audit)
    /\ UNCHANGED sessionVars

-----------------------------------------------------------------------------
(* The list of processes.  The checkbox for what is hidden and the button   *)
(* that is disabled while a list is awaited only decide who asks when.      *)

\* refresh: a worker is started, however many are running.
Asked(system) ==
    /\ Len(listings) < MaxListings
    /\ listings' = Append(listings, [system |-> system, done |-> FALSE, rows |-> {}])

OpenDialog ==
    /\ ~dialog.open
    /\ dialog' = [open |-> TRUE, rows |-> {}]
    /\ Asked(FALSE)
    /\ UNCHANGED <<audit, procs, kinds, known, handle, sched, gone>>

RefreshList(system) ==
    /\ dialog.open
    /\ Asked(system)
    /\ UNCHANGED <<audit, procs, kinds, known, handle, sched, gone, dialog>>

CloseDialog ==
    /\ dialog.open
    /\ dialog' = NoDialog
    /\ UNCHANGED <<audit, procs, kinds, known, handle, sched, gone, listings>>

\* list_processes: what the system runs, unless it is hidden.
Visible(system) == {p \in Pids : procs[p] # None /\ (system \/ kinds[procs[p]] = "user")}
List(system) ==
    {[pid |-> p, can_attach |-> kinds[procs[p]] # "protected"] : p \in Visible(system)}

WorkerLists(i) ==
    /\ ~listings[i].done
    /\ listings' = [listings EXCEPT ![i] =
                        [system |-> FALSE, done |-> TRUE, rows |-> List(@.system)]]
    /\ UNCHANGED <<audit, procs, kinds, known, handle, sched, gone, dialog>>

\* An answer goes to the dialog there is by then.
OnProcesses(i) ==
    /\ listings[i].done
    /\ listings' = RemoveAt(listings, i)
    /\ dialog' = [dialog EXCEPT !.rows = IF dialog.open THEN listings[i].rows ELSE @]
    /\ UNCHANGED <<audit, procs, kinds, known, handle, sched, gone>>

OnFailure(i) ==
    /\ listings' = RemoveAt(listings, i)
    /\ UNCHANGED <<audit, procs, kinds, known, handle, sched, gone, dialog>>

-----------------------------------------------------------------------------
(* The end of the application, orderly or not, and its next start.         *)

Started ==
    /\ known' = [p \in Pids |-> None]
    /\ handle' = NoHandle
    /\ sched' = FALSE
    /\ gone' = 0
    /\ listings' = <<>>
    /\ dialog' = NoDialog

\* shutdown: the workers are stopped, then the scheduler, then the handle is
\* closed without a record, and then the count is flushed.
Shutdown ==
    /\ audit.run < MaxRuns
    /\ \E a \in Flushed(audit) : audit' = Restarted(a)
    /\ Started
    /\ UNCHANGED <<procs, kinds>>

Crash ==
    /\ audit.run < MaxRuns
    /\ audit' = Restarted(audit)
    /\ Started
    /\ UNCHANGED <<procs, kinds>>

-----------------------------------------------------------------------------
Next ==
    \/ \E p \in Pids, kind \in Kinds : StartProcess(p, kind)
    \/ \E p \in Pids : EndProcess(p) \/ Attach(p) \/ AttachFails(p)
    \/ Detach
    \/ OnProcessGone
    \/ \E count \in 0..1 : Tick(count)
    \/ TickFindsGone
    \/ TimePasses
    \/ OpenDialog
    \/ \E system \in BOOLEAN : RefreshList(system)
    \/ CloseDialog
    \/ \E i \in DOMAIN listings : WorkerLists(i) \/ OnProcesses(i) \/ OnFailure(i)
    \/ Shutdown
    \/ Crash

\* Time, the scheduler's timer and the event loop of the GUI thread go on.
Fairness ==
    /\ WF_vars(TimePasses)
    /\ WF_vars(Tick(0))
    /\ WF_vars(TickFindsGone)
    /\ WF_vars(OnProcessGone)

Spec == Init /\ [][Next]_vars /\ Fairness

-----------------------------------------------------------------------------
(* Properties.                                                             *)

\* The log says who is attached: in a run without a failed append, what it last
\* says of an attachment in this run is that of the open handle, or its end.
LastOfRun(a, i) ==
    /\ TrailOf(a)[i].kind # "heartbeat" /\ TrailOf(a)[i].run = a.run
    /\ \A j \in (i + 1)..Len(TrailOf(a)) : TrailOf(a)[j].kind = "heartbeat"
Agrees(a, entry, h) ==
    IF h.open THEN entry = RecordOf(a, "attach", h.pid) ELSE entry.kind = "detach"
AttachmentOnRecord ==
    ~audit.gap =>
        \A i \in 1..Len(Trail) : LastOfRun(audit, i) => Agrees(audit, Trail[i], handle)

\* A protected process is never open ("`NEVER_ATTACH` bloquea siempre procesos
\* críticos"): what ProcessService refuses stays refused, whatever the controller
\* remembers of the number and whatever opens by it.
NeverAttachBlocks == handle.open => kinds[handle.instance] # "protected"

\* A target that ends is left, even if its number is in use again.
TargetEnded == handle.open /\ handle.instance \notin Running
ExitNoticed == TargetEnded ~> ~TargetEnded

\* Freeze writes are reported while the attachment lasts, also when no more
\* follow them.
HeartbeatComes == audit.pending > 0 /\ sched ~> audit.pending = 0 \/ ~sched
=============================================================================
