# TLA+ models of M@D-Engine (mempilot)

M@D-Engine is a desktop program that attaches to a running process, searches its memory for
values, watches and freezes the locations found, keeps tested locations as trainer tricks, and
lets an AI assistant do the same under a policy. This directory holds TLA+ models of its scan
engine, of its concurrent core and of what it keeps on disk, the TLC instances that check
them, and TLAPS proofs of the safety properties that matter most. Paths below are relative to
`src/mempilot/` of the repository.

## The system

### Components, their state and their operations

| Component | State | Operations | Hard part |
| --- | --- | --- | --- |
| `AppController` (`controller.py`), the guarded facade | open backend, scan session, active request, scan, scheduler and agent threads, watch table, trainer tricks, known identities | attach, detach, scan, refine, cancel, reset, watches, freeze, tricks, workspaces, agent jobs | every result arrives later, as a signal, in whatever state the controller is by then |
| `ScanWorker` (`ui/workers.py`) over `ScanEngine` (`core/scanner.py`) | request, cancel event | one scan or refinement, then exactly one of completed, failed, cancelled | cancellation against completion; a thread that outlives its session |
| `ScanEngine` (`core/scanner.py`, `core/kernels.py`, `core/values.py`) | candidates, captured chunks, budget | first scan, capture of unknown values, refinement of either | overlap of chunks, alignment, wrap-around, memory that changes or vanishes while it is read |
| `ScanSession` (`core/scan_session.py`) and `ResultsModel` (`ui/models/`) | result, previous values, history, state; page, filter, order | first and refined result, pages, live values | values refreshed while they serve as the baseline of the next refinement; rows read for the session before |
| `WatchTable`, `WatchScheduler`, `FreezeController` (`core/watcher.py`, `ui/workers.py`, `core/freezer.py`) | entries; timer, visible rows, caches; encoded values | edits by GUI and agent; a tick reads, shows and writes back | a tick works on a copy of a table that is edited meanwhile, in a process that may be closed |
| `AgentOrchestrator`, `FlowMachine`, `AgentPolicy` (`agent/`) | mode, bound identity, grant, quota, flow state, pending cards, busy | a turn, its tool calls, cards, consent, mode changes | calls wait for the user while the process, the mode and the scan change |
| Trainer tricks (`services/trainer_service.py`, the controller, `ui/overlay.py`) | catalogue on disk, active set, runtime watches | save, edit, switch, confirm | several steps that can fail one by one; dialogs that stay open while the rest goes on |
| Workspaces (`services/workspace_service.py`) | file of watches | save, load | replaces watches that tricks refer to |
| `AuditService` (`services/audit_service.py`) | pending freeze count, two files | record, heartbeat, rotation | aggregation across crashes, failed appends and rotation |
| Process list (`services/process_service.py`, `ui/dialogs/attach_dialog.py`) and backend (`core/win32_backend.py`) | rows, remembered identities, process handle | list, choose, open, close | numbers of processes are used again; the list is old when a row is chosen |
| GUI (`ui/main_window.py`, `ui/widgets/`) | panels that mirror the above | forwards requests, follows signals | buttons enabled by the last signal heard |

Threads: the GUI thread (controller, orchestrator, widgets), one scan thread, one scheduler
thread and one agent thread. Workers talk to the GUI thread by queued Qt signals only. The GUI
thread talks to the scheduler by queued signals and one blocking call (`stop`), to a scan by a
cancel event and a bounded wait, and to the agent's thread by the event on which `request_tool`
waits.

### What makes each component correct

* Scans: one scan thread; a cancelled scan is never published; a result belongs to the session
  that holds it; the panel never waits for an answer that will not come.
* Watches: a tick never writes into a process other than the one it read; frozen values are
  restored; what is shown settles to what is there; a dead process is noticed, and reported once.
* Agent: authority follows the attached process; a card is confirmed for the process it was
  shown for; consent buys a bounded number of writes, for the process it named; the agent does
  not change the process; a turn ends.
* Scan engine: a first scan finds every matching item once, wherever chunks end; a refinement
  decides each candidate by its own values; a capture keeps its budget and loses nothing that
  its refinement needs; a job ends even if memory vanishes under it.
* Results: no value of one session reaches another; the page stays inside the results; the
  scheduler refreshes the rows that are on the page.
* Tricks: a trick names the same cell in every start of the executable, provided the module could
  be listed when it was saved; its runtime watch is on that cell; what a dialog showed is what is
  done; a switch that fails reaches no further than its own cell and watch; the catalogue can
  always be read.
* Process session: what must never be attached to is not; the end of a process is noticed by its
  handle, whoever has its number.
* Audit: the files are an append-only record that forgets only its oldest entries; it agrees with
  the attachment; each freeze write is reported once or lost with a crash or a failed append.

## Modules

| Module | Content |
| --- | --- |
| `ScanLifecycle` | controller, scan workers, queued signals, scan panel |
| `WatchFreeze` | watch table, scheduler ticks, freezer, attachment, the target process |
| `AgentAuthority` | policy, flow machine, cards, consent dialog, turns, what tools do to the process |
| `ScanEngine` | first scans, captures and refinements, chunk by chunk, against memory that changes |
| `ScanResults` | candidates after a scan, results page, visible rows, refinement over refreshed values |
| `Trainer` | tricks, runtime watches, catalogue file, workspaces, overlay dialogs, restarts of either program |
| `AuditTrail` | what an audit log promises: the abstract specification |
| `AuditLog` | `AuditService`: two files, rotation, counted freeze writes |
| `ProcessSession` | process list, identities, attachment, scheduler and crashes, composed with `AuditLog` |
| `MCScanLifecycle`, `MCWatchFreeze`, `MCAgentAuthority`, `MCScanEngine`, `MCScanResults`, `MCTrainer`, `MCProcessSession` | the TLC instances |
| `ScanLifecycleProofs`, `WatchFreezeProofs`, `AgentAuthorityProofs`, `ScanEngineProofs`, `ScanResultsProofs`, `TrainerProofs`, `AuditLogProofs`, `ProcessSessionProofs` | theorems |

The operators named as mutants in the modules are small faults a change of the code could bring
in. Nothing uses them; each replaces the operator after it to see that some property notices.

### ScanLifecycle

`thread` is the worker the controller remembers (`_scan_thread`, `_scan_worker`, `_scan_cancel`);
`worker` keeps every worker ever started with its phase, its cancel event, and the session and
attachment it was started for, which the code does not remember; `inbox` is the queue of signals.
`Attach`, `Detach`, `StartScan`, `RefineScan`, `CancelScan`, `ResetScan` are the controller's
operations of those names, `WorkerFinish` is `ScanWorker.run`'s end, `ThreadEnd` the end of its
`QThread`, and the four `On...` actions are the slots, each with the main window's slot for the
signal it emits in the same call (`panel`). The bounded wait of `_stop_scan_worker` may expire, so
it orders nothing. User and agent operations are enabled between any two deliveries, since Qt
gives no order between them. Progress reports, the contents of results and shutdown are left out.

### WatchFreeze

The target process writes its memory and exits when it likes. A tick is three stages and a step
for each freeze write: the copy of the table (`TickStart`), reading and showing (`TickRead`), the
writes of `FreezeController.apply` in table order, at most `MaxWrites` of them (`FreezeWrite`),
and showing what was written (`TickEnd`). GUI operations interleave with all of them, except that
detaching waits until the tick is over: `_stop_scheduler` blocks on a call that runs in the
scheduler's thread (`TickOver`). `inbox` holds reports of a dead process. A removed watch's
identifier is not used again. All watches are due at each tick; a read fails only in a process
that has exited; address resolution, intervals and the visible rows of results are left out.

### AgentAuthority

A process is its identity. `AttachTo` and `DetachInternal` do what the controller does and what
the slots of `FlowMachine`, `AgentOrchestrator` and the policy do in the same call. `Refuse`,
`Allow` and `ShowCard` are the three outcomes of `handle_tool_invocation`, decided by `Denied`
and `NeedsCard`, which are `AgentPolicy.evaluate`; `Confirm` and `Dismiss` resolve a card by
click or timer. `Tools` (`ScanTools` and `WatchTools`) is the table of published tools as far as
the policy and the flow can tell them apart. Saving a trick that freezes changes the watch
table, and with it the flow state, as freezing does (`AgentWatch`). `unasked` is a history
variable: mutations executed without a card since the last consent. A provider's answer carries at most one call; its text is
abstracted. Cancelling a turn occurs only at shutdown and is left out. The tool's own timeout is
the card's plus sixty seconds, so the card's timer always comes first and only the card's is
modelled.

### ScanEngine

`memory` and `mapped` are the target's, which writes and frees pages between any two steps of the
worker. `job` holds the locals of the worker: `TakeRegion` and `SkipRegion` are the loop over the
regions of `_scan_regions` and `_capture_unknown`, `ScanChunk` and `CaptureChunk` one turn of the
loop over a region's chunks, `RefineGroup` and `RefineChunk` one turn of `_refine_candidates` and
`_refine_unknown`, `FinishFirst` and `FinishRefine` what follows the loops. `result` is the
session's. A read (`ReadInto`) stops at the first address that is not mapped. A value is the tuple
of its bytes; kernels are `FirstMatch` and `CompareMatch`, whose additions are in the width of the
type, and validation is `Valid` after `CurrentRequest`, what the scan panel lets through. Matches
are a function of addresses, so `count` is kept beside it: the code counts occurrences.
`stable`, `before` and `end` are history. `Width` is one more than the greatest value of so many
bytes, and `Bytes` counts the bytes of each region on its own, so that it is the sum of the sizes.

### ScanResults

The value of an address is the number of times it was written, by whomever, so that "read after
the session began" is a comparison. `session` is the `ScanSession` of the controller, `page` the
`ResultsModel` with the filter and the order of its bar, `visible` and `tick` the scheduler's.
Calls from the GUI thread to the scheduler (`calls`) and its signals back (`inbox`) are queues. The
worker copies the values it will compare with when it begins (`WorkerBegins`), not when it is
started; `OnRows` may come before or after. Refinements compare with values as the visible page
last refreshed them, which is what the code does and what the page shows; the module states no
other baseline. Removing a row removes it from the page alone, as in the code. `Before` is the
order the bar has chosen, ties by address, and `Ordered` the list of candidates in that order.

### Trainer

`proc` is the executable, loaded at any base at each start; its module is its own image. `app` is
what the controller and the watch table hold: `watches`, `runtime` (`_trainer_watch_ids`) and
`active` (`_active_tricks`). `Listed` is the clean-up of the active set in `list_trainer_tricks`,
which runs in whatever call emits `trainers_changed`. Saving takes three steps, since the
catalogue is written to a temporary file and then replaces the old one (`BeginWrite`, `WriteDone`,
`ReplaceFile`), with `SaveFails` and `Crash` between any two. While a save is in progress the GUI
thread does nothing else.

A modal dialog (`dialog`) stops the user but not the agent, the scheduler or the target. What the
user alone can do, or what needs a card of the agent, asks for `Free`; what the agent may do
without one in some mode asks only that the GUI thread is at its event loop (`Responsive`): it
attaches for reading, detaches, loads a workspace, edits, writes and freezes watches behind an
open dialog. `OpenToggle`, `OpenConfirmation` and `OpenForm` show what was true when they opened,
and `AcceptToggle`, `AcceptWrite`, `AcceptFreeze` and `AcceptCreate` act on what is true then,
perhaps in another start of the executable. The overlay's display may be stale, so either
direction of a toggle may be asked for.

`SafeModules` is what a call may be told of the modules: the module, or nothing, since
`enumerate_modules` and `_safe_modules` turn errors into an empty list and WOW64 modules may not
be listed at all. A trick saved from an absolute watch then keeps the absolute address, which the
program's documentation allows for ("su dirección portable cuando existe"); `tested` remembers
which, and `TrickHitsItsCell` is about the others. A location relative to the module is an error
without it.

A call that fails may have done part of its work. `set_freeze` stores the freeze, and
`set_watch_value` writes, before either writes its audit record; `set_trainer_trick_active` may
fail after that, with the trick unmarked, or after the mark. These ends are disjuncts of the
actions: `Frozen` without `Listed`, `WrittenInPart`, `Switched` without `Mark`,
`NoRuntimeOnRecord`, the last two elements of `AfterSave`. So a failed switch may leave memory
written or a watch frozen; `FailedSwitchContained` says that this is all it leaves.
Names of tricks stand for their identifiers, chains have one step, and `tested` and `outcome` are
history.

### AuditLog, AuditTrail, ProcessSession

`AuditLog` has operators, one for each method of `AuditService`, from a state of the service to the
states it may leave: a failed append is an exception, at most one in a run of the application, and
it may come after the rotation. The counter is reset before the heartbeat is appended, as in
`_flush_freeze_locked`, so a failing append loses the count. `ProcessSession` calls these operators
from its actions. `procs` gives each number its present process, `listings` are the worker
threads of the dialog, `known` is `_known_identities`, and `handle` stays with the process it was
opened on. `Attach` records the end of the attachment before it, opens, and records itself;
`AttachFails` is an attachment that stops before; `Shutdown` flushes the count but writes no detach
record; `Crash` loses the count. Numbers may be used again even while a handle is open, which
Windows does not do: the model allows more than happens.

## Runs

| Run | Instance | Shows |
| --- | --- | --- |
| `scan_lifecycle` | 3 scans, 2 attachments | `OneScanThread`, `CancelledScanNeverPublishes`, `PanelLeavesScanning` |
| `watch_freeze` | 2 watches, 2 values, 1 write per tick, 2 attachments | `TickInsideAttachment`, `GoneReportedOnce`, `FreezeHolds`, `ShownSettles`, `DeadProcessDetached` |
| `agent_authority` | 2 processes, 3 attachments, 3 rounds, quota 2 | `GrantFollowsTarget`, `CardOfPresentProcess`, `ConsentBuysLimit`, `AgentKeepsProcess`, `TurnEnds` |
| `scan_engine` | 8 addresses, 2-byte items of bits, two regions and a hole, pages of 2, 1 write or free | `CountExact`, `ScanFindsExactly`, `RefineDecides`, `UnknownDecides`, `CaptureSpendsBudget`, `ScanEnds` |
| `scan_results` | 2 addresses, pages of 1, 2 sessions of 2 scans, queues of 1 and 2 | `ValuesOfOwnSession`, `PageInsideResults`, `RefreshFollowsPage`, `RowsSettle` |
| `trainer` | 2 cells, 2 bases, 2 starts, 2 watches, 1 trick, 2 calls | `RuntimeWatchSameCell`, `TrickHitsItsCell`, `CatalogNeverTorn`, `ConfirmedAsShown`, `FailedSwitchContained` |
| `process_session` | 1 number, 2 processes, 2 runs of the application, files of 2 records | `AttachmentOnRecord`, `FreezeWritesAccounted`, `TrailIsAuditTrail`, `ExitNoticed`, `HeartbeatComes` |
| `scan_foreign_result` | as `scan_lifecycle` | violates `ResultOfOwnSession` |
| `confirmation_exact` | as `trainer` | violates `ExactConfirmation` |
| `consent_other_process` | as `agent_authority` | violates `GrantedAsConsented` |
| `flow_stuck_scanning` | as `agent_authority` | violates `FlowLeavesScanning` |
| `never_attach` | as `process_session` | violates `NeverAttachBlocks` |

Each passing run also checks its module's `TypeOK`. Deadlock is not checked in
the first three modules: with every scan and attachment used up and the user idle, the bounded
system stops, as the program does. The passing runs of the other four modules check it: no order of events
leaves user, target and threads all waiting.

### The bounds

* Scans and attachments are counters of fresh names. Three scans over two attachments give an
  old worker, the one that replaced it, and a third that could collide with either, in the same
  session and across a change of process; two attachments give a stale report and a new process.
* Two watches and one write per tick reach the limit of writes (32 in the code): one watch is
  ahead of the limit and one behind it. Two values suffice to differ or not.
* Two processes tell the bound, granted, named and attached one apart. Three attachments let a
  process be left, another entered and the first entered again. A quota of two and turns of three
  calls let a turn spend the quota and be refused.

* Scan engine: two regions with a hole between them, chunks of one or two bytes for items of two,
  so that an item straddles every chunk boundary and both ends of a region; a page and a half, so
  that freeing a page cuts a region; a budget of 4 pays both regions only in part or exactly,
  according to the request; at most 2 or 3 candidates, so that the limit is reached. Bytes of one
  bit give the four values of an item, signed and unsigned, so additions wrap. One write or free
  is one that falls before, inside or after the read of an item.
* Results: pages of one make two pages of two candidates, so a page is left, shrinks and goes; two
  sessions give rows read for the wrong one; one queued row signal and two queued calls are the
  fewest that let a call overtake a tick and a signal outlive its session.
* Trainer: two cells and bases put the module on either; the second start moves it. Two watches
  let a runtime watch differ from the watch a trick was saved from. Two calls are two edits of the
  user or the agent between an opened dialog and its answer, or a save and a change; attachments,
  workspace loads, crashes, switches and the target's writes are not counted, so a dialog outlives
  a detachment, a second start and an attachment by the agent.
* Process session: one number is enough, since it is given to two processes; two records to a
  file and two runs give each rotation, over an older file and over none, on either side of a
  crash.

### Fairness

Threads run and the event loop turns: weak fairness of each worker's steps, of the scheduler (its
timer fires as long as its thread runs) and of the delivery of queued signals. In
`AgentAuthority` also of the end of a scan, of the worker of a turn (a provider is awaited with a
timeout) and of a card's timer, joined with rejection in `Dismiss`. In `ScanEngine`
the worker's steps are weakly fair. In `ScanResults` the scheduler's queued call is strongly fair:
the call waits while a tick runs, and the scheduler's event loop takes it between two ticks,
however many; its two halves of a tick and the delivery of signals are weakly fair. In
`ProcessSession` time, ticks (with or without a write), the tick that finds the process gone and
the delivery of its signal are weakly fair. `Trainer` has safety properties only. Users, agents,
the target process and its exit are under no fairness.

### What the violations show

1. `scan_foreign_result`: a completed scan's signal is queued; the process is detached, another
   attached and a scan started; `_on_scan_completed` then finds a scanning session and stores the
   old process's addresses in it.
2. `confirmation_exact`: a dialog shows where a trick will be frozen; while it is open the agent
   detaches, the executable starts again at another base and the agent attaches to it for reading;
   accepting freezes the trick's cell where it is now, at an address nobody was shown, in an
   attachment the user did not make. `ConfirmedAsShown` holds all the same: the value is the one
   shown and the cell of the module the same.
3. `consent_other_process`: the consent dialog names one process, which is lost while the dialog
   is open; the agent attaches another for reading; accepting grants autonomy over that one.
4. `flow_stuck_scanning`: `FlowMachine` hears of scans that start and finish, not of those that
   fail or are cancelled.
5. `never_attach`: a process is attached to and ends, a protected one is given its number and is
   attached to under the identity remembered for the number; neither the controller nor the
   backend looks at the new process.

Two more divergences show in the modules and are not runs. A scan's late cancelled or failed signal
shows the panel attached after its process was detached (`OnScanFailed` and
`OnScanCancelled` in `ScanLifecycle`, where `main_window.py:805` and `810` pass `True`). A report that the last process exited, delivered after
another was attached, detaches that one as exited (`OnProcessGone` in `WatchFreeze`,
`controller.py:1041`); `GoneReportedOnce` bounds how often.

## Proofs

Every invariant and every action property that a passing run checks is a theorem. A theorem holds
for all values of the constants that the named assumptions of the modules allow: the bounds are
positive, the quota is any natural number, a module lies in memory wherever it is loaded, and the
"none" values are not processes, memory values or the contents of a file. `EngineAssumption` says
that readable regions are disjoint intervals of a finite memory and that requests are of the type
of `ScanRequest`. `PageAssumption` says what the refinement in groups rests on: a gap read over
within a group (at most 4096 bytes, `core/scanner.py:629`) is no longer than a page, and what is
missing between two regions is a page or more, since Windows hands out memory in pages of 4096
bytes or more. The library modules add no other assumption.

* `ScanLifecycleProofs`. `OneScanThread` is not inductive: the slot of a thread's end makes the
  controller forget the thread. The invariant adds that only the remembered thread runs
  (`RunningIsRemembered`), that the end of a thread is never announced before it has ended
  (`EndedHaveEnded`) and that workers not started yet are unused (`FreshAhead`).
  `ScanThreadIsAlone` follows. `CancelledStaysSilent` is a temporal statement about each worker:
  a worker whose scan has not ended has nothing in the session or the queue
  (`UnfinishedIsQuiet`), so once it is cancelled while scanning it is `Muted`, and `Muted` is
  preserved by every step, since `WorkerFinish` looks at the cancel event.
* `WatchFreezeProofs`. `TickInsideAttachment` needs that a running scheduler belongs to the open
  attachment, which holds because every path that closes the backend waits for the tick first.
  `ReportsAreTrue` needs that no queued report is of the scheduler that runs (`Reports`): the
  report and the end of its scheduler are one step.
* `AgentAuthorityProofs`. The inductive invariant joins `GrantFollowsTarget`,
  `CardOfPresentProcess` and `ConsentBuysLimit` with two facts: unasked mutations of the
  autonomous mode are covered by the used quota, and a call that names a process is an attach
  call. `AgentNeverSwitches` is an action property: an attach call passes only for the bound
  process, and the bound process is the attached one.
* `ScanResultsProofs`. `ValuesOfOwnSession` says something of the session and of the worker's copy,
  but values come from ticks, queued rows and queued answers. The invariant adds that a tick, a
  row signal and a call belong to a session that was started (`Begun`, `RowsOwn`), that those of
  the present session hold values read since it began, and that a worker or an answer exists only
  while its session is scanning (`OneScan`). Since values only grow, "read since" is kept by every
  write. `PagesFit` holds since every refresh of the page begins it where a page may begin, below
  the total (`Fitting`). `SchedulerFollows` is about what is on its way: the last queued call, or
  what the scheduler has heard when none is queued, names the rows of the page (`LastWord`).
* `ScanEngineProofs`. No property of the engine is inductive, for each speaks of a whole job; the
  invariant `EngineInv` says what a job has done so far. `Taken` are the regions the worker has
  taken up, and `Passed` tells what lies before its place in the present one. `Scanned`: a scan has
  found exactly the matches it has passed. `Captured`: the chunks hold every item passed, none
  twice, and what memory held; `Kept`: so they do as long as a refinement may use them. `Refined`
  and `UnknownRefined`: a refinement has decided the candidates off its list, or the chunks before
  `next`. `Counted` follows, since what a chunk finds was not found before (`HitsNew`,
  `UnknownHitsNew`). `Paid`: what is left of the budget and the bytes taken make up the budget, and
  what goes before a skipped region left no room for it. `Holes`: memory is missing by whole
  pages, so that a group whose candidates are all mapped is read to its end (`GroupWhole`).
  `Typed`, `Placed` and `Ended` are the types, the place among disjoint regions and what a finished
  job publishes. `StepCases` and the lemmas named `...Facts` say what each action does to a job;
  the rest uses only that. That the kernels mean what the modes say (`ModesMean`) is arithmetic on
  items of any size: `Unsigned` is a recursive function, followed through its partial sums
  (`Sums`). Where an induction over numbers is needed, `Reaches` takes a set in place of a
  predicate, and argues from the least number outside it.
* `TrainerProofs`. None of the properties is inductive. `IInv` says what each piece of state owes to
  the others: a save in progress carries a complete trick whose identifier is a watch that is
  there, and excludes a dialog (`SavingOK`); a dialog names a trick of the catalogue or a watch that
  was added (`DialogOK`); a watch and its copy in the workspace file have one location (`Agree`),
  without which a load could move a runtime watch; the location of a runtime watch, present or
  stored, and that of the save in progress is the trick's or has it as its portable form
  (`Linked`, `SameCell`); a trick tested on a cell of the module, and saved while the module was listed,
  is a chain or names that cell by its offset (`Remembered`, `NamesCell`); and a dialog shows the value that would be
  written now, and the address the location had in the start of the executable in which the dialog
  opened (`ShownNow`, `ShownAt`), for it may be answered in a later one. Most steps are one kind of
  step of the tables: watches go or one with a new identifier comes, and a trick is forgotten or
  gets the watch that comes (`Steady`). That such a step keeps the invariant is proved once.
  `Linked` is about an attachment: no step goes on in one while the module moves (`SameStart`).
  `ConfirmationIsKept` and `FailedSwitchIsContained` are about single steps: `Outcomes` finds the
  actions that can end so, and each is followed through the part of the switch it completes.
* `AuditLogProofs`. Lemmas on the operators of `AuditLog`: each keeps the types and the account of
  freeze writes, and changes the two files read as one by a step of `AuditTrail`.
* `ProcessSessionProofs`. The invariant joins the log's (`Good`, `Accounted`, `OnRecord`: the last
  word on the attachment in this run agrees with the handle) with the session's: what runs, is
  remembered for a number or was opened has been started (`Identities`). `LogRefinesTrail` is the
  refinement: initial states map to initial states, and every step of the session appends at most
  two records to the trail, or forgets its oldest, or stutters.

Only model-checked: all liveness properties (`PanelLeavesScanning`, `FreezeHolds`,
`ShownSettles`, `DeadProcessDetached`, `TurnEnds`, `ScanEnds`, `RowsSettle`, `ExitNoticed`,
`HeartbeatComes`), since the prover reasons neither about fairness nor about `ENABLED`.

## Plan

What is left, in this order:

1. `AttachedTarget`, an abstract specification of "one process at a time, everything belongs to
   it", implemented by `ScanLifecycle`, `WatchFreeze` and `AgentAuthority` under refinement
   mappings, with the step simulations proved.
2. The module cache of the freezer: a module that is loaded or moved while the scheduler runs.
3. The end of the application with an agent's turn in progress.

## Not modelled

* Floating point and text items of a scan: comparison with a tolerance and case folding are
  numeric and textual kernels without control of their own.
* Providers, conversation and prompts: `AgentAuthority` treats a provider's answer as any call,
  any text or a failure, which is all that the rest relies on.
* Settings, paths, logging, translations, layout and columns of dialogs and widgets: no state that
  changes while the parts modelled run. Intervals of refresh are abstracted to "again and again".
* Win32 calls themselves and the memory lab: the environment of the models.
* The dialog that traces a pointer chain, chains of more than one step, several executables with
  one catalogue directory, and the checks a workspace file undergoes before it is loaded.
* Shutdown of scans, scheduler and agent together; `ProcessSession` has the shutdown of the
  attachment and the log only.
* Audit records that fail while the controller reports something else: the append of a scan's end
  or of a detachment comes before the signal is emitted (`controller.py:898`, `950`, `975`), so a
  failing one suppresses it. The modules of scans, watches and the agent have an audit that works;
  `ProcessSession` has the failures, and no panels. In `Trainer` attaching and detaching do not
  fail so either.
* Lines of the audit written in part, and memory written in part: an append and a backend's write
  succeed or raise as a whole.
* The agent's mode in `Trainer`: whatever some mode lets the agent do without a card it may do
  there at any time.
