---------------------------- MODULE ScanResults ----------------------------
(***************************************************************************)
(* The candidates of a scan session after the scan: the results page shows *)
(* a slice of them, the WatchScheduler thread re-reads the rows of that    *)
(* page at its ticks, and what it reads is written back into the very      *)
(* arrays the next refinement compares with.  The GUI thread owns session  *)
(* and page; it tells the scheduler which rows are visible by queued       *)
(* calls, and gets rows and scan answers as queued signals.                *)
(*                                                                         *)
(* A value is the number of times its address has been written, so that an *)
(* older value is a smaller one.  One data type; how a scan reads memory   *)
(* is ScanEngine, and answers that reach another session are ScanLifecycle:*)
(* here a scan starts once the answer to the one before was delivered.  A  *)
(* "between" scan reaches from its value up to MaxValue.                   *)
(***************************************************************************)
EXTENDS Naturals, Sequences, FiniteSets, SequencesExt

CONSTANTS
    Address,     \* addresses of items
    PageSize,    \* ui.results_page_size
    Orders,      \* orders the user chooses: <<by value, descending>>
    MaxValue,    \* bound: writes of the target to one address
    MaxSessions, \* bound: scan sessions ever started
    MaxScans,    \* bound: scans in one session
    MaxQueue,    \* bound: row signals waiting for the GUI thread
    MaxCalls,    \* bound: calls waiting for the scheduler
    MaxPage      \* bound: page numbers entered

ASSUME ResultsAssumption ==
    /\ Address \subseteq Nat /\ IsFiniteSet(Address)
    /\ PageSize \in Nat \ {0}
    /\ Orders \subseteq BOOLEAN \X BOOLEAN
    /\ MaxValue \in Nat
    /\ MaxSessions \in Nat \ {0}
    /\ MaxScans \in Nat \ {0}
    /\ MaxQueue \in Nat \ {0}
    /\ MaxCalls \in Nat \ {0}
    /\ MaxPage \in Nat \ {0}

VARIABLES
    memory,    \* the target's memory
    session,   \* AppController._session
    started,   \* sessions started so far
    job,       \* the ScanWorker
    visible,   \* WatchScheduler._visible
    tick,      \* the rows read by the tick in progress
    calls,     \* set_visible_rows calls queued for the scheduler
    inbox,     \* signals queued for the GUI thread
    page       \* ResultsModel

vars == <<memory, session, started, job, visible, tick, calls, inbox, page>>

Value == 0..MaxValue
None == 0
Values == UNION {[S -> Value] : S \in SUBSET Address}
Empty == [a \in {} |-> 0]

Mode == {"between", "changed", "unchanged"}
Request == [mode : Mode, value : Value]
State == {"none", "scanning", "ready", "failed"}
Visible == [session : 0..MaxSessions, rows : SUBSET Address]
Signal == [type : {"rows", "completed", "failed"}, session : 0..MaxSessions,
           values : Values]
AnyFilter == MaxValue + 1
Row == [address : Address, current : Value]

NoSession == [id |-> None, state |-> "none", values |-> Empty,
              previous |-> Empty, scans |-> 0, since |-> Empty]
NoJob == [phase |-> "idle", mode |-> "changed", value |-> 0, old |-> Empty,
          from |-> {}]
NoTick == [busy |-> FALSE, session |-> None, values |-> Empty]
NoPage == [rows |-> <<>>, offset |-> 0, total |-> 0, filter |-> AnyFilter,
           byValue |-> FALSE, descending |-> FALSE]

\* session.since is history: memory when the session began.
TypeOK ==
    /\ memory \in [Address -> Value]
    /\ session \in [id : 0..MaxSessions, state : State, values : Values,
                    previous : Values, scans : 0..MaxScans, since : Values]
    /\ started \in 0..MaxSessions
    /\ job \in [phase : {"idle", "launched", "begun"}, mode : Mode, value : Value,
                old : Values, from : SUBSET Address]
    /\ visible \in Visible
    /\ tick \in [busy : BOOLEAN, session : 0..MaxSessions, values : Values]
    /\ calls \in Seq(Visible)
    /\ inbox \in Seq(Signal)
    /\ page.rows \in Seq(Row)

Init ==
    /\ memory = [a \in Address |-> 0]
    /\ session = NoSession
    /\ started = 0
    /\ job = NoJob
    /\ visible = [session |-> None, rows |-> {}]
    /\ tick = NoTick
    /\ calls = <<>>
    /\ inbox = <<>>
    /\ page = NoPage

\* Whoever writes, a later value is a greater one.
Write(a) ==
    /\ memory[a] < MaxValue
    /\ memory' = [memory EXCEPT ![a] = @ + 1]

ProgramWrites(a) ==
    /\ Write(a)
    /\ UNCHANGED <<session, started, job, visible, tick, calls, inbox, page>>

-----------------------------------------------------------------------------
(* The page: a slice of the candidates that pass the filter, in order.     *)

Ready(s) == s.state = "ready"
Selected(s, p) ==
    {a \in DOMAIN s.values : p.filter \in {AnyFilter, s.values[a]}}
Total(s, p) == IF Ready(s) THEN Cardinality(Selected(s, p)) ELSE 0

\* The order of the rows; candidates of one value go by address.
Before(s, p, a, b) ==
    IF p.byValue /\ s.values[a] # s.values[b]
    THEN s.values[a] < s.values[b] ELSE a < b

Ordered(s, p) ==
    LET all == Selected(s, p)
        ascending == CHOOSE f \in [1..Cardinality(all) -> all] :
                        \A i, j \in DOMAIN f : i < j => Before(s, p, f[i], f[j])
    IN  IF p.descending THEN Reverse(ascending) ELSE ascending

\* page and results_page
Slice(s, p, offset) ==
    LET all == Ordered(s, p)
        length == IF Total(s, p) <= offset THEN 0
                  ELSE IF Total(s, p) - offset < PageSize THEN Total(s, p) - offset
                  ELSE PageSize
    IN  [i \in 1..length |->
            [address |-> all[offset + i], current |-> s.values[all[offset + i]]]]

\* Mutant: the last page is counted from the total itself.
LastPageOfTotal(total) == (total \div PageSize) * PageSize

LastPage(total) ==
    IF total = 0 THEN 0 ELSE ((total - 1) \div PageSize) * PageSize

\* reload: one that lies beyond the results falls back to the last page.
Load(s, p, offset) ==
    LET total == Total(s, p)
        kept == IF offset # 0 /\ offset >= total THEN LastPage(total) ELSE offset
    IN  [p EXCEPT !.rows = Slice(s, p, kept), !.offset = kept, !.total = total]

\* _scheduler_rows_requested: a queued call of the scheduler.
Call(id, rows) ==
    /\ Len(calls) < MaxCalls
    /\ calls' = Append(calls, [session |-> id, rows |-> rows])

\* Mutant: rows are named by their number on the page.
RowNumbers(p) == DOMAIN p.rows

Addresses(p) == {p.rows[i].address : i \in DOMAIN p.rows}

\* Mutant: a page that lost a row is not told to the scheduler.
SetVisibleUnlessShorter(s, p) ==
    IF s.id = None \/ Len(p.rows) < Len(page.rows) THEN UNCHANGED calls
    ELSE Call(s.id, Addresses(p))

\* set_visible_results says nothing while there is no session.
SetVisible(s, p) ==
    IF s.id = None THEN UNCHANGED calls ELSE Call(s.id, Addresses(p))

\* _set_page
SetPage(s, p) == page' = p /\ SetVisible(s, p)

\* clear
Cleared(p) == [p EXCEPT !.rows = <<>>, !.offset = 0, !.total = 0]

-----------------------------------------------------------------------------
(* GUI thread: scans.                                                      *)

AnswerPending == \E i \in DOMAIN inbox : inbox[i].type # "rows"
Idle == job.phase = "idle" /\ ~AnswerPending
Launch(req, from) ==
    job' = [phase |-> "launched", mode |-> req.mode, value |-> req.value,
            old |-> Empty, from |-> from]

\* The scheduler is told to refresh nothing before the worker starts; the page
\* keeps the rows of the session before until the scan finishes.
StartScan(req) ==
    /\ Idle
    /\ started < MaxSessions
    /\ req.mode = "between"
    /\ started' = started + 1
    /\ session' = [NoSession EXCEPT !.id = started + 1, !.state = "scanning",
                                    !.scans = 1, !.since = memory]
    /\ Call(started + 1, {})
    /\ Launch(req, Address)
    /\ UNCHANGED <<memory, visible, tick, inbox, page>>

RefineScan(req) ==
    /\ Idle
    /\ Ready(session)
    /\ session.scans < MaxScans
    /\ session' = [session EXCEPT !.state = "scanning", !.scans = @ + 1]
    /\ Call(session.id, {})
    /\ Launch(req, DOMAIN session.values)
    /\ UNCHANGED <<memory, started, visible, tick, inbox, page>>

\* reset_scan; the window then clears the page, without a session.
ResetScan ==
    /\ session.state \in {"ready", "failed"}
    /\ session' = NoSession
    /\ Call(None, {})
    /\ page' = Cleared(page)
    /\ UNCHANGED <<memory, started, job, visible, tick, inbox>>

-----------------------------------------------------------------------------
(* Scan worker thread.  It copies the values to compare with when it       *)
(* begins, while the GUI thread may still write to them.                   *)

WorkerBegins ==
    /\ job.phase = "launched"
    /\ job' = [job EXCEPT !.phase = "begun", !.old = session.values]
    /\ UNCHANGED <<memory, session, started, visible, tick, calls, inbox, page>>

Matches(a) ==
    \/ job.mode = "between" /\ memory[a] >= job.value
    \/ job.mode = "changed" /\ memory[a] # job.old[a]
    \/ job.mode = "unchanged" /\ memory[a] = job.old[a]

Answer(type, values) ==
    /\ inbox' = Append(inbox, [type |-> type, session |-> session.id,
                               values |-> values])
    /\ job' = NoJob
    /\ UNCHANGED <<memory, session, started, visible, tick, calls, page>>

WorkerReads ==
    /\ job.phase = "begun"
    /\ Answer("completed", [a \in {b \in job.from : Matches(b)} |-> memory[a]])

\* A cancellation, a read error or more matches than the limit.
WorkerGivesUp ==
    /\ job.phase # "idle"
    /\ Answer("failed", Empty)

-----------------------------------------------------------------------------
(* GUI thread: signals.                                                    *)

Receive(type) == inbox # <<>> /\ Head(inbox).type = type /\ inbox' = Tail(inbox)

\* set_first_result and set_refined_result, then the window reloads the page.
\* The previous value shown is the one the session holds now.
OnCompleted ==
    LET found == Head(inbox).values
        s == [session EXCEPT
                !.state = "ready", !.values = found,
                !.previous = IF session.scans = 1 THEN Empty
                             ELSE [a \in DOMAIN found |-> session.values[a]]]
    IN  /\ Receive("completed")
        /\ session' = s
        /\ SetPage(s, Load(s, page, 0))
        /\ UNCHANGED <<memory, started, job, visible, tick>>

OnFailed ==
    /\ Receive("failed")
    /\ session' = [session EXCEPT !.state = "failed"]
    /\ UNCHANGED <<memory, started, job, visible, tick, calls, page>>

Refreshed(values, updates) ==
    [a \in DOMAIN values |-> IF a \in DOMAIN updates THEN updates[a] ELSE values[a]]

\* Mutant: rows are applied to whatever session there is.
UpdatedAnySession(s, signal) == Refreshed(s.values, signal.values)

\* _on_row_updates: rows of another session are ignored.
Updated(s, signal) ==
    IF signal.session = s.id THEN Refreshed(s.values, signal.values) ELSE s.values

\* Mutant: updates are looked up by the number of the row.
ShownByNumber(rows, updates) ==
    [i \in DOMAIN rows |->
        IF i \in DOMAIN updates THEN [rows[i] EXCEPT !.current = updates[i]]
        ELSE rows[i]]

\* update_live_values: the page takes every value of an address it shows.
Shown(rows, updates) ==
    [i \in DOMAIN rows |->
        IF rows[i].address \in DOMAIN updates
        THEN [rows[i] EXCEPT !.current = updates[rows[i].address]] ELSE rows[i]]

OnRows ==
    /\ Receive("rows")
    /\ page' = [page EXCEPT !.rows = Shown(@, Head(inbox).values)]
    /\ session' = [session EXCEPT !.values = Updated(session, Head(inbox))]
    /\ UNCHANGED <<memory, started, job, visible, tick, calls>>

-----------------------------------------------------------------------------
(* GUI thread: the page.                                                   *)

Turn(offset) ==
    /\ SetPage(session, Load(session, page, offset))
    /\ UNCHANGED <<memory, session, started, job, visible, tick, inbox>>

NextPage == page.offset + PageSize < page.total /\ Turn(page.offset + PageSize)

PreviousPage ==
    /\ page.offset > 0
    /\ Turn(IF page.offset > PageSize THEN page.offset - PageSize ELSE 0)

GoToPage(n) ==
    LET target == IF n = 0 THEN 0 ELSE (n - 1) * PageSize
        last == LastPage(page.total)
    IN  Turn(IF page.total # 0 /\ target > last THEN last ELSE target)

SetFilter(value) ==
    LET p == [page EXCEPT !.filter = value]
    IN  /\ SetPage(session, Load(session, p, 0))
        /\ UNCHANGED <<memory, session, started, job, visible, tick, inbox>>

SetOrder(order) ==
    LET p == [page EXCEPT !.byValue = order[1], !.descending = order[2]]
    IN  /\ SetPage(session, Load(session, p, 0))
        /\ UNCHANGED <<memory, session, started, job, visible, tick, inbox>>

\* edit_result_value: the row was chosen before the dialogs were answered, and
\* the page is loaded again after the write.
EditResult(a) ==
    /\ Write(a)
    /\ SetPage(session, Load(session, page, page.offset))
    /\ UNCHANGED <<session, started, job, visible, tick, inbox>>

\* Only the row goes; the candidate stays in the session.
RemoveRow(i) ==
    LET p == [page EXCEPT !.rows = RemoveAt(@, i)]
    IN  /\ SetPage(session, p)
        /\ UNCHANGED <<memory, session, started, job, visible, tick, inbox>>

-----------------------------------------------------------------------------
(* Scheduler thread: a call waits while a tick runs.                       *)

SetVisibleRows ==
    /\ ~tick.busy
    /\ calls # <<>>
    /\ visible' = Head(calls)
    /\ calls' = Tail(calls)
    /\ UNCHANGED <<memory, session, started, job, tick, inbox, page>>

RowsQueued == Cardinality({i \in DOMAIN inbox : inbox[i].type = "rows"})

TickReads ==
    /\ ~tick.busy
    /\ visible.rows # {}
    /\ RowsQueued < MaxQueue
    /\ tick' = [busy |-> TRUE, session |-> visible.session,
                values |-> [a \in visible.rows |-> memory[a]]]
    /\ UNCHANGED <<memory, session, started, job, visible, calls, inbox, page>>

\* _emit_rows, after the watches have been read and frozen.
TickEmits ==
    /\ tick.busy
    /\ inbox' = Append(inbox, [type |-> "rows", session |-> tick.session,
                               values |-> tick.values])
    /\ tick' = NoTick
    /\ UNCHANGED <<memory, session, started, job, visible, calls, page>>

-----------------------------------------------------------------------------
OnSignal == OnCompleted \/ OnFailed \/ OnRows

Next ==
    \/ \E a \in Address : ProgramWrites(a) \/ EditResult(a)
    \/ \E req \in Request : StartScan(req) \/ RefineScan(req)
    \/ ResetScan
    \/ WorkerBegins
    \/ WorkerReads
    \/ WorkerGivesUp
    \/ OnCompleted
    \/ OnFailed
    \/ OnRows
    \/ NextPage
    \/ PreviousPage
    \/ \E n \in 0..MaxPage : GoToPage(n)
    \/ \E value \in Value \cup {AnyFilter} : SetFilter(value)
    \/ \E order \in Orders : SetOrder(order)
    \/ \E i \in DOMAIN page.rows : RemoveRow(i)
    \/ SetVisibleRows
    \/ TickReads
    \/ TickEmits

\* The scheduler's timer and event loop and the GUI's event loop go on.  A call
\* posted to the scheduler's thread is taken between two ticks, however many.
Fairness ==
    /\ SF_vars(SetVisibleRows)
    /\ WF_vars(TickReads)
    /\ WF_vars(TickEmits)
    /\ WF_vars(OnSignal)

Spec == Init /\ [][Next]_vars /\ Fairness

-----------------------------------------------------------------------------
(* Properties.                                                             *)

NotBefore(values, past) ==
    \A a \in DOMAIN values : a \in DOMAIN past /\ values[a] >= past[a]

\* Every value a session holds, shows as previous, or refines with was read
\* after the session began: a tick that read the rows of the session before
\* and reports them late changes none of them.
ValuesOfOwnSession ==
    /\ NotBefore(session.values, session.since)
    /\ NotBefore(session.previous, session.since)
    /\ NotBefore(job.old, session.since)

\* A page begins at a multiple of its size and inside the results it was taken
\* from, however they shrank since the last page was turned.
PageInsideResults ==
    /\ page.offset % PageSize = 0
    /\ page.offset # 0 => page.offset < page.total
    /\ Len(page.rows) <= page.total - page.offset
    /\ Len(page.rows) <= PageSize

\* Whatever scans, pages and removals preceded, the scheduler ends up refreshing
\* the rows on the page, for the session they belong to, and no others.
RefreshFollowsPage ==
    calls = <<>> /\ Ready(session) =>
        visible = [session |-> session.id, rows |-> Addresses(page)]

\* The rows of a finished scan again and again show what memory holds.
RowsSettle ==
    []<>(Ready(session) =>
            \A i \in DOMAIN page.rows :
                page.rows[i].current = memory[page.rows[i].address])
=============================================================================
