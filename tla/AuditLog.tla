------------------------------ MODULE AuditLog ------------------------------
(***************************************************************************)
(* AuditService: a file of records that is moved over a single older file  *)
(* when it is full, and the writes of the freezer, which are only counted  *)
(* and reported in one heartbeat per window.  Every operation holds the    *)
(* lock of the service; the GUI thread and the scheduler's call it.  An    *)
(* operation is given by the set of states it can leave the service in,    *)
(* those with a gap after an append that raised.                           *)
(*                                                                         *)
(* Redaction and wording are left out; a record takes one unit of a file.  *)
(* Time is counted in ticks up to Window, past which nothing depends on it.*)
(***************************************************************************)
EXTENDS Naturals, Sequences

CONSTANTS
    Subjects,    \* what attach and detach records name
    RotateAt,    \* records that fill the file, for AUDIT_ROTATION_BYTES
    Window,      \* FREEZE_HEARTBEAT_SECONDS, in ticks
    MaxRuns,     \* bound: starts of the application
    MaxWrites    \* bound: freeze writes

ASSUME AuditAssumption ==
    /\ RotateAt \in Nat \ {0}
    /\ Window \in Nat \ {0}
    /\ MaxRuns \in Nat \ {0}
    /\ MaxWrites \in Nat

VARIABLE audit
\* older:   audit.1.jsonl                 current: audit.jsonl
\* pending: _freeze_writes                window:  ticks since the window opened
\* run:     which start of the application this is
\* gap, made, told and lost are history: an append failed in this run, and the
\* freeze writes made, reported and never to be reported.

Closed == Window + 1
Entry == [kind : {"attach", "detach"}, run : 1..MaxRuns, subject : Subjects]
         \cup [kind : {"heartbeat"}, run : 1..MaxRuns, writes : 0..MaxWrites]

AuditState ==
    [older : Seq(Entry), current : Seq(Entry), pending : 0..MaxWrites,
     window : 0..Closed, run : 1..MaxRuns, gap : BOOLEAN, made : 0..MaxWrites,
     told : 0..MaxWrites, lost : 0..MaxWrites]

AuditInit ==
    audit = [older |-> <<>>, current |-> <<>>, pending |-> 0, window |-> Closed,
             run |-> 1, gap |-> FALSE, made |-> 0, told |-> 0, lost |-> 0]

-----------------------------------------------------------------------------
(* Appending.                                                              *)

\* Mutant: the full file is not moved over an older one.
MovedOnce(a) == IF a.older = <<>> THEN a.current ELSE a.older

\* What becomes the older file.
Moved(a) == a.current

Full(a) == Len(a.current) >= RotateAt
Rotated(a) == IF Full(a) THEN [a EXCEPT !.older = Moved(a), !.current = <<>>] ELSE a

\* _append_locked, which may move the file and still fail to write.  Bound: it
\* fails at most once in a run.
Written(a, entry) == [Rotated(a) EXCEPT !.current = Append(@, entry)]
Failed(a) ==
    IF a.gap THEN {} ELSE {[a EXCEPT !.gap = TRUE], [Rotated(a) EXCEPT !.gap = TRUE]}

\* record
RecordOf(a, kind, subject) == [kind |-> kind, run |-> a.run, subject |-> subject]
Recorded(a, kind, subject) == Written(a, RecordOf(a, kind, subject))

-----------------------------------------------------------------------------
(* Freeze writes.                                                          *)

\* Mutant: the counter goes on after it was reported.
NotReset(a) == [a EXCEPT !.window = Closed]

Reset(a) == [a EXCEPT !.window = Closed, !.pending = 0]

\* _flush_freeze_locked: the counter is reset before the record is appended.
Flushed(a) ==
    LET entry == [kind |-> "heartbeat", run |-> a.run, writes |-> a.pending]
        reset == Reset(a)
    IN  IF a.pending = 0 THEN {[a EXCEPT !.window = Closed]}
        ELSE {[Written(reset, entry) EXCEPT !.told = @ + a.pending]}
             \cup {[f EXCEPT !.lost = @ + a.pending] : f \in Failed(reset)}

\* A write opens a window unless there is one.
Counted(a, count) ==
    IF count = 0 THEN a
    ELSE [a EXCEPT !.window = IF @ = Closed THEN 0 ELSE @, !.pending = @ + count,
                   !.made = @ + count]

\* Mutant: a tick that wrote nothing does not look at the window.
DueIfWritten(a, count) == count > 0 /\ a.window = Window

Due(a, count) == a.window = Window

\* record_freeze_writes
FreezeRecorded(a, count) ==
    LET c == Counted(a, count)
    IN  IF Due(c, count) THEN Flushed(c) ELSE {c}

\* The service of an application that is started after the one before died.
Restarted(a) ==
    [a EXCEPT !.run = @ + 1, !.pending = 0, !.window = Closed,
              !.lost = @ + a.pending, !.gap = FALSE]

Later(a) ==
    [a EXCEPT !.window = IF @ < Window THEN @ + 1 ELSE @]

-----------------------------------------------------------------------------
(* Properties.                                                             *)

TrailOf(a) == a.older \o a.current
Trail == TrailOf(audit)
Abstract ==
    INSTANCE AuditTrail WITH log <- Trail, Entries <- Entry, Batch <- 2, Keep <- RotateAt

\* Whatever fails or crashes, the two files read one after the other are an
\* audit trail: rotation forgets the oldest records and nothing else, and the
\* last RotateAt records can always be read.
TrailIsAuditTrail == Abstract!Spec

\* Every freeze write waits to be reported, was reported by exactly one
\* heartbeat, or was lost with a crash or with an append that failed.
FreezeWritesAccounted == audit.made = audit.told + audit.pending + audit.lost
=============================================================================
