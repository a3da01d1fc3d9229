------------------------ MODULE ProcessSessionProofs ------------------------
(***************************************************************************)
(* Proofs about ProcessSession, for any process numbers, kinds of process, *)
(* listings, sizes of the audit file, runs and freeze writes.              *)
(***************************************************************************)
EXTENDS ProcessSession, AuditLogProofs

\* AttachmentOnRecord, of a log and a handle.
OnRecord(a, h) ==
    ~a.gap =>
        \A i \in 1..Len(TrailOf(a)) : LastOfRun(a, i) => Agrees(a, TrailOf(a)[i], h)

\* What runs, is remembered or was opened has been started.
Identities ==
    /\ \A p \in Pids :
         /\ procs[p] <= Len(kinds)
         /\ known[p] # None => known[p] \in 1..Len(kinds)
    /\ handle.open =>
         /\ handle.pid \in Pids
         /\ handle.instance \in 1..Len(kinds) /\ handle.identity \in 1..Len(kinds)

SessionOK ==
    /\ procs \in [Pids -> Instance \cup {None}]
    /\ kinds \in Seq(Kinds) /\ Len(kinds) <= MaxInstances
    /\ known \in [Pids -> Instance \cup {None}]
    /\ handle \in [open : BOOLEAN, pid : Pids \cup {None},
                   instance : Instance \cup {None}, identity : Instance \cup {None}]
    /\ sched \in BOOLEAN
    /\ gone \in 0..MaxGone
    /\ listings \in Seq([system : BOOLEAN, done : BOOLEAN, rows : Rows])
    /\ dialog \in [open : BOOLEAN, rows : Rows]
    /\ Identities

LogOK == Good(audit) /\ Accounted(audit) /\ OnRecord(audit, handle)

\* The properties are not inductive by themselves: what the log says last is
\* only known of records of this run, and what is recorded of the open handle
\* depends on the numbers and the identities it was opened with.
IInv == LogOK /\ SessionOK

-----------------------------------------------------------------------------
(* The log.                                                                *)

LEMMA TrailIsSeq ==
    ASSUME NEW a, Good(a)
    PROVE  TrailOf(a) \in Seq(Entry)
  BY StateFields, TrailFacts DEF TrailOf, Good

\* A record of the attachment is the last word on it.
LEMMA SpokenOnRecord ==
    ASSUME NEW a, Good(a), NEW h, NEW e \in Entry, e.run = a.run,
           e.kind # "heartbeat", Agrees(a, e, h)
    PROVE  OnRecord(Written(a, e), h)
<1> DEFINE w == Written(a, e)
<1>1. /\ Good(w) /\ Len(TrailOf(w)) > 0 /\ TrailOf(w)[Len(TrailOf(w))] = e
      /\ w.run = a.run
  BY WrittenKeeps
<1> HIDE DEF w
<1>2. Len(TrailOf(w)) \in Nat
  BY <1>1, TrailIsSeq
<1>3. ASSUME NEW i \in 1..Len(TrailOf(w)), LastOfRun(w, i)
      PROVE  Agrees(w, TrailOf(w)[i], h)
  <2>1. i = Len(TrailOf(w))
    <3>1. SUFFICES ASSUME i # Len(TrailOf(w)) PROVE FALSE
      OBVIOUS
    <3>2. Len(TrailOf(w)) \in (i + 1)..Len(TrailOf(w))
      BY <1>2, <3>1
    <3> QED
      BY <1>1, <1>3, <3>2 DEF LastOfRun
  <2>2. TrailOf(w)[i] = e
    BY <1>1, <2>1
  <2> QED
    BY <1>1, <2>2 DEF Agrees, RecordOf
<1>4. OnRecord(w, h)
  BY <1>3 DEF OnRecord
<1> QED
  BY <1>4 DEF w

\* Freeze writes change nothing of what is said of the attachment.
LEMMA QuietOnRecord ==
    ASSUME NEW a, Good(a), NEW h, OnRecord(a, h), NEW f, Quietly(a, f)
    PROVE  OnRecord(f, h)
<1> DEFINE s == TrailOf(a)
           t == TrailOf(f)
<1>1. SUFFICES ASSUME ~f.gap, NEW i \in 1..Len(t), LastOfRun(f, i)
               PROVE  Agrees(f, t[i], h)
  BY DEF OnRecord
<1>2. /\ Good(f) /\ f.run = a.run /\ f.gap = a.gap /\ Follows(s, t, 1)
      /\ t = s \/ (Len(t) > 0 /\ t[Len(t)].kind = "heartbeat")
  BY <1>1 DEF Quietly
<1>3. s \in Seq(Entry) /\ t \in Seq(Entry) /\ Len(s) \in Nat /\ Len(t) \in Nat
  BY <1>2, TrailIsSeq
<1>4. /\ t[i].kind # "heartbeat" /\ t[i].run = f.run
      /\ \A j \in (i + 1)..Len(t) : t[j].kind = "heartbeat"
  BY <1>1 DEF LastOfRun
<1>5. \A j \in 1..Len(s) : LastOfRun(a, j) => Agrees(a, s[j], h)
  BY <1>1, <1>2 DEF OnRecord
<1>6. CASE t = s
  <2>1. LastOfRun(a, i)
    BY <1>2, <1>4, <1>6 DEF LastOfRun
  <2> QED
    BY <2>1, <1>2, <1>5, <1>6 DEF Agrees, RecordOf
<1>7. CASE t # s
  <2>1. PICK d \in 0..Len(s) :
          /\ Len(t) \in (Len(s) - d)..(Len(s) - d + 1)
          /\ \A k \in 1..(Len(s) - d) : t[k] = s[d + k]
    BY <1>2 DEF Follows
  <2>2. i # Len(t)
    BY <1>2, <1>4, <1>7
  <2>3. i \in 1..(Len(s) - d) /\ d + i \in 1..Len(s)
    BY <1>1, <1>3, <2>1, <2>2
  <2>4. t[i] = s[d + i]
    BY <2>1, <2>3
  <2>5. ASSUME NEW j \in ((d + i) + 1)..Len(s)
        PROVE  s[j].kind = "heartbeat"
    <3>1. /\ j - d \in 1..(Len(s) - d) /\ j - d \in (i + 1)..Len(t)
          /\ d + (j - d) = j
      BY <1>3, <2>1, <2>3
    <3> QED
      BY <3>1, <1>4, <2>1
  <2>6. LastOfRun(a, d + i)
    BY <1>2, <1>4, <2>4, <2>5 DEF LastOfRun
  <2> QED
    BY <2>3, <2>4, <2>6, <1>2, <1>5 DEF Agrees, RecordOf
<1> QED
  BY <1>6, <1>7

\* The log says nothing yet of an attachment in the run that starts.
LEMMA RestartOnRecord ==
    ASSUME NEW a, Good(a), Accounted(a), a.run < MaxRuns, NEW h
    PROVE  OnRecord(Restarted(a), h)
<1>1. /\ TrailOf(Restarted(a)) = TrailOf(a) /\ Restarted(a).run = a.run + 1
      /\ a.run \in 1..MaxRuns
  BY RestartedKeeps, StateFields DEF Good
<1>2. ASSUME NEW i \in 1..Len(TrailOf(Restarted(a)))
      PROVE  ~LastOfRun(Restarted(a), i)
  <2>1. TrailOf(a)[i].run <= a.run /\ TrailOf(a)[i] \in Entry
    BY <1>1, TrailIsSeq DEF Good, RunsPast
  <2>2. TrailOf(a)[i].run \in 1..MaxRuns
    BY <2>1, EntryRun
  <2>3. TrailOf(a)[i].run # a.run + 1
    BY <1>1, <2>1, <2>2, AuditAssumption
  <2> QED
    BY <1>1, <2>3 DEF LastOfRun
<1> QED
  BY <1>2 DEF OnRecord

\* A handle that is closed is like any other that is closed.
LEMMA ClosedOnRecord ==
    ASSUME NEW a, NEW h, NEW g, OnRecord(a, h), ~h.open, ~g.open
    PROVE  OnRecord(a, g)
  BY DEF OnRecord, Agrees

LEMMA RecordType ==
    ASSUME NEW a, Good(a), NEW p \in Pids, NEW kind \in {"attach", "detach"}
    PROVE  /\ RecordOf(a, kind, p) \in Entry /\ RecordOf(a, kind, p).run = a.run
           /\ RecordOf(a, kind, p).kind = kind
<1>1. a.run \in 1..MaxRuns
  BY StateFields DEF Good
<1>2. RecordOf(a, kind, p) \in [kind : {"attach", "detach"}, run : 1..MaxRuns,
                               subject : Subjects]
  BY <1>1, SessionAssumption DEF RecordOf
<1> QED
  BY <1>2 DEF Entry, RecordOf

\* The record of an attachment.
LEMMA AttachOnRecord ==
    ASSUME NEW a, Good(a), Accounted(a), NEW p \in Pids, NEW h, h.open, h.pid = p
    PROVE  LET w == Recorded(a, "attach", p)
           IN  /\ Good(w) /\ Accounted(w) /\ OnRecord(w, h)
               /\ Follows(TrailOf(a), TrailOf(w), 1)
<1> DEFINE e == RecordOf(a, "attach", p)
           w == Recorded(a, "attach", p)
<1>1. e \in Entry /\ e.run = a.run /\ e.kind # "heartbeat"
  BY RecordType
<1>2. Agrees(a, e, h)
  BY DEF Agrees
<1>3. w = Written(a, e)
  BY DEF Recorded
<1> HIDE DEF e
<1>4. OnRecord(Written(a, e), h)
  BY <1>1, <1>2, SpokenOnRecord
<1>5. /\ Good(Written(a, e)) /\ Follows(TrailOf(a), TrailOf(Written(a, e)), 1)
      /\ Accounted(Written(a, e))
  BY <1>1, WrittenKeeps DEF Accounted
<1> QED
  BY <1>3, <1>4, <1>5

\* Leaving the attachment there is.
LEMMA LeftKeeps ==
    ASSUME LogOK, SessionOK
    PROVE  /\ Good(Left(audit)) /\ Accounted(Left(audit))
           /\ OnRecord(Left(audit), NoHandle)
           /\ Follows(Trail, TrailOf(Left(audit)), 1)
<1>1. CASE ~handle.open
  <2>1. Left(audit) = audit /\ ~NoHandle.open
    BY <1>1 DEF Left, NoHandle
  <2> QED
    BY <1>1, <2>1, ClosedOnRecord, TrailIsSeq, FollowsSelf DEF LogOK, Trail
<1>2. CASE handle.open
  <2> DEFINE e == RecordOf(audit, "detach", handle.pid)
  <2>1. Left(audit) = Written(audit, e)
    BY <1>2 DEF Left, Recorded
  <2>2. e \in Entry /\ e.run = audit.run /\ e.kind = "detach"
    BY <1>2, RecordType DEF LogOK, SessionOK, Identities
  <2> HIDE DEF e
  <2>3. Agrees(audit, e, NoHandle)
    BY <2>2 DEF Agrees, NoHandle
  <2>4. OnRecord(Written(audit, e), NoHandle)
    BY <2>2, <2>3, SpokenOnRecord DEF LogOK
  <2>5. /\ Good(Written(audit, e)) /\ Accounted(Written(audit, e))
        /\ Follows(TrailOf(audit), TrailOf(Written(audit, e)), 1)
    BY <2>2, WrittenKeeps DEF LogOK, Accounted
  <2> QED
    BY <2>1, <2>4, <2>5 DEF Trail
<1> QED
  BY <1>1, <1>2

\* A failed append leaves a log that says nothing of the handle.
LEMMA FailedOnRecord ==
    ASSUME NEW a, Good(a), Accounted(a), NEW f \in Failed(a), NEW h
    PROVE  /\ Good(f) /\ Accounted(f) /\ OnRecord(f, h)
           /\ Follows(TrailOf(a), TrailOf(f), 1)
<1>1. /\ Good(f) /\ Follows(TrailOf(a), TrailOf(f), 0) /\ f.gap = TRUE
      /\ f.pending = a.pending /\ f.made = a.made /\ f.told = a.told /\ f.lost = a.lost
  BY FailedKeeps
<1>2. Accounted(f) /\ OnRecord(f, h)
  BY <1>1 DEF Accounted, OnRecord
<1>3. Follows(TrailOf(a), TrailOf(f), 1)
  BY <1>1, TrailIsSeq, FollowsMore
<1> QED
  BY <1>1, <1>2, <1>3

LEMMA LeftOrFailedKeeps ==
    ASSUME LogOK, SessionOK, NEW f \in LeftOrFailed
    PROVE  /\ Good(f) /\ Accounted(f) /\ OnRecord(f, NoHandle)
           /\ Follows(Trail, TrailOf(f), 1)
<1>1. f = Left(audit) \/ f \in Failed(audit)
  BY DEF LeftOrFailed, Left
<1>2. CASE f = Left(audit)
  BY <1>2, LeftKeeps
<1>3. CASE f \in Failed(audit)
  BY <1>3, FailedOnRecord DEF LogOK, Trail
<1> QED
  BY <1>1, <1>2, <1>3

\* Attaching makes up to two records, one of leaving and one of attaching.
LEMMA AttachKeepsLog ==
    ASSUME LogOK, SessionOK, NEW p \in Pids, Attach(p)
    PROVE  LogOK' /\ Follows(Trail, Trail', 2)
<1> DEFINE a == Left(audit)
<1>1. /\ Good(a) /\ Accounted(a) /\ OnRecord(a, NoHandle) /\ Follows(Trail, TrailOf(a), 1)
  BY LeftKeeps
<1>2. handle'.open /\ handle'.pid = p
  BY DEF Attach, Opened, StartScheduler
<1> HIDE DEF a
<1>3. audit' = Recorded(a, "attach", p) \/ audit' \in Failed(a)
  BY DEF Attach, a
<1>4. /\ Good(audit') /\ Accounted(audit') /\ OnRecord(audit', handle')
      /\ Follows(TrailOf(a), TrailOf(audit'), 1)
  <2>1. CASE audit' = Recorded(a, "attach", p)
    BY <2>1, <1>1, <1>2, AttachOnRecord
  <2>2. CASE audit' \in Failed(a)
    BY <2>2, <1>1, FailedOnRecord
  <2> QED
    BY <1>3, <2>1, <2>2
<1>5. Trail \in Seq(Entry)
  BY TrailIsSeq DEF LogOK, Trail
<1>6. Follows(Trail, TrailOf(audit'), 1 + 1)
  BY <1>1, <1>4, <1>5, FollowsThen
<1> QED
  BY <1>4, <1>6 DEF LogOK, Trail

\* Every step keeps the log in order and adds at most two records to it.
LEMMA NextKeepsLog ==
    ASSUME LogOK, SessionOK, [Next]_vars
    PROVE  LogOK' /\ Follows(Trail, Trail', 2)
<1>1. Trail \in Seq(Entry) /\ Good(audit) /\ Accounted(audit) /\ OnRecord(audit, handle)
  BY TrailIsSeq DEF LogOK, Trail
<1>2. ASSUME Follows(Trail, TrailOf(audit'), 1)
      PROVE  Follows(Trail, Trail', 2)
  <2>1. Follows(TrailOf(audit'), TrailOf(audit'), 1)
    <3>1. TrailOf(audit') \in Seq(Entry)
      BY <1>2 DEF Follows
    <3> QED
      BY <3>1, FollowsSelf
  <2>2. Follows(Trail, TrailOf(audit'), 1 + 1)
    BY <1>1, <1>2, <2>1, FollowsThen
  <2> QED
    BY <2>2 DEF Trail
<1>3. ASSUME UNCHANGED <<audit, handle>>
      PROVE  LogOK' /\ Follows(Trail, Trail', 2)
  BY <1>1, <1>3, FollowsSelf DEF LogOK, Trail
<1>4. ASSUME audit' \in LeftOrFailed, handle' = NoHandle
      PROVE  LogOK' /\ Follows(Trail, Trail', 2)
  BY <1>2, <1>4, LeftOrFailedKeeps DEF LogOK
<1>5. ASSUME NEW p \in Pids, AttachFails(p)
      PROVE  LogOK' /\ Follows(Trail, Trail', 2)
  <2>1. handle' = NoHandle /\ (audit' = Left(audit) \/ audit' \in Failed(audit))
    BY <1>5 DEF AttachFails, Detached
  <2>2. CASE audit' = Left(audit)
    BY <2>1, <2>2, <1>2, LeftKeeps DEF LogOK
  <2>3. CASE audit' \in Failed(audit)
    <3>1. /\ Good(audit') /\ Accounted(audit') /\ OnRecord(audit', handle')
          /\ Follows(TrailOf(audit), TrailOf(audit'), 1)
      BY <2>3, <1>1, FailedOnRecord
    <3> QED
      BY <3>1, <1>2 DEF LogOK, Trail
  <2> QED
    BY <2>1, <2>2, <2>3
<1>6. ASSUME OnProcessGone
      PROVE  LogOK' /\ Follows(Trail, Trail', 2)
  <2>1. CASE handle.open
    BY <1>4, <1>6, <2>1 DEF OnProcessGone, Detached
  <2>2. CASE ~handle.open
    BY <1>3, <1>6, <2>2 DEF OnProcessGone, LeftOrFailed
  <2> QED
    BY <2>1, <2>2
<1>7. ASSUME NEW count \in 0..1, Tick(count)
      PROVE  LogOK' /\ Follows(Trail, Trail', 2)
  <2>1. /\ audit' \in FreezeRecorded(audit, count) /\ audit.made + count <= MaxWrites
        /\ handle' = handle
    BY <1>7 DEF Tick, sessionVars
  <2>2. Quietly(audit, audit')
    BY <1>1, <2>1, FreezeRecordedKeeps
  <2>3. OnRecord(audit', handle')
    BY <1>1, <2>1, <2>2, QuietOnRecord
  <2>4. Good(audit') /\ Accounted(audit') /\ Follows(Trail, TrailOf(audit'), 1)
    BY <2>2 DEF Quietly, Trail
  <2> QED
    BY <1>2, <2>3, <2>4 DEF LogOK
<1>8. ASSUME TimePasses
      PROVE  LogOK' /\ Follows(Trail, Trail', 2)
  <2>1. audit' = Later(audit) /\ handle' = handle
    BY <1>8 DEF TimePasses, sessionVars
  <2>2. /\ Good(audit') /\ Accounted(audit') /\ TrailOf(audit') = Trail
        /\ audit'.run = audit.run /\ audit'.gap = audit.gap
    BY <1>1, <2>1, LaterKeeps DEF Trail
  <2>3. OnRecord(audit', handle')
    BY <1>1, <2>1, <2>2 DEF OnRecord, LastOfRun, Agrees, RecordOf, Trail
  <2>4. Follows(Trail, TrailOf(audit'), 1)
    BY <1>1, <2>2, FollowsSelf
  <2> QED
    BY <1>2, <2>2, <2>3, <2>4 DEF LogOK
<1>9. ASSUME NEW a, Good(a), Accounted(a), a.run < MaxRuns, audit' = Restarted(a),
             Follows(Trail, TrailOf(a), 1)
      PROVE  LogOK' /\ Follows(Trail, Trail', 2)
  <2>1. Good(audit') /\ Accounted(audit') /\ TrailOf(audit') = TrailOf(a)
    BY <1>9, RestartedKeeps
  <2>2. OnRecord(audit', handle')
    BY <1>9, RestartOnRecord
  <2> QED
    BY <1>2, <1>9, <2>1, <2>2 DEF LogOK
<1>10. ASSUME Shutdown
       PROVE  LogOK' /\ Follows(Trail, Trail', 2)
  <2>1. PICK a \in Flushed(audit) : audit' = Restarted(a)
    BY <1>10 DEF Shutdown
  <2>2. Quietly(audit, a) /\ audit.run < MaxRuns
    BY <1>1, <1>10, FlushedKeeps DEF Shutdown
  <2>3. /\ Good(a) /\ Accounted(a) /\ a.run < MaxRuns
        /\ Follows(Trail, TrailOf(a), 1)
    BY <2>2 DEF Quietly, Trail
  <2> QED
    BY <2>1, <2>3, <1>9
<1>11. ASSUME Crash
       PROVE  LogOK' /\ Follows(Trail, Trail', 2)
  <2>1. audit.run < MaxRuns /\ audit' = Restarted(audit)
    BY <1>11 DEF Crash
  <2>2. Follows(Trail, TrailOf(audit), 1)
    BY <1>1, FollowsSelf DEF Trail
  <2> QED
    BY <2>1, <2>2, <1>1, <1>9
<1>12. ASSUME Detach
       PROVE  LogOK' /\ Follows(Trail, Trail', 2)
  BY <1>4, <1>12 DEF Detach, Detached
<1>13. CASE UNCHANGED vars
  BY <1>3, <1>13 DEF vars, sessionVars
<1>14. ASSUME NEW p \in Pids, (\E kind \in Kinds : StartProcess(p, kind)) \/ EndProcess(p)
       PROVE  UNCHANGED <<audit, handle>>
  BY <1>14 DEF StartProcess, EndProcess
<1>15. ASSUME \/ TickFindsGone \/ OpenDialog \/ CloseDialog
              \/ \E system \in BOOLEAN : RefreshList(system)
              \/ \E i \in DOMAIN listings : WorkerLists(i) \/ OnProcesses(i) \/ OnFailure(i)
       PROVE  UNCHANGED <<audit, handle>>
  BY <1>15 DEF TickFindsGone, OpenDialog, CloseDialog, RefreshList, WorkerLists,
               OnProcesses, OnFailure
<1> QED
  BY <1>3, <1>5, <1>6, <1>7, <1>8, <1>10, <1>11, <1>12, <1>13, <1>14, <1>15,
     AttachKeepsLog DEF Next

-----------------------------------------------------------------------------
(* The session.                                                            *)

LEMMA InitIInv == Init => IInv /\ Trail = <<>>
<1> SUFFICES ASSUME Init PROVE IInv /\ Trail = <<>>
  OBVIOUS
<1> USE AuditAssumption, SessionAssumption DEF Init
<1>1. /\ audit.older = <<>> /\ audit.current = <<>> /\ Accounted(audit)
      /\ audit \in AuditState
  <2>1. <<>> \in Seq(Entry)
    OBVIOUS
  <2>2. audit.older = <<>> /\ audit.current = <<>> /\ Accounted(audit)
    BY DEF AuditInit, Accounted
  <2>3. audit \in AuditState
    BY <2>1, ClosedType DEF AuditInit, AuditState
  <2> QED
    BY <2>2, <2>3
<1>2. Trail = <<>> /\ Trail = TrailOf(audit)
  BY <1>1 DEF Trail, TrailOf
<1>3. LogOK
  BY <1>1, <1>2 DEF LogOK, Good, RunsPast, OnRecord
<1>4. SessionOK
  <2>1. NoDialog \in [open : BOOLEAN, rows : Rows]
    BY DEF NoDialog, Rows
  <2>2. kinds \in Seq(Kinds) /\ Len(kinds) <= MaxInstances
    BY DEF Instance
  <2>3. listings \in Seq([system : BOOLEAN, done : BOOLEAN, rows : Rows])
    OBVIOUS
  <2>4. gone \in 0..MaxGone
    OBVIOUS
  <2>5. Identities
    BY <2>2 DEF Identities, NoHandle, None
  <2> QED
    BY <2>1, <2>2, <2>3, <2>4, <2>5 DEF SessionOK, NoHandle, None
<1> QED
  BY <1>2, <1>3, <1>4 DEF IInv

\* A list the worker made is a set of rows.
LEMMA ListType ==
    ASSUME NEW system
    PROVE  List(system) \in Rows
<1>1. SUFFICES ASSUME NEW row \in List(system)
               PROVE  row \in Row
  BY DEF Rows
<1>2. PICK p \in Pids : row = [pid |-> p, can_attach |-> kinds[procs[p]] # "protected"]
  BY DEF List, Visible
<1>3. (kinds[procs[p]] # "protected") \in BOOLEAN
  OBVIOUS
<1> QED
  BY <1>2, <1>3 DEF Row

LEMMA NoDialogType == NoDialog \in [open : BOOLEAN, rows : Rows]
  BY DEF NoDialog, Rows

\* An attachment that begins remembers an identity of a process that started.
LEMMA BeginsKeeps ==
    ASSUME SessionOK, NEW p \in Pids, AttachBegins(p)
    PROVE  /\ known' \in [Pids -> Instance \cup {None}]
           /\ Identity(p) \in 1..Len(kinds)
           /\ \A q \in Pids : known'[q] # None => known'[q] \in 1..Len(kinds)
<1> USE SessionAssumption DEF SessionOK, Identities, None
<1>1. Len(kinds) \in Nat /\ MaxInstances \in Nat
  OBVIOUS
<1>2. procs[p] # None => procs[p] \in 1..Len(kinds)
  BY <1>1 DEF Instance
<1>3. Identity(p) \in 1..Len(kinds)
  <2>1. CASE known[p] # None
    BY <2>1 DEF Identity
  <2>2. CASE known[p] = None
    BY <2>2, <1>2 DEF Identity, AttachBegins, Allowed
  <2> QED
    BY <2>1, <2>2
<1>4. Identity(p) \in Instance
  BY <1>1, <1>3 DEF Instance
<1>5. known' = [known EXCEPT ![p] = Identity(p)]
  BY DEF AttachBegins
<1> QED
  BY <1>3, <1>4, <1>5

LEMMA NextKeepsSession ==
    ASSUME SessionOK, [Next]_vars
    PROVE  SessionOK'
<1> USE SessionAssumption DEF SessionOK, None
<1>1. ASSUME NEW p \in Pids, NEW kind \in Kinds, StartProcess(p, kind)
      PROVE  SessionOK'
  <2>1. /\ kinds' = Append(kinds, kind) /\ Len(kinds) < MaxInstances
        /\ procs' = [procs EXCEPT ![p] = Len(kinds) + 1]
        /\ UNCHANGED <<known, handle, sched, gone, listings, dialog>>
    BY <1>1 DEF StartProcess
  <2>2. /\ Len(kinds) \in Nat /\ Len(kinds') = Len(kinds) + 1
        /\ kinds' \in Seq(Kinds) /\ \A i \in 1..Len(kinds) : kinds'[i] = kinds[i]
    BY <2>1
  <2>3. Len(kinds) + 1 \in Instance
    BY <2>1, <2>2 DEF Instance
  <2>4. procs' \in [Pids -> Instance \cup {None}] /\ Len(kinds') <= MaxInstances
    BY <2>1, <2>2, <2>3
  <2>5. Identities'
    <3>1. ASSUME NEW q \in Pids
          PROVE  /\ procs'[q] <= Len(kinds')
                 /\ known'[q] # 0 => known'[q] \in 1..Len(kinds')
      <4>1. procs[q] <= Len(kinds) /\ procs[q] \in Nat
        BY DEF Identities, Instance
      <4>2. procs'[q] <= Len(kinds')
        BY <4>1, <2>1, <2>2
      <4>3. known[q] # 0 => known[q] \in 1..Len(kinds)
        BY DEF Identities
      <4> QED
        BY <4>2, <4>3, <2>1, <2>2
    <3>2. handle.open => /\ handle.pid \in Pids /\ handle.instance \in 1..Len(kinds)
                         /\ handle.identity \in 1..Len(kinds)
      BY DEF Identities
    <3> QED
      BY <3>1, <3>2, <2>1, <2>2 DEF Identities
  <2> QED
    BY <2>1, <2>2, <2>4, <2>5
<1>2. ASSUME NEW p \in Pids, EndProcess(p)
      PROVE  SessionOK'
  BY <1>2 DEF EndProcess, Identities
<1>3. ASSUME NEW p \in Pids, Attach(p)
      PROVE  SessionOK'
  <2>1. AttachBegins(p) /\ procs[p] # 0 /\ Opened(p) /\ dialog' \in {dialog, NoDialog}
    BY <1>3 DEF Attach
  <2>2. dialog' \in [open : BOOLEAN, rows : Rows]
    BY <2>1, NoDialogType
  <2>3. UNCHANGED <<procs, kinds, gone, listings>>
    BY <2>1 DEF AttachBegins
  <2>4. procs[p] \in 1..Len(kinds) /\ procs[p] \in Instance
    BY <2>1 DEF Identities, Instance
  <2>5. Identity(p) \in Instance
    BY <2>1, BeginsKeeps DEF Instance
  <2>6. /\ handle' = [open |-> TRUE, pid |-> p, instance |-> procs[p],
                      identity |-> Identity(p)]
        /\ sched' = TRUE
    BY <2>1 DEF Opened, StartScheduler
  <2>7. Identities'
    BY <2>1, <2>3, <2>4, <2>6, BeginsKeeps DEF Identities
  <2> QED
    BY <2>1, <2>2, <2>3, <2>4, <2>5, <2>6, <2>7, BeginsKeeps
<1>4. ASSUME Detached, UNCHANGED <<procs, kinds>>, dialog' \in {dialog, NoDialog},
             known' \in [Pids -> Instance \cup {None}], gone' \in 0..MaxGone,
             listings' \in {listings, <<>>},
             \A q \in Pids : known'[q] # None => known'[q] \in 1..Len(kinds)
      PROVE  SessionOK'
  <2>1. dialog' \in [open : BOOLEAN, rows : Rows]
    BY <1>4, NoDialogType
  <2>2. handle' = [open |-> FALSE, pid |-> 0, instance |-> 0, identity |-> 0] /\ sched' = FALSE
    BY <1>4 DEF Detached, NoHandle
  <2>3. Identities'
    BY <1>4, <2>2 DEF Identities
  <2>4. listings' \in Seq([system : BOOLEAN, done : BOOLEAN, rows : Rows])
    <3>1. <<>> \in Seq([system : BOOLEAN, done : BOOLEAN, rows : Rows])
      OBVIOUS
    <3> QED
      BY <3>1, <1>4
  <2> QED
    BY <1>4, <2>1, <2>2, <2>3, <2>4
<1>5. \A q \in Pids : known[q] # None => known[q] \in 1..Len(kinds)
  BY DEF Identities
<1>6. ASSUME NEW p \in Pids, AttachFails(p)
      PROVE  SessionOK'
  <2>1. AttachBegins(p) /\ Detached /\ UNCHANGED <<procs, kinds, gone, listings, dialog>>
    BY <1>6 DEF AttachFails, AttachBegins
  <2> QED
    BY <2>1, <1>4, BeginsKeeps
<1>7. ASSUME Detach
      PROVE  SessionOK'
  BY <1>4, <1>5, <1>7 DEF Detach
<1>8. ASSUME OnProcessGone
      PROVE  SessionOK'
  <2>1. gone' \in 0..MaxGone /\ UNCHANGED <<procs, kinds, known, listings, dialog>>
    BY <1>8 DEF OnProcessGone
  <2>2. CASE Detached
    BY <2>1, <2>2, <1>4, <1>5
  <2>3. CASE UNCHANGED <<handle, sched>>
    BY <2>1, <2>3 DEF Identities
  <2> QED
    BY <1>8, <2>2, <2>3 DEF OnProcessGone
<1>9. ASSUME Shutdown \/ Crash
      PROVE  SessionOK'
  <2>1. Started /\ UNCHANGED <<procs, kinds>>
    BY <1>9 DEF Shutdown, Crash
  <2>2. /\ Detached /\ listings' = <<>> /\ dialog' = NoDialog /\ gone' = 0
        /\ known' = [p \in Pids |-> 0]
    BY <2>1 DEF Started, Detached
  <2> QED
    BY <2>1, <2>2, <1>4
<1>10. ASSUME TickFindsGone
       PROVE  SessionOK'
  <2>1. /\ gone' \in 0..MaxGone /\ sched' = FALSE
        /\ UNCHANGED <<procs, kinds, known, handle, listings, dialog>>
    BY <1>10 DEF TickFindsGone
  <2>2. Identities'
    BY <2>1 DEF Identities
  <2> QED
    BY <2>1, <2>2
<1>11. ASSUME UNCHANGED sessionVars
       PROVE  SessionOK'
  BY <1>11 DEF sessionVars, Identities
<1>12. ASSUME UNCHANGED <<procs, kinds, known, handle, sched, gone>>,
              listings' \in Seq([system : BOOLEAN, done : BOOLEAN, rows : Rows]),
              dialog' \in [open : BOOLEAN, rows : Rows]
       PROVE  SessionOK'
  <2>1. Identities'
    BY <1>12 DEF Identities
  <2>2. /\ procs' = procs /\ kinds' = kinds /\ known' = known /\ handle' = handle
        /\ sched' = sched /\ gone' = gone
    BY <1>12
  <2>3. /\ procs' \in [Pids -> Instance \cup {0}] /\ known' \in [Pids -> Instance \cup {0}]
        /\ kinds' \in Seq(Kinds) /\ Len(kinds') <= MaxInstances
    BY <2>2
  <2>4. handle' \in [open : BOOLEAN, pid : Pids \cup {0},
                     instance : Instance \cup {0}, identity : Instance \cup {0}]
    BY <2>2
  <2>5. sched' \in BOOLEAN /\ gone' \in 0..MaxGone
    BY <2>2
  <2> QED
    BY <1>12, <2>1, <2>3, <2>4, <2>5
<1>13. ASSUME NEW system \in BOOLEAN, Asked(system)
       PROVE  listings' \in Seq([system : BOOLEAN, done : BOOLEAN, rows : Rows])
  <2>1. [system |-> system, done |-> FALSE, rows |-> {}]
           \in [system : BOOLEAN, done : BOOLEAN, rows : Rows]
    BY DEF Rows
  <2> QED
    BY <1>13, <2>1 DEF Asked
<1>14. ASSUME OpenDialog \/ CloseDialog \/ \E system \in BOOLEAN : RefreshList(system)
       PROVE  SessionOK'
  <2>1. CASE OpenDialog
    <3>1. dialog' \in [open : BOOLEAN, rows : Rows]
      BY <2>1 DEF OpenDialog, Rows
    <3> QED
      BY <2>1, <3>1, <1>12, <1>13 DEF OpenDialog
  <2>2. CASE CloseDialog
    <3>1. dialog' \in [open : BOOLEAN, rows : Rows]
      BY <2>2 DEF CloseDialog, NoDialog, Rows
    <3> QED
      BY <2>2, <3>1, <1>12 DEF CloseDialog
  <2>3. ASSUME NEW system \in BOOLEAN, RefreshList(system)
        PROVE  SessionOK'
    BY <2>3, <1>12, <1>13 DEF RefreshList
  <2> QED
    BY <1>14, <2>1, <2>2, <2>3
<1>15. ASSUME NEW i \in DOMAIN listings, WorkerLists(i) \/ OnProcesses(i) \/ OnFailure(i)
       PROVE  SessionOK'
  <2> DEFINE Listing == [system : BOOLEAN, done : BOOLEAN, rows : Rows]
  <2>1. /\ i \in 1..Len(listings) /\ Len(listings) \in Nat /\ listings[i] \in Listing
        /\ listings \in Seq(Listing)
    <3>1. listings \in Seq(Listing)
      OBVIOUS
    <3> HIDE DEF Listing
    <3> QED
      BY <3>1
  <2>2. CASE WorkerLists(i)
    <3>1. [system |-> FALSE, done |-> TRUE, rows |-> List(listings[i].system)] \in Listing
      BY ListType
    <3>2. listings' = [listings EXCEPT ![i] =
             [system |-> FALSE, done |-> TRUE, rows |-> List(listings[i].system)]]
      BY <2>2 DEF WorkerLists
    <3>3. listings' \in Seq(Listing)
      BY <2>1, <3>1, <3>2
    <3> QED
      BY <2>2, <3>3, <1>12 DEF WorkerLists
  <2>3. RemoveAt(listings, i) \in Seq(Listing)
    <3> HIDE DEF Listing
    <3>1. SubSeq(listings, 1, i - 1) \in Seq(Listing)
      BY <2>1
    <3>2. SubSeq(listings, i + 1, Len(listings)) \in Seq(Listing)
      BY <2>1
    <3> QED
      BY <3>1, <3>2 DEF RemoveAt
  <2>4. CASE OnProcesses(i)
    <3>1. dialog' \in [open : BOOLEAN, rows : Rows]
      BY <2>1, <2>4 DEF OnProcesses
    <3> QED
      BY <2>3, <2>4, <3>1, <1>12 DEF OnProcesses
  <2>5. CASE OnFailure(i)
    BY <2>3, <2>5, <1>12 DEF OnFailure
  <2> QED
    BY <1>15, <2>2, <2>4, <2>5
<1>16. ASSUME (\E count \in 0..1 : Tick(count)) \/ TimePasses \/ UNCHANGED vars
       PROVE  UNCHANGED sessionVars
  BY <1>16 DEF Tick, TimePasses, vars
<1> QED
  BY <1>1, <1>2, <1>3, <1>6, <1>7, <1>8, <1>9, <1>10, <1>11, <1>14, <1>15, <1>16 DEF Next

-----------------------------------------------------------------------------
(* The theorems.                                                           *)

LEMMA NextIInv == IInv /\ [Next]_vars => IInv'
  BY NextKeepsLog, NextKeepsSession DEF IInv

LEMMA IInvAlways == Spec => []IInv
<1>1. Init => IInv
  BY InitIInv
<1> QED
  BY <1>1, NextIInv, PTL DEF Spec

\* The state has its type: the files hold records, the counters stay within
\* what was written, and numbers and identities are of processes that started.
THEOREM TypeCorrect == Spec => []TypeOK
<1>1. IInv => TypeOK
  BY DEF IInv, LogOK, Good, SessionOK, TypeOK
<1> QED
  BY <1>1, IInvAlways, PTL

\* For every size of the file: in a run without a failed append, the last
\* record of an attachment is that of the open handle, or of its end.
THEOREM AttachmentIsOnRecord == Spec => []AttachmentOnRecord
<1>1. IInv => AttachmentOnRecord
  BY DEF IInv, LogOK, OnRecord, AttachmentOnRecord, Trail
<1> QED
  BY <1>1, IInvAlways, PTL

\* For any number of crashes and failed appends: no freeze write is reported
\* twice, and none that is not lost with them is forgotten.
THEOREM WritesAreAccounted == Spec => []FreezeWritesAccounted
<1>1. IInv => FreezeWritesAccounted
  BY DEF IInv, LogOK, Accounted, FreezeWritesAccounted
<1> QED
  BY <1>1, IInvAlways, PTL

\* The two files implement the audit trail: every operation, rotation, crash
\* or failed append only adds newest records and drops oldest ones.
THEOREM LogRefinesTrail == Spec => TrailIsAuditTrail
<1>1. Init => Abstract!Init
  BY InitIInv DEF Abstract!Init
<1>2. IInv /\ [Next]_vars => [Abstract!Next]_Trail
  <2> SUFFICES ASSUME IInv, [Next]_vars PROVE Abstract!Next
    OBVIOUS
  <2>1. Follows(Trail, Trail', 2)
    BY NextKeepsLog DEF IInv
  <2> QED
    BY <2>1 DEF Follows, Abstract!Next
<1> QED
  BY <1>1, <1>2, IInvAlways, PTL DEF Spec, TrailIsAuditTrail, Abstract!Spec
=============================================================================
