-------------------------- MODULE ScanResultsProofs --------------------------
(***************************************************************************)
(* Proofs about ScanResults, for any set of addresses, values, page sizes, *)
(* orders, sessions, scans and waiting signals.                            *)
(***************************************************************************)
EXTENDS ScanResults, FiniteSetTheorems, FunctionTheorems, TLAPS

\* What ValuesOfOwnSession needs to know of the queues: that they are sequences.
IsSeq(q) == \E S : q \in Seq(S)

Typed ==
    /\ memory \in [Address -> Value]
    /\ started \in 0..MaxSessions
    /\ session \in [id : 0..MaxSessions, state : State, values : Values,
                    previous : Values, scans : 0..MaxScans, since : Values]
    /\ job \in [phase : {"idle", "launched", "begun"}, mode : Mode, value : Value,
                old : Values, from : SUBSET Address]
    /\ IsSeq(calls) /\ IsSeq(inbox)

\* The session is the last one started, and began with a memory that has only
\* been written to since.
Begun ==
    /\ session.id <= started
    /\ session.id = None => /\ session.state = "none"
                            /\ DOMAIN session.values = {} /\ DOMAIN session.previous = {}
    /\ session.id # None => /\ DOMAIN session.since = Address
                            /\ \A a \in Address : memory[a] >= session.since[a]

\* Values read in the session.
Own(values) ==
    \A a \in DOMAIN values \cap Address :
        values[a] \in Value /\ values[a] >= session.since[a]

\* No row is of a session to come, and those of the present one are its own.
RowsOwn ==
    /\ visible.session \in 0..started
    /\ \A i \in 1..Len(calls) : calls[i].session \in 0..started
    /\ tick.session \in 0..started
    /\ \A i \in 1..Len(inbox) : inbox[i].session \in 0..started
    /\ session.id # None =>
         /\ tick.session = session.id => Own(tick.values)
         /\ \A i \in 1..Len(inbox) :
              inbox[i].session = session.id => Own(inbox[i].values)

\* One scan at a time: its worker runs, or its answer waits.
OneScan ==
    /\ session.state # "scanning" => job.phase = "idle"
    /\ job.phase = "idle" => DOMAIN job.old = {}
    /\ job.phase # "idle" =>
         session.id # None /\ (session.scans # 1 => job.from \subseteq DOMAIN session.values)
    /\ \A i \in 1..Len(inbox) : inbox[i].type # "rows" =>
         /\ session.state = "scanning" /\ job.phase = "idle" /\ session.id # None
         /\ inbox[i].session = session.id /\ inbox[i].values \in Values
         /\ session.scans # 1 => DOMAIN inbox[i].values \subseteq DOMAIN session.values
         /\ \A j \in 1..Len(inbox) : inbox[j].type # "rows" => i = j

IInv == Typed /\ Begun /\ RowsOwn /\ OneScan /\ ValuesOfOwnSession

-----------------------------------------------------------------------------

LEMMA SeqAppend ==
    ASSUME NEW q, IsSeq(q), NEW x
    PROVE  /\ IsSeq(Append(q, x)) /\ Len(q) \in Nat /\ Len(Append(q, x)) = Len(q) + 1
           /\ \A i \in 1..Len(q) : Append(q, x)[i] = q[i]
           /\ Append(q, x)[Len(q) + 1] = x
<1>1. PICK S : q \in Seq(S)
  BY DEF IsSeq
<1> DEFINE T == S \cup {x}
<1>2. q \in Seq(T) /\ x \in T
  BY <1>1
<1> HIDE DEF T
<1>3. Append(q, x) \in Seq(T)
  BY <1>2
<1> QED
  BY <1>2, <1>3 DEF IsSeq

LEMMA SeqTail ==
    ASSUME NEW q, IsSeq(q), q # <<>>
    PROVE  /\ IsSeq(Tail(q)) /\ Len(q) \in Nat \ {0} /\ Len(Tail(q)) = Len(q) - 1
           /\ \A i \in 1..Len(Tail(q)) : Tail(q)[i] = q[i + 1]
           /\ Head(q) = q[1]
<1>1. PICK S : q \in Seq(S)
  BY DEF IsSeq
<1>2. Tail(q) \in Seq(S)
  BY <1>1
<1> QED
  BY <1>1, <1>2 DEF IsSeq

LEMMA EmptyValues == Empty \in Values /\ DOMAIN Empty = {}
<1>1. Empty \in [{} -> Value]
  BY DEF Empty
<1> QED
  BY <1>1 DEF Values, Empty

\* A function on some addresses is one of the values there can be.
LEMMA ValuesIntro ==
    ASSUME NEW S \in SUBSET Address, NEW f \in [S -> Value]
    PROVE  f \in Values
  BY DEF Values

LEMMA ValuesElim ==
    ASSUME NEW f \in Values
    PROVE  DOMAIN f \subseteq Address /\ f \in [DOMAIN f -> Value]
  BY DEF Values

LEMMA InitIInv == Init => IInv
<1> SUFFICES ASSUME Init PROVE IInv
  OBVIOUS
<1> USE ResultsAssumption DEF Init, None
<1>1. 0 \in Value /\ 0 \in 0..MaxSessions /\ 0 \in 0..MaxScans
  BY DEF Value
<1>2. IsSeq(<<>>) /\ Len(<<>>) = 0
  <2>1. <<>> \in Seq({})
    OBVIOUS
  <2> QED
    BY <2>1 DEF IsSeq
<1>3. Typed
  <2>1. memory \in [Address -> Value]
    BY <1>1
  <2>2. session \in [id : 0..MaxSessions, state : State, values : Values,
                     previous : Values, scans : 0..MaxScans, since : Values]
    BY <1>1, EmptyValues DEF NoSession, State
  <2>3. job \in [phase : {"idle", "launched", "begun"}, mode : Mode, value : Value,
                 old : Values, from : SUBSET Address]
    BY <1>1, EmptyValues DEF NoJob, Mode
  <2> QED
    BY <1>1, <1>2, <2>1, <2>2, <2>3 DEF Typed
<1>4. Begun /\ RowsOwn /\ OneScan
  BY <1>1, <1>2, EmptyValues DEF Begun, RowsOwn, OneScan, NoSession, NoJob, NoTick
<1>5. ValuesOfOwnSession
  BY EmptyValues DEF ValuesOfOwnSession, NotBefore, NoSession, NoJob
<1> QED
  BY <1>3, <1>4, <1>5 DEF IInv

-----------------------------------------------------------------------------
(* Steps.                                                                  *)

\* Calls of the scheduler, the page and what is visible: nothing else changes.
LEMMA CallKeeps ==
    ASSUME IInv, UNCHANGED <<memory, session, started, job, tick, inbox, visible>>,
           calls' = calls \/ (\E id \in 0..started : \E rows : Call(id, rows))
    PROVE  IInv'
<1>1. IsSeq(calls') /\ \A i \in 1..Len(calls') : calls'[i].session \in 0..started
  <2>1. CASE calls' = calls
    BY <2>1 DEF IInv, Typed, RowsOwn
  <2>2. ASSUME NEW id \in 0..started, NEW rows, Call(id, rows)
        PROVE  IsSeq(calls') /\ \A i \in 1..Len(calls') : calls'[i].session \in 0..started
    <3> DEFINE x == [session |-> id, rows |-> rows]
    <3>1. calls' = Append(calls, x) /\ x.session = id
      BY <2>2 DEF Call
    <3> HIDE DEF x
    <3>2. IsSeq(calls) /\ \A i \in 1..Len(calls) : calls[i].session \in 0..started
      BY DEF IInv, Typed, RowsOwn
    <3>3. /\ IsSeq(calls') /\ Len(calls) \in Nat /\ Len(calls') = Len(calls) + 1
          /\ \A i \in 1..Len(calls) : calls'[i] = calls[i]
          /\ calls'[Len(calls) + 1] = x
      BY <3>1, <3>2, SeqAppend
    <3>4. \A i \in 1..Len(calls') : i \in 1..Len(calls) \/ i = Len(calls) + 1
      BY <3>3
    <3> QED
      BY <3>1, <3>2, <3>3, <3>4
  <2> QED
    BY <2>1, <2>2
<1>2. Typed' /\ Begun' /\ OneScan' /\ ValuesOfOwnSession'
  BY <1>1 DEF IInv, Typed, Begun, OneScan, ValuesOfOwnSession
<1>3. RowsOwn'
  BY <1>1 DEF IInv, RowsOwn, Own
<1> QED
  BY <1>2, <1>3 DEF IInv

\* The page is set and the scheduler told of it, whatever the session is by now.
LEMMA SetVisibleCalls ==
    ASSUME NEW s, NEW p, SetVisible(s, p)
    PROVE  calls' = calls \/ \E rows : Call(s.id, rows)
  BY DEF SetVisible

LEMMA CallType ==
    ASSUME IInv, calls' = calls \/ \E rows : Call(session.id, rows)
    PROVE  IsSeq(calls') /\ \A i \in 1..Len(calls') : calls'[i].session \in 0..started
<1> USE DEF IInv
<1>1. session.id \in 0..started
  BY DEF Begun, Typed
<1>2. CASE calls' = calls
  BY <1>2 DEF Typed, RowsOwn
<1>3. ASSUME NEW rows, Call(session.id, rows)
      PROVE  IsSeq(calls') /\ \A i \in 1..Len(calls') : calls'[i].session \in 0..started
  <2> DEFINE x == [session |-> session.id, rows |-> rows]
  <2>1. calls' = Append(calls, x) /\ x.session = session.id
    BY <1>3 DEF Call
  <2> HIDE DEF x
  <2>2. /\ IsSeq(calls') /\ Len(calls) \in Nat /\ Len(calls') = Len(calls) + 1
        /\ \A i \in 1..Len(calls) : calls'[i] = calls[i]
        /\ calls'[Len(calls) + 1] = x
    BY <2>1, SeqAppend DEF Typed
  <2>3. \A i \in 1..Len(calls') : i \in 1..Len(calls) \/ i = Len(calls) + 1
    BY <2>2
  <2> QED
    BY <1>1, <2>1, <2>2, <2>3 DEF RowsOwn
<1> QED
  BY <1>2, <1>3

LEMMA WriteKeeps ==
    ASSUME IInv, NEW a \in Address, Write(a),
           calls' = calls \/ \E rows : Call(session.id, rows),
           UNCHANGED <<session, started, job, visible, tick, inbox>>
    PROVE  IInv'
<1> USE ResultsAssumption DEF IInv
<1>1. /\ memory[a] < MaxValue /\ memory' = [memory EXCEPT ![a] = memory[a] + 1]
      /\ IsSeq(calls') /\ \A i \in 1..Len(calls') : calls'[i].session \in 0..started
      /\ UNCHANGED <<session, started, job, visible, tick, inbox>>
  BY CallType DEF Write
<1>2. memory \in [Address -> Nat] /\ memory[a] + 1 \in Value
  BY <1>1 DEF Typed, Value
<1>3. Typed'
  BY <1>1, <1>2 DEF Typed
<1>4. \A b \in Address : memory'[b] >= memory[b]
  BY <1>1, <1>2
<1>5. Begun'
  <2>1. ASSUME session.id # None, NEW b \in Address
        PROVE  memory'[b] >= session.since[b]
    <3>1. session.since \in [Address -> Nat]
      BY <2>1, ValuesElim DEF Begun, Typed, Value
    <3>2. memory[b] >= session.since[b] /\ memory'[b] >= memory[b] /\ memory'[b] \in Nat
      BY <2>1, <1>3, <1>4 DEF Begun, Typed, Value
    <3> QED
      BY <3>1, <3>2, <1>2
  <2> QED
    BY <2>1, <1>1 DEF Begun
<1>6. RowsOwn' /\ OneScan' /\ ValuesOfOwnSession'
  BY <1>1 DEF RowsOwn, Own, OneScan, ValuesOfOwnSession
<1> QED
  BY <1>3, <1>5, <1>6

\* A new session is not one that any row was read for.
LEMMA StartScanKeeps ==
    ASSUME IInv, NEW req \in Request, StartScan(req)
    PROVE  IInv'
<1> USE ResultsAssumption DEF IInv, None
<1> DEFINE x == [session |-> started + 1, rows |-> {}]
<1>1. /\ started < MaxSessions /\ started' = started + 1 /\ calls' = Append(calls, x)
      /\ session' = [id |-> started + 1, state |-> "scanning", values |-> Empty,
                     previous |-> Empty, scans |-> 1, since |-> memory]
      /\ job' = [phase |-> "launched", mode |-> req.mode, value |-> req.value,
                 old |-> Empty, from |-> Address]
      /\ UNCHANGED <<memory, visible, tick, inbox, page>>
      /\ \A i \in DOMAIN inbox : inbox[i].type = "rows"
  BY DEF StartScan, NoSession, Call, Launch, Idle, AnswerPending
<1>2. x.session = started + 1
  OBVIOUS
<1> HIDE DEF x
<1>3. memory \in Values /\ DOMAIN memory = Address
  BY ValuesIntro DEF Typed
<1>4. started \in Nat /\ started + 1 \in 1..MaxSessions
  BY <1>1 DEF Typed
<1>5. /\ IsSeq(calls') /\ Len(calls) \in Nat /\ Len(calls') = Len(calls) + 1
      /\ \A i \in 1..Len(calls) : calls'[i] = calls[i]
      /\ calls'[Len(calls) + 1] = x
  BY <1>1, SeqAppend DEF Typed
<1>6. Typed'
  <2>1. session' \in [id : 0..MaxSessions, state : State, values : Values,
                      previous : Values, scans : 0..MaxScans, since : Values]
    BY <1>1, <1>3, <1>4, EmptyValues DEF State
  <2>2. job' \in [phase : {"idle", "launched", "begun"}, mode : Mode, value : Value,
                  old : Values, from : SUBSET Address]
    BY <1>1, EmptyValues DEF Request
  <2> QED
    BY <1>1, <1>4, <1>5, <2>1, <2>2 DEF Typed
<1>7. Begun'
  BY <1>1, <1>3, <1>4, <1>6 DEF Begun, Typed, Value
<1>8. RowsOwn'
  <2>1. \A i \in 1..Len(calls') : calls'[i].session \in 0..started'
    <3>1. \A i \in 1..Len(calls') : i \in 1..Len(calls) \/ i = Len(calls) + 1
      BY <1>5
    <3> QED
      BY <3>1, <1>1, <1>2, <1>4, <1>5 DEF RowsOwn
  <2>2. /\ visible.session \in 0..started' /\ tick.session \in 0..started'
        /\ tick.session # session'.id
        /\ \A i \in 1..Len(inbox) :
             inbox[i].session \in 0..started' /\ inbox[i].session # session'.id
    BY <1>1, <1>4 DEF RowsOwn
  <2> QED
    BY <1>1, <2>1, <2>2 DEF RowsOwn
<1>9. OneScan'
  <2>1. \A i \in 1..Len(inbox) : inbox[i].type = "rows"
    BY <1>1, SeqAppend DEF Typed, IsSeq
  <2> QED
    BY <1>1, <1>4, <2>1 DEF OneScan
<1>10. ValuesOfOwnSession'
  BY <1>1, EmptyValues DEF ValuesOfOwnSession, NotBefore
<1> QED
  BY <1>6, <1>7, <1>8, <1>9, <1>10

LEMMA RefineScanKeeps ==
    ASSUME IInv, NEW req \in Request, RefineScan(req)
    PROVE  IInv'
<1> USE ResultsAssumption DEF IInv, None
<1> DEFINE x == [session |-> session.id, rows |-> {}]
<1>1. /\ session.state = "ready" /\ session.scans < MaxScans
      /\ session' = [session EXCEPT !.state = "scanning", !.scans = session.scans + 1]
      /\ calls' = Append(calls, x)
      /\ job' = [phase |-> "launched", mode |-> req.mode, value |-> req.value,
                 old |-> Empty, from |-> DOMAIN session.values]
      /\ UNCHANGED <<memory, started, visible, tick, inbox, page>>
      /\ \A i \in DOMAIN inbox : inbox[i].type = "rows"
  BY DEF RefineScan, Ready, Call, Launch, Idle, AnswerPending
<1>2. x.session = session.id
  OBVIOUS
<1> HIDE DEF x
<1>3. session.id # 0 /\ session.id \in 0..started /\ session.scans + 1 \in 0..MaxScans
  BY <1>1 DEF Begun, Typed
<1>4. /\ session'.id = session.id /\ session'.values = session.values
      /\ session'.previous = session.previous /\ session'.since = session.since
      /\ session'.state = "scanning"
  BY <1>1 DEF Typed
<1>5. /\ IsSeq(calls') /\ Len(calls) \in Nat /\ Len(calls') = Len(calls) + 1
      /\ \A i \in 1..Len(calls) : calls'[i] = calls[i]
      /\ calls'[Len(calls) + 1] = x
  BY <1>1, SeqAppend DEF Typed
<1>6. Typed'
  <2>1. session' \in [id : 0..MaxSessions, state : State, values : Values,
                      previous : Values, scans : 0..MaxScans, since : Values]
    BY <1>1, <1>3 DEF Typed, State
  <2>2. DOMAIN session.values \in SUBSET Address
    BY ValuesElim DEF Typed
  <2>3. job' \in [phase : {"idle", "launched", "begun"}, mode : Mode, value : Value,
                  old : Values, from : SUBSET Address]
    BY <1>1, <2>2, EmptyValues DEF Request
  <2> QED
    BY <1>1, <1>5, <2>1, <2>3 DEF Typed
<1>7. Begun'
  BY <1>1, <1>3, <1>4 DEF Begun
<1>8. RowsOwn'
  <2>1. \A i \in 1..Len(calls') : calls'[i].session \in 0..started'
    <3>1. \A i \in 1..Len(calls') : i \in 1..Len(calls) \/ i = Len(calls) + 1
      BY <1>5
    <3> QED
      BY <3>1, <1>1, <1>2, <1>3, <1>5 DEF RowsOwn
  <2> QED
    BY <1>1, <1>4, <2>1 DEF RowsOwn, Own
<1>9. OneScan'
  <2>1. \A i \in 1..Len(inbox) : inbox[i].type = "rows"
    BY <1>1, SeqAppend DEF Typed, IsSeq
  <2> QED
    BY <1>1, <1>3, <1>4, <2>1 DEF OneScan
<1>10. ValuesOfOwnSession'
  BY <1>1, <1>4, EmptyValues DEF ValuesOfOwnSession, NotBefore
<1> QED
  BY <1>6, <1>7, <1>8, <1>9, <1>10

LEMMA ResetScanKeeps ==
    ASSUME IInv, ResetScan
    PROVE  IInv'
<1> USE ResultsAssumption DEF IInv, None
<1> DEFINE x == [session |-> 0, rows |-> {}]
<1>1. /\ session.state # "scanning" /\ session' = NoSession /\ calls' = Append(calls, x)
      /\ UNCHANGED <<memory, started, job, visible, tick, inbox>>
  BY DEF ResetScan, Call
<1>2. x.session = 0
  OBVIOUS
<1> HIDE DEF x
<1>3. /\ IsSeq(calls') /\ Len(calls) \in Nat /\ Len(calls') = Len(calls) + 1
      /\ \A i \in 1..Len(calls) : calls'[i] = calls[i]
      /\ calls'[Len(calls) + 1] = x
  BY <1>1, SeqAppend DEF Typed
<1>4. /\ session'.id = 0 /\ session'.state = "none" /\ session'.values = Empty
      /\ session'.previous = Empty /\ session'.scans = 0 /\ session'.since = Empty
  BY <1>1 DEF NoSession
<1>5. Typed'
  BY <1>1, <1>3, EmptyValues DEF Typed, NoSession, State
<1>6. Begun' /\ ValuesOfOwnSession'
  <2>1. DOMAIN job.old = {}
    BY <1>1 DEF OneScan
  <2> QED
    BY <1>1, <1>4, <2>1, EmptyValues DEF Begun, Typed, ValuesOfOwnSession, NotBefore
<1>7. RowsOwn'
  <2>1. \A i \in 1..Len(calls') : calls'[i].session \in 0..started'
    <3>1. \A i \in 1..Len(calls') : i \in 1..Len(calls) \/ i = Len(calls) + 1
      BY <1>3
    <3> QED
      BY <3>1, <1>1, <1>2, <1>3 DEF RowsOwn, Typed
  <2> QED
    BY <1>1, <1>4, <2>1 DEF RowsOwn
<1>8. OneScan'
  BY <1>1, <1>4 DEF OneScan
<1> QED
  BY <1>5, <1>6, <1>7, <1>8

LEMMA WorkerBeginsKeeps ==
    ASSUME IInv, WorkerBegins
    PROVE  IInv'
<1> USE DEF IInv
<1>1. /\ job.phase = "launched"
      /\ job' = [job EXCEPT !.phase = "begun", !.old = session.values]
      /\ UNCHANGED <<memory, session, started, visible, tick, calls, inbox, page>>
  BY DEF WorkerBegins
<1>2. /\ job'.phase = "begun" /\ job'.old = session.values /\ job'.from = job.from
      /\ Typed'
  BY <1>1 DEF Typed
<1> QED
  BY <1>1, <1>2 DEF Begun, RowsOwn, Own, OneScan, ValuesOfOwnSession

\* What a worker found is put at the end of the queue.
LEMMA AnswerKeeps ==
    ASSUME IInv, NEW type \in {"completed", "failed"}, NEW values \in Values,
           Answer(type, values), job.phase # "idle", Own(values),
           session.scans # 1 => DOMAIN values \subseteq DOMAIN session.values
    PROVE  IInv'
<1> USE DEF IInv
<1> DEFINE x == [type |-> type, session |-> session.id, values |-> values]
<1>1. /\ inbox' = Append(inbox, x) /\ job' = NoJob
      /\ UNCHANGED <<memory, session, started, visible, tick, calls, page>>
  BY DEF Answer
<1>2. x.session = session.id /\ x.type # "rows" /\ x.values = values
  OBVIOUS
<1> HIDE DEF x
<1>3. /\ IsSeq(inbox') /\ Len(inbox) \in Nat /\ Len(inbox') = Len(inbox) + 1
      /\ \A i \in 1..Len(inbox) : inbox'[i] = inbox[i]
      /\ inbox'[Len(inbox) + 1] = x
  BY <1>1, SeqAppend DEF Typed
<1>4. /\ job'.phase = "idle" /\ DOMAIN job'.old = {} /\ NotBefore(job'.old, session.since)
      /\ job' \in [phase : {"idle", "launched", "begun"}, mode : Mode, value : Value,
                   old : Values, from : SUBSET Address]
  <2>1. 0 \in Value
    BY ResultsAssumption DEF Value
  <2> QED
    BY <1>1, <2>1, EmptyValues DEF NoJob, Mode, NotBefore
<1>5. Typed' /\ Begun'
  BY <1>1, <1>3, <1>4 DEF Typed, Begun
<1>6. session.id \in 0..started /\ session.id # 0 /\ session.state = "scanning"
  BY DEF Begun, Typed, OneScan, None
<1>7. \A i \in 1..Len(inbox') : i \in 1..Len(inbox) \/ i = Len(inbox) + 1
  BY <1>3
<1>8. RowsOwn'
  <2>1. \A i \in 1..Len(inbox') :
          /\ inbox'[i].session \in 0..started
          /\ session.id # None /\ inbox'[i].session = session.id => Own(inbox'[i].values)
    BY <1>2, <1>3, <1>6, <1>7 DEF RowsOwn
  <2> QED
    BY <1>1, <2>1 DEF RowsOwn, Own
<1>9. OneScan'
  <2>1. \A i \in 1..Len(inbox) : inbox[i].type = "rows"
    BY DEF OneScan
  <2> QED
    BY <1>1, <1>2, <1>3, <1>4, <1>6, <1>7, <2>1 DEF OneScan, None
<1>10. ValuesOfOwnSession'
  BY <1>1, <1>4 DEF ValuesOfOwnSession
<1> QED
  BY <1>5, <1>8, <1>9, <1>10

LEMMA WorkerEndsKeeps ==
    ASSUME IInv, WorkerReads \/ WorkerGivesUp
    PROVE  IInv'
<1> USE DEF IInv
<1>1. CASE WorkerGivesUp
  <2>1. job.phase # "idle" /\ Answer("failed", Empty)
    BY <1>1 DEF WorkerGivesUp
  <2> QED
    BY <2>1, AnswerKeeps, EmptyValues DEF Own
<1>2. CASE WorkerReads
  <2> DEFINE found == {b \in job.from : Matches(b)}
             v == [a \in found |-> memory[a]]
  <2>1. job.phase = "begun" /\ Answer("completed", v)
    BY <1>2 DEF WorkerReads
  <2>2. found \subseteq job.from /\ job.from \subseteq Address
    BY DEF Typed
  <2> HIDE DEF found
  <2>3. v \in [found -> Value] /\ v \in Values
    BY <2>2, ValuesIntro DEF Typed
  <2>4. session.id # None /\ (session.scans # 1 => job.from \subseteq DOMAIN session.values)
    BY <2>1 DEF OneScan
  <2>5. Own(v)
    BY <2>2, <2>3, <2>4 DEF Own, Begun
  <2>6. session.scans # 1 => DOMAIN v \subseteq DOMAIN session.values
    BY <2>2, <2>4
  <2> HIDE DEF v
  <2> QED
    BY <2>1, <2>3, <2>5, <2>6, AnswerKeeps
<1> QED
  BY <1>1, <1>2

\* A signal is taken from the queue; what remains was there before.
LEMMA Received ==
    ASSUME IInv, NEW type, Receive(type)
    PROVE  /\ IsSeq(inbox') /\ Len(inbox) \in Nat \ {0} /\ 1 \in 1..Len(inbox)
           /\ Head(inbox) = inbox[1] /\ inbox[1].type = type
           /\ \A i \in 1..Len(inbox') :
                i + 1 \in 1..Len(inbox) /\ i + 1 # 1 /\ inbox'[i] = inbox[i + 1]
           /\ \A i, j \in 1..Len(inbox') : i + 1 = j + 1 => i = j
<1>1. inbox # <<>> /\ Head(inbox).type = type /\ inbox' = Tail(inbox) /\ IsSeq(inbox)
  BY DEF Receive, IInv, Typed
<1>2. /\ IsSeq(inbox') /\ Len(inbox) \in Nat \ {0} /\ Len(inbox') = Len(inbox) - 1
      /\ \A i \in 1..Len(inbox') : inbox'[i] = inbox[i + 1]
      /\ Head(inbox) = inbox[1]
  BY <1>1, SeqTail
<1> QED
  BY <1>1, <1>2

LEMMA OnCompletedKeeps ==
    ASSUME IInv, OnCompleted
    PROVE  IInv'
<1> USE DEF IInv
<1> DEFINE found == inbox[1].values
           before == IF session.scans = 1 THEN Empty
                     ELSE [a \in DOMAIN found |-> session.values[a]]
           s == [session EXCEPT !.state = "ready", !.values = found, !.previous = before]
<1>1. Receive("completed")
  BY DEF OnCompleted
<1>2. /\ IsSeq(inbox') /\ 1 \in 1..Len(inbox) /\ Head(inbox) = inbox[1]
      /\ inbox[1].type = "completed"
      /\ \A i \in 1..Len(inbox') :
           i + 1 \in 1..Len(inbox) /\ i + 1 # 1 /\ inbox'[i] = inbox[i + 1]
  BY <1>1, Received
<1>3. /\ session' = s /\ SetPage(s, Load(s, page, 0))
      /\ UNCHANGED <<memory, started, job, visible, tick>>
  BY <1>2 DEF OnCompleted
<1>4. /\ session.state = "scanning" /\ job.phase = "idle" /\ session.id # None
      /\ found \in Values /\ inbox[1].session = session.id
      /\ session.scans # 1 => DOMAIN found \subseteq DOMAIN session.values
      /\ \A i \in 1..Len(inbox) : inbox[i].type # "rows" => i = 1
  <2>1. inbox[1].type # "rows"
    BY <1>2
  <2> QED
    BY <1>2, <2>1 DEF OneScan
<1>5. Own(found)
  BY <1>2, <1>4 DEF RowsOwn
<1> HIDE DEF found
<1>6. before \in Values /\ NotBefore(before, session.since)
  <2>1. CASE session.scans = 1
    BY <2>1, EmptyValues DEF NotBefore
  <2>2. CASE session.scans # 1
    <3>1. session.values \in [DOMAIN session.values -> Value] /\ session.values \in Values
          /\ DOMAIN session.values \subseteq Address
      BY ValuesElim DEF Typed
    <3>2. DOMAIN found \subseteq DOMAIN session.values
      BY <1>4, <2>2
    <3>3. before = [a \in DOMAIN found |-> session.values[a]]
      BY <2>2
    <3>4. before \in [DOMAIN found -> Value]
      BY <3>1, <3>2, <3>3
    <3>5. before \in Values
      BY <3>1, <3>2, <3>4, ValuesIntro
    <3> QED
      BY <3>2, <3>3, <3>5 DEF ValuesOfOwnSession, NotBefore
  <2> QED
    BY <2>1, <2>2
<1> HIDE DEF before
<1>7. /\ s.id = session.id /\ s.state = "ready" /\ s.values = found /\ s.previous = before
      /\ s.since = session.since /\ s.scans = session.scans
      /\ s \in [id : 0..MaxSessions, state : State, values : Values,
                previous : Values, scans : 0..MaxScans, since : Values]
  BY <1>4, <1>6 DEF Typed, State
<1> HIDE DEF s
<1>8. calls' = calls \/ \E rows : Call(session.id, rows)
  BY <1>3, <1>7, SetVisibleCalls DEF SetPage
<1>9. IsSeq(calls') /\ \A i \in 1..Len(calls') : calls'[i].session \in 0..started
  BY <1>8, CallType
<1>10. Typed' /\ Begun'
  BY <1>2, <1>3, <1>4, <1>7, <1>9 DEF Typed, Begun
<1>11. RowsOwn'
  BY <1>2, <1>3, <1>7, <1>9 DEF RowsOwn, Own
<1>12. OneScan'
  <2>1. \A i \in 1..Len(inbox') : inbox'[i].type = "rows"
    BY <1>2, <1>4
  <2> QED
    BY <1>3, <1>4, <2>1 DEF OneScan
<1>13. ValuesOfOwnSession'
  <2>1. DOMAIN found \subseteq Address /\ DOMAIN session.since = Address
    BY <1>4, ValuesElim DEF Begun
  <2>2. NotBefore(found, session.since)
    BY <1>5, <2>1 DEF Own, NotBefore
  <2> QED
    BY <1>3, <1>6, <1>7, <2>2 DEF ValuesOfOwnSession
<1> QED
  BY <1>10, <1>11, <1>12, <1>13

LEMMA OnFailedKeeps ==
    ASSUME IInv, OnFailed
    PROVE  IInv'
<1> USE DEF IInv
<1>1. /\ Receive("failed") /\ session' = [session EXCEPT !.state = "failed"]
      /\ UNCHANGED <<memory, started, job, visible, tick, calls, page>>
  BY DEF OnFailed
<1>2. /\ IsSeq(inbox') /\ 1 \in 1..Len(inbox) /\ inbox[1].type = "failed"
      /\ \A i \in 1..Len(inbox') :
           i + 1 \in 1..Len(inbox) /\ i + 1 # 1 /\ inbox'[i] = inbox[i + 1]
  BY <1>1, Received
<1>3. /\ session.state = "scanning" /\ job.phase = "idle" /\ session.id # None
      /\ \A i \in 1..Len(inbox) : inbox[i].type # "rows" => i = 1
  <2>1. inbox[1].type # "rows"
    BY <1>2
  <2> QED
    BY <1>2, <2>1 DEF OneScan
<1>4. /\ session'.id = session.id /\ session'.state = "failed"
      /\ session'.values = session.values /\ session'.previous = session.previous
      /\ session'.since = session.since /\ session'.scans = session.scans
      /\ session' \in [id : 0..MaxSessions, state : State, values : Values,
                       previous : Values, scans : 0..MaxScans, since : Values]
  BY <1>1 DEF Typed, State
<1>5. Typed' /\ Begun' /\ ValuesOfOwnSession'
  BY <1>1, <1>2, <1>3, <1>4 DEF Typed, Begun, ValuesOfOwnSession
<1>6. RowsOwn'
  <2>1. \A i \in 1..Len(inbox') :
          /\ inbox'[i].session \in 0..started
          /\ session.id # None /\ inbox'[i].session = session.id => Own(inbox'[i].values)
    BY <1>2 DEF RowsOwn
  <2>2. \A v : Own(v) => \A a \in DOMAIN v \cap Address :
                            v[a] \in Value /\ v[a] >= session'.since[a]
    BY <1>4 DEF Own
  <2>3. session'.id # None /\ tick'.session = session'.id => Own(tick.values)
    BY <1>1, <1>4 DEF RowsOwn
  <2> QED
    BY <1>1, <1>4, <2>1, <2>2, <2>3 DEF RowsOwn, Own
<1>7. OneScan'
  <2>1. \A i \in 1..Len(inbox') : inbox'[i].type = "rows"
    BY <1>2, <1>3
  <2> QED
    BY <1>1, <1>3, <2>1 DEF OneScan
<1> QED
  BY <1>5, <1>6, <1>7

\* Rows are only applied to the session they were read for.
LEMMA OnRowsKeeps ==
    ASSUME IInv, OnRows
    PROVE  IInv'
<1> USE DEF IInv
<1> DEFINE now == Updated(session, inbox[1])
<1>1. Receive("rows") /\ UNCHANGED <<memory, started, job, visible, tick, calls>>
  BY DEF OnRows
<1>2. /\ IsSeq(inbox') /\ 1 \in 1..Len(inbox) /\ Head(inbox) = inbox[1]
      /\ \A i \in 1..Len(inbox') :
           i + 1 \in 1..Len(inbox) /\ i + 1 # 1 /\ inbox'[i] = inbox[i + 1]
      /\ \A i, j \in 1..Len(inbox') : i + 1 = j + 1 => i = j
  BY <1>1, Received
<1>3. session' = [session EXCEPT !.values = now]
  BY <1>2 DEF OnRows
<1>4. session.values \in Values /\ DOMAIN session.values \subseteq Address
      /\ session.values \in [DOMAIN session.values -> Value]
  BY ValuesElim DEF Typed
<1>5. /\ DOMAIN now = DOMAIN session.values /\ now \in Values
      /\ NotBefore(now, session.since)
  <2>1. CASE inbox[1].session # session.id
    <3>1. now = session.values
      BY <2>1 DEF Updated
    <3> QED
      BY <3>1, <1>4 DEF ValuesOfOwnSession
  <2>2. CASE inbox[1].session = session.id
    <3> DEFINE u == inbox[1].values
    <3>1. now = [a \in DOMAIN session.values |->
                    IF a \in DOMAIN u THEN u[a] ELSE session.values[a]]
      BY <2>2 DEF Updated, Refreshed
    <3>2. ASSUME NEW a \in DOMAIN session.values, a \in DOMAIN u
          PROVE  u[a] \in Value /\ u[a] >= session.since[a]
      <4>1. session.id # None
        BY <3>2 DEF Begun
      <4>2. Own(u)
        BY <1>2, <2>2, <4>1 DEF RowsOwn
      <4> QED
        BY <1>4, <3>2, <4>2 DEF Own
    <3> HIDE DEF now, u
    <3>3. now \in [DOMAIN session.values -> Value]
      BY <1>4, <3>1, <3>2
    <3>4. now \in Values
      BY <1>4, <3>3, ValuesIntro
    <3> QED
      BY <3>1, <3>2, <3>4 DEF ValuesOfOwnSession, NotBefore
  <2> QED
    BY <2>1, <2>2
<1> HIDE DEF now
<1>6. /\ session'.id = session.id /\ session'.state = session.state
      /\ session'.values = now /\ session'.previous = session.previous
      /\ session'.since = session.since /\ session'.scans = session.scans
      /\ session' \in [id : 0..MaxSessions, state : State, values : Values,
                       previous : Values, scans : 0..MaxScans, since : Values]
  BY <1>3, <1>5 DEF Typed
<1>7. Typed' /\ Begun' /\ ValuesOfOwnSession'
  BY <1>1, <1>2, <1>5, <1>6 DEF Typed, Begun, ValuesOfOwnSession
<1>8. RowsOwn'
  <2>1. \A i \in 1..Len(inbox') :
          /\ inbox'[i].session \in 0..started
          /\ session.id # None /\ inbox'[i].session = session.id => Own(inbox'[i].values)
    BY <1>2 DEF RowsOwn
  <2>2. \A v : Own(v) => \A a \in DOMAIN v \cap Address :
                            v[a] \in Value /\ v[a] >= session'.since[a]
    BY <1>6 DEF Own
  <2>3. session'.id # None /\ tick'.session = session'.id => Own(tick.values)
    BY <1>1, <1>6 DEF RowsOwn
  <2> QED
    BY <1>1, <1>6, <2>1, <2>2, <2>3 DEF RowsOwn, Own
<1>9. OneScan'
  <2>1. ASSUME NEW i \in 1..Len(inbox'), inbox'[i].type # "rows"
        PROVE  /\ session.state = "scanning" /\ job.phase = "idle" /\ session.id # None
               /\ inbox'[i].session = session.id /\ inbox'[i].values \in Values
               /\ session.scans # 1 => DOMAIN inbox'[i].values \subseteq DOMAIN now
               /\ \A j \in 1..Len(inbox') : inbox'[j].type # "rows" => i = j
    <3>1. i + 1 \in 1..Len(inbox) /\ inbox'[i] = inbox[i + 1]
          /\ inbox[i + 1].type # "rows"
      BY <1>2, <2>1
    <3>2. /\ session.state = "scanning" /\ job.phase = "idle" /\ session.id # None
          /\ inbox'[i].session = session.id /\ inbox'[i].values \in Values
          /\ session.scans # 1 => DOMAIN inbox'[i].values \subseteq DOMAIN session.values
          /\ \A k \in 1..Len(inbox) : inbox[k].type # "rows" => i + 1 = k
      BY <3>1 DEF OneScan
    <3>3. ASSUME NEW j \in 1..Len(inbox'), inbox'[j].type # "rows"
          PROVE  i = j
      <4>1. i + 1 = j + 1
        BY <1>2, <3>2, <3>3
      <4> QED
        BY <1>2, <4>1
    <3> QED
      BY <1>5, <3>2, <3>3
  <2> QED
    BY <1>1, <1>5, <1>6, <2>1 DEF OneScan
<1> QED
  BY <1>7, <1>8, <1>9

LEMMA SchedulerKeeps ==
    ASSUME IInv, SetVisibleRows \/ TickReads \/ TickEmits
    PROVE  IInv'
<1> USE DEF IInv
<1>1. CASE SetVisibleRows
  <2>1. /\ calls # <<>> /\ visible' = Head(calls) /\ calls' = Tail(calls)
        /\ UNCHANGED <<memory, session, started, job, tick, inbox, page>>
    BY <1>1 DEF SetVisibleRows
  <2>2. /\ IsSeq(calls') /\ Len(calls) \in Nat \ {0} /\ Len(calls') = Len(calls) - 1
        /\ \A i \in 1..Len(calls') : calls'[i] = calls[i + 1]
        /\ Head(calls) = calls[1]
    BY <2>1, SeqTail DEF Typed
  <2>3. \A i \in 1..Len(calls') : i + 1 \in 1..Len(calls)
    BY <2>2
  <2>4. RowsOwn'
    <3>1. /\ visible'.session \in 0..started
          /\ \A i \in 1..Len(calls') : calls'[i].session \in 0..started
      BY <2>1, <2>2, <2>3 DEF RowsOwn
    <3> QED
      BY <2>1, <3>1 DEF RowsOwn, Own
  <2> QED
    BY <2>1, <2>2, <2>4 DEF Typed, Begun, OneScan, ValuesOfOwnSession
<1>2. CASE TickReads
  <2> DEFINE v == [a \in visible.rows |-> memory[a]]
  <2>1. /\ tick' = [busy |-> TRUE, session |-> visible.session, values |-> v]
        /\ UNCHANGED <<memory, session, started, job, visible, calls, inbox, page>>
    BY <1>2 DEF TickReads
  <2>2. session.id # None => Own(v)
    BY DEF Own, Begun, Typed
  <2> HIDE DEF v
  <2>3. RowsOwn'
    BY <2>1, <2>2 DEF RowsOwn, Own
  <2> QED
    BY <2>1, <2>3 DEF Typed, Begun, OneScan, ValuesOfOwnSession
<1>3. CASE TickEmits
  <2> DEFINE x == [type |-> "rows", session |-> tick.session, values |-> tick.values]
  <2>1. /\ inbox' = Append(inbox, x) /\ tick' = NoTick
        /\ UNCHANGED <<memory, session, started, job, visible, calls, page>>
    BY <1>3 DEF TickEmits
  <2>2. x.session = tick.session /\ x.type = "rows" /\ x.values = tick.values
    OBVIOUS
  <2> HIDE DEF x
  <2>3. /\ IsSeq(inbox') /\ Len(inbox) \in Nat /\ Len(inbox') = Len(inbox) + 1
        /\ \A i \in 1..Len(inbox) : inbox'[i] = inbox[i]
        /\ inbox'[Len(inbox) + 1] = x
    BY <2>1, SeqAppend DEF Typed
  <2>4. \A i \in 1..Len(inbox') : i \in 1..Len(inbox) \/ i = Len(inbox) + 1
    BY <2>3
  <2>5. RowsOwn'
    <3>1. \A i \in 1..Len(inbox') :
            /\ inbox'[i].session \in 0..started
            /\ session.id # None /\ inbox'[i].session = session.id => Own(inbox'[i].values)
      BY <2>2, <2>3, <2>4 DEF RowsOwn
    <3>2. tick'.session = 0 /\ 0 \in 0..started
      BY <2>1 DEF NoTick, None, Typed
    <3>3. \A v : Own(v) => \A a \in DOMAIN v \cap Address :
                              v[a] \in Value /\ v[a] >= session'.since[a]
      BY <2>1 DEF Own
    <3>4. /\ visible'.session \in 0..started' /\ tick'.session \in 0..started'
          /\ \A i \in 1..Len(calls') : calls'[i].session \in 0..started'
          /\ session'.id # None => tick'.session # session'.id
      BY <2>1, <3>2 DEF RowsOwn, None
    <3> QED
      BY <2>1, <3>1, <3>3, <3>4 DEF RowsOwn, Own
  <2>6. OneScan'
    BY <2>1, <2>2, <2>3, <2>4 DEF OneScan
  <2> QED
    BY <2>1, <2>3, <2>5, <2>6 DEF Typed, Begun, ValuesOfOwnSession
<1> QED
  BY <1>1, <1>2, <1>3

LEMMA PageKeeps ==
    ASSUME IInv, NEW p, SetPage(session, p),
           UNCHANGED <<memory, session, started, job, visible, tick, inbox>>
    PROVE  IInv'
<1>1. session.id \in 0..started
  BY DEF IInv, Begun, Typed
<1>2. calls' = calls \/ \E rows : Call(session.id, rows)
  BY SetVisibleCalls DEF SetPage
<1> QED
  BY <1>1, <1>2, CallKeeps

LEMMA NextIInv == IInv /\ [Next]_vars => IInv'
<1> SUFFICES ASSUME IInv, [Next]_vars PROVE IInv'
  OBVIOUS
<1>1. ASSUME NEW offset, Turn(offset)
      PROVE  IInv'
  BY <1>1, PageKeeps DEF Turn
<1>2. ASSUME NextPage \/ PreviousPage \/ \E n \in 0..MaxPage : GoToPage(n)
      PROVE  IInv'
  BY <1>1, <1>2 DEF NextPage, PreviousPage, GoToPage
<1>3. ASSUME NEW value, SetFilter(value)
      PROVE  IInv'
  BY <1>3, PageKeeps DEF SetFilter
<1>4. ASSUME NEW order, SetOrder(order)
      PROVE  IInv'
  BY <1>4, PageKeeps DEF SetOrder
<1>5. ASSUME NEW i, RemoveRow(i)
      PROVE  IInv'
  BY <1>5, PageKeeps DEF RemoveRow
<1>6. ASSUME NEW a \in Address, ProgramWrites(a) \/ EditResult(a)
      PROVE  IInv'
  BY <1>6, WriteKeeps, SetVisibleCalls DEF ProgramWrites, EditResult, SetPage
<1>7. ASSUME UNCHANGED vars
      PROVE  IInv'
  BY <1>7, CallKeeps DEF vars
<1> QED
  BY <1>2, <1>3, <1>4, <1>5, <1>6, <1>7, StartScanKeeps, RefineScanKeeps,
     ResetScanKeeps, WorkerBeginsKeeps, WorkerEndsKeeps, OnCompletedKeeps, OnFailedKeeps,
     OnRowsKeeps, SchedulerKeeps DEF Next

-----------------------------------------------------------------------------
(* The page.                                                               *)

\* Two candidates of a session are never level.
LEMMA BeforeOrders ==
    ASSUME NEW s, NEW p, s.values \in Values
    PROVE  LET S == DOMAIN s.values
           IN  /\ \A a \in S : ~Before(s, p, a, a)
               /\ \A a, b \in S : a = b \/ Before(s, p, a, b) \/ Before(s, p, b, a)
               /\ \A a, b, c \in S :
                    Before(s, p, a, b) /\ Before(s, p, b, c) => Before(s, p, a, c)
<1> DEFINE S == DOMAIN s.values
<1>1. S \subseteq Nat /\ \A a \in S : s.values[a] \in Nat
  BY ValuesElim, ResultsAssumption DEF Value
<1> HIDE DEF S
<1>2. \A a \in S : ~Before(s, p, a, a)
  BY <1>1 DEF Before
<1>3. \A a, b \in S : a = b \/ Before(s, p, a, b) \/ Before(s, p, b, a)
  BY <1>1 DEF Before
<1>4. ASSUME NEW a \in S, NEW b \in S, NEW c \in S,
             Before(s, p, a, b), Before(s, p, b, c)
      PROVE  Before(s, p, a, c)
  BY <1>1, <1>4 DEF Before
<1> QED
  BY <1>2, <1>3, <1>4 DEF S

\* The candidates of the page can be sorted: each stands behind as many as come
\* before it.
LEMMA SortExists ==
    ASSUME NEW s, NEW p, s.values \in Values, NEW S \in SUBSET DOMAIN s.values
    PROVE  /\ Cardinality(S) \in Nat
           /\ \E f \in [1..Cardinality(S) -> S] :
                \A i, j \in DOMAIN f : i < j => Before(s, p, f[i], f[j])
<1> DEFINE D(a) == {b \in S : Before(s, p, b, a)}
           n == Cardinality(S)
           rank == [a \in S |-> Cardinality(D(a)) + 1]
<1>1. S \subseteq Nat /\ IsFiniteSet(S)
  BY ValuesElim, ResultsAssumption, FS_Subset
<1>2. n \in Nat
  BY <1>1, FS_CardinalityType
<1>3. ASSUME NEW a \in S
      PROVE  /\ IsFiniteSet(D(a)) /\ Cardinality(D(a)) \in Nat
             /\ Cardinality(D(a)) < n
  <2>1. D(a) \in SUBSET S /\ D(a) # S
    BY BeforeOrders
  <2> HIDE DEF D
  <2> QED
    BY <1>1, <1>2, <2>1, FS_Subset, FS_CardinalityType
<1>4. ASSUME NEW a \in S, NEW b \in S, Before(s, p, a, b)
      PROVE  Cardinality(D(a)) < Cardinality(D(b))
  <2>1. D(a) \in SUBSET D(b)
    BY <1>4, BeforeOrders
  <2>2. a \in D(b) /\ a \notin D(a)
    BY <1>4, BeforeOrders
  <2>3. IsFiniteSet(D(b)) /\ Cardinality(D(a)) \in Nat /\ Cardinality(D(b)) \in Nat
    BY <1>3
  <2> HIDE DEF D
  <2> QED
    BY <2>1, <2>2, <2>3, FS_Subset
<1>5. rank \in [S -> 1..n]
  BY <1>2, <1>3
<1>6. ASSUME NEW a \in S, NEW b \in S, Before(s, p, a, b)
      PROVE  rank[a] < rank[b]
  <2>1. rank[a] = Cardinality(D(a)) + 1 /\ rank[b] = Cardinality(D(b)) + 1
    OBVIOUS
  <2>2. Cardinality(D(a)) \in Nat /\ Cardinality(D(b)) \in Nat
    BY <1>3
  <2> HIDE DEF D, rank
  <2> QED
    BY <1>4, <1>6, <2>1, <2>2
<1>7. \A a, b \in S : a = b \/ Before(s, p, a, b) \/ Before(s, p, b, a)
  BY BeforeOrders
<1> HIDE DEF D, rank
<1>8. ASSUME NEW a \in S, NEW b \in S, rank[a] = rank[b]
      PROVE  a = b
  BY <1>2, <1>5, <1>6, <1>7, <1>8
<1>9. rank \in Injection(S, 1..n)
  BY <1>5, <1>8, Fun_IsInj
<1>10. IsFiniteSet(1..n) /\ Cardinality(1..n) = n
  BY <1>2, FS_Interval
<1>11. rank \in Surjection(S, 1..n)
  BY <1>9, <1>10, FS_Injection
<1>12. \A i \in 1..n : \E a \in S : rank[a] = i
  BY <1>11, Fun_SurjectionProperties
<1> DEFINE f == [i \in 1..n |-> CHOOSE a \in S : rank[a] = i]
<1>13. f \in [1..n -> S] /\ \A i \in 1..n : rank[f[i]] = i
  BY <1>12
<1> HIDE DEF f, n
<1>14. ASSUME NEW i \in 1..n, NEW j \in 1..n, i < j
       PROVE  Before(s, p, f[i], f[j])
  <2>1. f[i] \in S /\ f[j] \in S /\ rank[f[i]] < rank[f[j]]
    BY <1>13, <1>14
  <2>2. rank[f[i]] \in Nat /\ rank[f[j]] \in Nat
    BY <1>13, <1>14, <1>2
  <2> QED
    BY <1>6, <1>7, <2>1, <2>2
<1> QED
  BY <1>2, <1>13, <1>14 DEF n

\* What is listed is candidates, all of them.
LEMMA OrderedType ==
    ASSUME NEW s, NEW p, s.values \in Values
    PROVE  LET n == Cardinality(Selected(s, p))
           IN  n \in Nat /\ Ordered(s, p) \in [1..n -> DOMAIN s.values]
<1> DEFINE S == Selected(s, p)
           n == Cardinality(S)
           ok(f) == \A i, j \in DOMAIN f : i < j => Before(s, p, f[i], f[j])
           up == CHOOSE f \in [1..n -> S] : ok(f)
<1>1. S \in SUBSET DOMAIN s.values
  BY DEF Selected
<1>2. Ordered(s, p) = IF p.descending THEN Reverse(up) ELSE up
  BY DEF Ordered
<1> HIDE DEF S
<1>3. n \in Nat /\ \E f \in [1..n -> S] : ok(f)
  BY <1>1, SortExists
<1>4. up \in [1..n -> S]
  BY <1>3
<1> HIDE DEF up, n
<1>5. Len(up) = n
  BY <1>3, <1>4
<1>6. Reverse(up) \in [1..n -> S]
  BY <1>3, <1>4, <1>5 DEF Reverse
<1> QED
  BY <1>1, <1>2, <1>3, <1>4, <1>6 DEF S, n

\* A page of them, beginning at the offset.
LEMMA SliceType ==
    ASSUME NEW s, NEW p, s.values \in Values, NEW offset \in Nat
    PROVE  /\ Total(s, p) \in Nat
           /\ Slice(s, p, offset) \in Seq(Row)
           /\ Len(Slice(s, p, offset)) <= PageSize
           /\ offset < Total(s, p) =>
                Len(Slice(s, p, offset)) <= Total(s, p) - offset
           /\ Total(s, p) <= offset => Len(Slice(s, p, offset)) = 0
<1> DEFINE n == Cardinality(Selected(s, p))
           all == Ordered(s, p)
           total == Total(s, p)
           length == IF total <= offset THEN 0
                     ELSE IF total - offset < PageSize THEN total - offset ELSE PageSize
           rows == [i \in 1..length |-> [address |-> all[offset + i],
                                        current |-> s.values[all[offset + i]]]]
<1>1. n \in Nat /\ all \in [1..n -> DOMAIN s.values]
  BY OrderedType
<1>2. total = (IF Ready(s) THEN n ELSE 0) /\ Slice(s, p, offset) = rows
  BY DEF Total, Slice
<1> HIDE DEF all, n
<1>3. total \in 0..n
  BY <1>1, <1>2
<1> HIDE DEF total
<1>4. PageSize \in Nat \ {0}
  BY ResultsAssumption
<1>5. /\ length \in Nat /\ length <= PageSize
      /\ length = 0 \/ offset + length <= n
      /\ offset < total => length <= total - offset
      /\ total <= offset => length = 0
  BY <1>1, <1>3, <1>4
<1> HIDE DEF length
<1>6. ASSUME NEW i \in 1..length
      PROVE  [address |-> all[offset + i], current |-> s.values[all[offset + i]]] \in Row
  <2>1. all[offset + i] \in DOMAIN s.values
    BY <1>1, <1>5
  <2>2. all[offset + i] \in Address /\ s.values[all[offset + i]] \in Value
    BY <2>1, ValuesElim
  <2> QED
    BY <2>2 DEF Row
<1>7. rows \in [1..length -> Row]
  BY <1>6
<1>8. rows \in Seq(Row) /\ Len(rows) = length
  BY <1>5, <1>7
<1> HIDE DEF rows
<1>9. /\ total \in Nat /\ rows \in Seq(Row) /\ Len(rows) <= PageSize
      /\ offset < total => Len(rows) <= total - offset
      /\ total <= offset => Len(rows) = 0
  BY <1>1, <1>3, <1>5, <1>8
<1> QED
  BY <1>2, <1>9 DEF total

PageType == [rows : Seq(Row), offset : Nat, total : Nat, filter : 0..AnyFilter,
             byValue : BOOLEAN, descending : BOOLEAN]

\* Where a page may begin, and how much of it there is.
Fitting(p) ==
    /\ p.offset % PageSize = 0
    /\ p.offset # 0 => p.offset < p.total
    /\ Len(p.rows) <= p.total - p.offset
    /\ Len(p.rows) <= PageSize

LEMMA MultipleIsAligned ==
    ASSUME NEW k \in Nat
    PROVE  k * PageSize \in Nat /\ (k * PageSize) % PageSize = 0
  BY ResultsAssumption

LEMMA AlignedIsMultiple ==
    ASSUME NEW x \in Nat, x % PageSize = 0
    PROVE  \E k \in Nat : x = k * PageSize
<1>1. x \div PageSize \in Nat /\ x = (x \div PageSize) * PageSize + (x % PageSize)
  BY ResultsAssumption
<1>2. x = (x \div PageSize) * PageSize
  BY <1>1, ResultsAssumption
<1> QED
  BY <1>1, <1>2

LEMMA NeighboursAreAligned ==
    ASSUME NEW x \in Nat, x % PageSize = 0
    PROVE  /\ x + PageSize \in Nat /\ (x + PageSize) % PageSize = 0
           /\ x > PageSize =>
                x - PageSize \in Nat /\ (x - PageSize) % PageSize = 0
<1> USE ResultsAssumption
<1>1. PICK k \in Nat : x = k * PageSize
  BY AlignedIsMultiple
<1>2. x + PageSize = (k + 1) * PageSize
  BY <1>1
<1>3. x > PageSize => k - 1 \in Nat /\ x - PageSize = (k - 1) * PageSize
  BY <1>1
<1>4. (k + 1) * PageSize \in Nat /\ ((k + 1) * PageSize) % PageSize = 0
  BY MultipleIsAligned
<1>5. ASSUME x > PageSize
      PROVE  x - PageSize \in Nat /\ (x - PageSize) % PageSize = 0
  <2> DEFINE j == k - 1
  <2>1. j \in Nat /\ x - PageSize = j * PageSize
    BY <1>3, <1>5
  <2> HIDE DEF j
  <2> QED
    BY <2>1, MultipleIsAligned
<1> QED
  BY <1>2, <1>4, <1>5

LEMMA LastPageType ==
    ASSUME NEW total \in Nat
    PROVE  /\ LastPage(total) \in Nat /\ LastPage(total) % PageSize = 0
           /\ total # 0 => LastPage(total) < total
<1>1. CASE total = 0
  BY <1>1, ResultsAssumption DEF LastPage
<1>2. CASE total # 0
  <2> DEFINE k == (total - 1) \div PageSize
  <2>1. total - 1 \in Nat /\ PageSize \in Nat \ {0}
    BY <1>2, ResultsAssumption
  <2>2. k \in Nat /\ k * PageSize <= total - 1
    BY <2>1
  <2>3. LastPage(total) = k * PageSize
    BY <1>2 DEF LastPage
  <2> HIDE DEF k
  <2> QED
    BY <2>1, <2>2, <2>3, MultipleIsAligned
<1> QED
  BY <1>1, <1>2

\* Whatever page is asked for, the one loaded lies inside the results.
LEMMA LoadFits ==
    ASSUME NEW s, NEW p \in PageType, s.values \in Values,
           NEW offset \in Nat, offset % PageSize = 0
    PROVE  Load(s, p, offset) \in PageType /\ Fitting(Load(s, p, offset))
<1> DEFINE total == Total(s, p)
           kept == IF offset # 0 /\ offset >= total THEN LastPage(total) ELSE offset
           rows == Slice(s, p, kept)
<1>1. total \in Nat
  BY SliceType
<1>2. Load(s, p, offset) = [p EXCEPT !.rows = rows, !.offset = kept, !.total = total]
  BY DEF Load
<1>3. total = 0 => LastPage(total) = 0
  BY DEF LastPage
<1>4. kept \in Nat /\ kept % PageSize = 0 /\ (kept # 0 => kept < total)
  BY <1>1, <1>3, LastPageType
<1>5. /\ rows \in Seq(Row) /\ Len(rows) <= PageSize
      /\ kept < total => Len(rows) <= total - kept
      /\ total <= kept => Len(rows) = 0
  BY <1>4, SliceType
<1> HIDE DEF total, rows, kept
<1>6. Len(rows) <= total - kept
  BY <1>1, <1>4, <1>5
<1> DEFINE q == [rows |-> rows, offset |-> kept, total |-> total, filter |-> p.filter,
                 byValue |-> p.byValue, descending |-> p.descending]
<1>7. Load(s, p, offset) = q
  BY <1>2 DEF PageType
<1> QED
  BY <1>1, <1>4, <1>5, <1>6, <1>7 DEF PageType, Fitting
-----------------------------------------------------------------------------
(* The page, and what the scheduler is told of it.                         *)

\* What the queues carry.
Carried ==
    /\ visible \in Visible
    /\ tick \in [busy : BOOLEAN, session : 0..MaxSessions, values : Values]
    /\ calls \in Seq(Visible)
    /\ inbox \in Seq(Signal)
    /\ page \in PageType

LastCall == IF calls = <<>> THEN visible ELSE calls[Len(calls)]

\* The last thing the scheduler was told, heard or not, is the page.
LastWord ==
    Ready(session) => LastCall = [session |-> session.id, rows |-> Addresses(page)]

PInv == Carried /\ Fitting(page) /\ LastWord

LEMMA InitPInv == Init => PInv
<1> SUFFICES ASSUME Init PROVE PInv
  OBVIOUS
<1> USE ResultsAssumption DEF Init, None
<1>1. visible \in Visible /\ calls \in Seq(Visible) /\ inbox \in Seq(Signal)
  BY DEF Visible
<1>2. tick \in [busy : BOOLEAN, session : 0..MaxSessions, values : Values]
  BY EmptyValues DEF NoTick
<1>3. page \in PageType /\ Fitting(page)
  <2>1. <<>> \in Seq(Row) /\ Len(<<>>) = 0 /\ 0 % PageSize = 0 /\ AnyFilter \in 0..AnyFilter
    BY DEF AnyFilter
  <2> QED
    BY <2>1 DEF NoPage, PageType, Fitting
<1>4. LastWord
  BY DEF LastWord, Ready, NoSession
<1> QED
  BY <1>1, <1>2, <1>3, <1>4 DEF PInv, Carried

\* Steps that leave page, session and calls alone.
LEMMA ElsewhereKeepsPage ==
    ASSUME PInv, UNCHANGED <<session, visible, calls, page>>, inbox' \in Seq(Signal),
           tick' \in [busy : BOOLEAN, session : 0..MaxSessions, values : Values]
    PROVE  PInv'
  BY DEF PInv, Carried, Fitting, LastWord, LastCall, Ready, Addresses

\* A call becomes the last word.
LEMMA CallIsLast ==
    ASSUME calls \in Seq(Visible), NEW id \in 0..MaxSessions,
           NEW rows \in SUBSET Address, Call(id, rows)
    PROVE  /\ calls' \in Seq(Visible)
           /\ LastCall' = [session |-> id, rows |-> rows]
<1> DEFINE x == [session |-> id, rows |-> rows]
<1>1. calls' = Append(calls, x) /\ x \in Visible
  BY DEF Call, Visible
<1> HIDE DEF x
<1>2. /\ calls' \in Seq(Visible) /\ Len(calls') = Len(calls) + 1
      /\ calls' # <<>> /\ calls'[Len(calls')] = x
  BY <1>1
<1> QED
  BY <1>2 DEF LastCall, x

LEMMA AddressesType ==
    ASSUME NEW p, p.rows \in Seq(Row)
    PROVE  Addresses(p) \in SUBSET Address
<1>1. ASSUME NEW i \in DOMAIN p.rows
      PROVE  p.rows[i].address \in Address
  <2>1. p.rows \in [1..Len(p.rows) -> Row]
    OBVIOUS
  <2>2. p.rows[i] \in Row
    BY <2>1
  <2> QED
    BY <2>2 DEF Row
<1> QED
  BY <1>1 DEF Addresses

\* _set_page leaves a page the scheduler was told of.
LEMMA SetPageKeeps ==
    ASSUME PInv, NEW s, session' = s, s.id \in 0..MaxSessions,
           Ready(s) => s.id # None,
           NEW p \in PageType, Fitting(p), SetPage(s, p),
           inbox' \in Seq(Signal), UNCHANGED <<visible, tick>>
    PROVE  PInv'
<1>1. page' = p /\ SetVisible(s, p)
  BY DEF SetPage
<1>2. calls' \in Seq(Visible) /\ LastWord'
  <2>1. CASE s.id = None
    BY <1>1, <2>1 DEF SetVisible, PInv, Carried, LastWord
  <2>2. CASE s.id # None
    <3>1. Call(s.id, Addresses(p))
      BY <1>1, <2>2 DEF SetVisible
    <3>2. Addresses(p) \in SUBSET Address
      BY AddressesType DEF PageType
    <3>3. calls' \in Seq(Visible) /\ LastCall' = [session |-> s.id, rows |-> Addresses(p)]
      BY <3>1, <3>2, CallIsLast DEF PInv, Carried
    <3> QED
      BY <1>1, <3>3 DEF LastWord, Addresses
  <2> QED
    BY <2>1, <2>2
<1> QED
  BY <1>1, <1>2 DEF PInv, Carried, Fitting

\* A page is loaded again.
LEMMA LoadKeeps ==
    ASSUME IInv, PInv, NEW p \in PageType, NEW offset \in Nat, offset % PageSize = 0,
           SetPage(session, Load(session, p, offset)),
           UNCHANGED <<session, visible, tick, inbox>>
    PROVE  PInv'
<1> DEFINE q == Load(session, p, offset)
<1>1. q \in PageType /\ Fitting(q)
  BY LoadFits DEF IInv, Typed
<1> HIDE DEF q
<1>2. session.id \in 0..MaxSessions /\ (Ready(session) => session.id # None)
  BY DEF IInv, Typed, Begun, Ready
<1>3. SetPage(session, q) /\ inbox' \in Seq(Signal)
  BY DEF q, PInv, Carried
<1> QED
  BY <1>1, <1>2, <1>3, SetPageKeeps

LEMMA TurnKeeps ==
    ASSUME IInv, PInv,
           NextPage \/ PreviousPage \/ \E n \in 0..MaxPage : GoToPage(n)
    PROVE  PInv'
<1> USE ResultsAssumption
<1>1. page \in PageType /\ page.offset \in Nat /\ page.offset % PageSize = 0
      /\ page.total \in Nat
  BY DEF PInv, Carried, PageType, Fitting
<1>2. 0 \in Nat /\ 0 % PageSize = 0
  OBVIOUS
<1>3. ASSUME NEW offset \in Nat, offset % PageSize = 0, Turn(offset)
      PROVE  PInv'
  BY <1>1, <1>3, LoadKeeps DEF Turn
<1>4. CASE NextPage
  <2> DEFINE o == page.offset + PageSize
  <2>1. o \in Nat /\ o % PageSize = 0
    BY <1>1, NeighboursAreAligned
  <2>2. Turn(o)
    BY <1>4 DEF NextPage
  <2> HIDE DEF o
  <2> QED
    BY <1>3, <2>1, <2>2
<1>5. CASE PreviousPage
  <2> DEFINE o == IF page.offset > PageSize THEN page.offset - PageSize ELSE 0
  <2>1. o \in Nat /\ o % PageSize = 0
    BY <1>1, <1>2, NeighboursAreAligned
  <2>2. Turn(o)
    BY <1>5 DEF PreviousPage
  <2> HIDE DEF o
  <2> QED
    BY <1>3, <2>1, <2>2
<1>6. ASSUME NEW n \in 0..MaxPage, GoToPage(n)
      PROVE  PInv'
  <2> DEFINE target == IF n = 0 THEN 0 ELSE (n - 1) * PageSize
             last == LastPage(page.total)
             o == IF page.total # 0 /\ target > last THEN last ELSE target
  <2>1. target \in Nat /\ target % PageSize = 0
    <3>1. CASE n = 0
      BY <1>2, <3>1
    <3>2. CASE n # 0
      <4> DEFINE k == n - 1
      <4>1. k \in Nat /\ target = k * PageSize
        BY <3>2
      <4> HIDE DEF k, target
      <4> QED
        BY <4>1, MultipleIsAligned
    <3> QED
      BY <3>1, <3>2
  <2>2. last \in Nat /\ last % PageSize = 0
    BY <1>1, LastPageType
  <2>3. Turn(o)
    BY <1>6 DEF GoToPage
  <2> HIDE DEF target, last
  <2>4. o \in Nat /\ o % PageSize = 0
    BY <2>1, <2>2
  <2> HIDE DEF o
  <2> QED
    BY <1>3, <2>3, <2>4
<1> QED
  BY <1>4, <1>5, <1>6
LEMMA FilterKeeps ==
    ASSUME IInv, PInv, NEW value \in Value \cup {AnyFilter}, SetFilter(value)
    PROVE  PInv'
<1> USE ResultsAssumption
<1> DEFINE p == [page EXCEPT !.filter = value]
<1>1. p \in PageType
  <2>1. value \in 0..AnyFilter
    BY DEF Value, AnyFilter
  <2> QED
    BY <2>1 DEF PInv, Carried, PageType
<1>2. SetPage(session, Load(session, p, 0)) /\ UNCHANGED <<session, visible, tick, inbox>>
  BY DEF SetFilter
<1> HIDE DEF p
<1> QED
  BY <1>1, <1>2, LoadKeeps

LEMMA OrderKeeps ==
    ASSUME IInv, PInv, NEW order \in Orders, SetOrder(order)
    PROVE  PInv'
<1> USE ResultsAssumption
<1> DEFINE p == [page EXCEPT !.byValue = order[1], !.descending = order[2]]
<1>1. order[1] \in BOOLEAN /\ order[2] \in BOOLEAN
  OBVIOUS
<1>2. p \in PageType
  BY <1>1 DEF PInv, Carried, PageType
<1>3. SetPage(session, Load(session, p, 0)) /\ UNCHANGED <<session, visible, tick, inbox>>
  BY DEF SetOrder
<1> HIDE DEF p
<1> QED
  BY <1>2, <1>3, LoadKeeps

LEMMA EditKeeps ==
    ASSUME IInv, PInv, NEW a \in Address, EditResult(a)
    PROVE  PInv'
<1>1. page \in PageType /\ page.offset \in Nat /\ page.offset % PageSize = 0
  BY DEF PInv, Carried, PageType, Fitting
<1>2. /\ SetPage(session, Load(session, page, page.offset))
      /\ UNCHANGED <<session, visible, tick, inbox>>
  BY DEF EditResult
<1> DEFINE o == page.offset
<1>3. o \in Nat /\ o % PageSize = 0 /\ SetPage(session, Load(session, page, o))
  BY <1>1, <1>2
<1> HIDE DEF o
<1> QED
  BY <1>1, <1>2, <1>3, LoadKeeps

\* A page that lost a row has one row less of the same results.
LEMMA RemoveKeeps ==
    ASSUME IInv, PInv, NEW i \in DOMAIN page.rows, RemoveRow(i)
    PROVE  PInv'
<1> USE ResultsAssumption
<1> DEFINE rows == RemoveAt(page.rows, i)
           p == [page EXCEPT !.rows = rows]
<1>1. page \in PageType /\ Fitting(page)
  BY DEF PInv, Carried
<1>2. page.rows \in Seq(Row) /\ page.offset \in Nat /\ page.total \in Nat
  BY <1>1 DEF PageType
<1>3. rows \in Seq(Row) /\ Len(rows) = Len(page.rows) - 1
  <2>1. i \in 1..Len(page.rows) /\ Len(page.rows) \in Nat
    BY <1>2
  <2> DEFINE before == SubSeq(page.rows, 1, i - 1)
             after == SubSeq(page.rows, i + 1, Len(page.rows))
  <2>2. before \in Seq(Row) /\ Len(before) = i - 1
    BY <1>2, <2>1
  <2>3. after \in Seq(Row) /\ Len(after) = Len(page.rows) - i
    BY <1>2, <2>1
  <2>4. rows = before \o after
    BY DEF RemoveAt
  <2> HIDE DEF before, after, rows
  <2>5. before \o after \in Seq(Row) /\ Len(before \o after) = Len(before) + Len(after)
    BY <2>2, <2>3
  <2> QED
    BY <2>1, <2>2, <2>3, <2>4, <2>5
<1> HIDE DEF rows
<1>4. p \in PageType /\ p.rows = rows /\ p.offset = page.offset /\ p.total = page.total
  BY <1>1, <1>3 DEF PageType
<1>5. SetPage(session, p) /\ UNCHANGED <<session, visible, tick, inbox>>
  BY DEF RemoveRow, rows
<1> HIDE DEF p
<1>6. Len(page.rows) \in Nat
  BY <1>2
<1>7. Fitting(p)
  BY <1>1, <1>2, <1>3, <1>4, <1>6 DEF Fitting
<1>8. /\ session' = session /\ inbox' \in Seq(Signal)
      /\ session.id \in 0..MaxSessions /\ (Ready(session) => session.id # None)
  BY <1>5 DEF IInv, Typed, Begun, Ready, PInv, Carried
<1> QED
  BY <1>4, <1>5, <1>7, <1>8, SetPageKeeps

\* While no scan is finished nothing need have been said of the page.
LEMMA StartKeepsPage ==
    ASSUME IInv, PInv, NEW req \in Request, StartScan(req) \/ RefineScan(req)
    PROVE  PInv'
<1> USE ResultsAssumption DEF IInv, PInv, Carried
<1>1. UNCHANGED <<visible, tick, inbox, page>>
  BY DEF StartScan, RefineScan
<1>2. ~Ready(session')
  BY DEF StartScan, RefineScan, Ready, NoSession, Typed
<1>3. calls' \in Seq(Visible)
  <2>1. PICK id \in 0..MaxSessions : Call(id, {})
    <3>1. CASE StartScan(req)
      <4>1. Call(started + 1, {}) /\ started + 1 \in 0..MaxSessions
        BY <3>1 DEF StartScan, Typed
      <4> QED
        BY <4>1
    <3>2. CASE RefineScan(req)
      BY <3>2 DEF RefineScan, Typed
    <3> QED
      BY <3>1, <3>2
  <2> QED
    BY <2>1, CallIsLast
<1> QED
  BY <1>1, <1>2, <1>3 DEF LastWord, Ready, Fitting

LEMMA ResetKeepsPage ==
    ASSUME IInv, PInv, ResetScan
    PROVE  PInv'
<1> USE ResultsAssumption DEF IInv, PInv, Carried, None
<1>1. /\ session' = NoSession /\ Call(0, {}) /\ page' = Cleared(page)
      /\ UNCHANGED <<visible, tick, inbox>>
  BY DEF ResetScan
<1>2. calls' \in Seq(Visible)
  BY <1>1, CallIsLast
<1>3. ~Ready(session')
  BY <1>1 DEF Ready, NoSession
<1>4. page' \in PageType /\ Fitting(page')
  <2>1. <<>> \in Seq(Row) /\ Len(<<>>) = 0 /\ 0 % PageSize = 0
    OBVIOUS
  <2>2. page' = [page EXCEPT !.rows = <<>>, !.offset = 0, !.total = 0]
    BY <1>1 DEF Cleared
  <2>3. page' = [rows |-> <<>>, offset |-> 0, total |-> 0, filter |-> page.filter,
                 byValue |-> page.byValue, descending |-> page.descending]
    BY <2>2 DEF PageType
  <2>4. page' \in PageType
    BY <2>1, <2>3 DEF PageType
  <2>5. page'.rows = <<>> /\ page'.offset = 0 /\ page'.total = 0
    BY <2>3
  <2> QED
    BY <2>1, <2>4, <2>5 DEF Fitting
<1> QED
  BY <1>1, <1>2, <1>3, <1>4 DEF LastWord, Ready, Fitting

LEMMA SignalTaken ==
    ASSUME PInv, NEW type, Receive(type)
    PROVE  inbox' \in Seq(Signal) /\ Head(inbox) \in Signal
  BY DEF PInv, Carried, Receive

LEMMA OnCompletedKeepsPage ==
    ASSUME IInv, PInv, OnCompleted
    PROVE  PInv'
<1> DEFINE found == Head(inbox).values
           s == [session EXCEPT
                   !.state = "ready", !.values = found,
                   !.previous = IF session.scans = 1 THEN Empty
                                ELSE [a \in DOMAIN found |-> session.values[a]]]
           q == Load(s, page, 0)
<1>1. /\ Receive("completed") /\ session' = s /\ SetPage(s, q)
      /\ UNCHANGED <<visible, tick>>
  BY DEF OnCompleted
<1>2. inbox' \in Seq(Signal) /\ found \in Values
  BY <1>1, SignalTaken DEF Signal
<1>3. session.id # None
  <2>1. 1 \in 1..Len(inbox) /\ inbox[1].type = "completed"
    BY <1>1, Received
  <2> QED
    BY <2>1 DEF IInv, OneScan
<1>4. s.id = session.id /\ s.values = found
  BY DEF IInv, Typed
<1>5. s.id \in 0..MaxSessions /\ s.id # None
  BY <1>3, <1>4 DEF IInv, Typed
<1> HIDE DEF s
<1>6. 0 \in Nat /\ 0 % PageSize = 0 /\ page \in PageType
  BY ResultsAssumption DEF PInv, Carried
<1>7. q \in PageType /\ Fitting(q)
  BY <1>2, <1>4, <1>6, LoadFits
<1> HIDE DEF q
<1> QED
  BY <1>1, <1>2, <1>5, <1>7, SetPageKeeps

LEMMA OnFailedKeepsPage ==
    ASSUME IInv, PInv, OnFailed
    PROVE  PInv'
<1>1. /\ Receive("failed") /\ session' = [session EXCEPT !.state = "failed"]
      /\ UNCHANGED <<visible, tick, calls, page>>
  BY DEF OnFailed
<1>2. inbox' \in Seq(Signal)
  BY <1>1, SignalTaken
<1>3. ~Ready(session')
  BY <1>1 DEF Ready, IInv, Typed
<1> QED
  BY <1>1, <1>2, <1>3 DEF PInv, Carried, Fitting, LastWord, Ready

\* Rows that are refreshed stay at their addresses.
LEMMA ShownType ==
    ASSUME NEW rows \in Seq(Row), NEW updates \in Values
    PROVE  LET new == Shown(rows, updates)
           IN  /\ new \in Seq(Row) /\ Len(new) = Len(rows) /\ DOMAIN new = DOMAIN rows
               /\ \A i \in DOMAIN rows : new[i].address = rows[i].address
<1> DEFINE new == Shown(rows, updates)
<1>1. Len(rows) \in Nat /\ DOMAIN rows = 1..Len(rows) /\ rows \in [1..Len(rows) -> Row]
  OBVIOUS
<1>2. DOMAIN new = 1..Len(rows)
  BY <1>1 DEF Shown
<1>3. ASSUME NEW i \in 1..Len(rows)
      PROVE  new[i] \in Row /\ new[i].address = rows[i].address
  <2>1. rows[i] \in Row
    BY <1>1
  <2>2. CASE rows[i].address \in DOMAIN updates
    <3>1. new[i] = [rows[i] EXCEPT !.current = updates[rows[i].address]]
      BY <1>1, <2>2 DEF Shown
    <3>2. updates[rows[i].address] \in Value
      BY <2>2, ValuesElim
    <3> QED
      BY <2>1, <3>1, <3>2 DEF Row
  <2>3. CASE rows[i].address \notin DOMAIN updates
    <3>1. new[i] = rows[i]
      BY <1>1, <2>3 DEF Shown
    <3> QED
      BY <2>1, <3>1
  <2> QED
    BY <2>2, <2>3
<1>4. new = [i \in 1..Len(rows) |-> new[i]]
  BY <1>1 DEF Shown
<1> HIDE DEF new
<1>5. new \in [1..Len(rows) -> Row]
  BY <1>3, <1>4
<1>6. new \in Seq(Row) /\ Len(new) = Len(rows)
  BY <1>1, <1>5
<1> QED
  BY <1>1, <1>2, <1>3, <1>6 DEF new

LEMMA OnRowsKeepsPage ==
    ASSUME IInv, PInv, OnRows
    PROVE  PInv'
<1> DEFINE updates == Head(inbox).values
           rows == Shown(page.rows, updates)
<1>1. /\ Receive("rows") /\ page' = [page EXCEPT !.rows = rows]
      /\ session' = [session EXCEPT !.values = Updated(session, Head(inbox))]
      /\ UNCHANGED <<visible, tick, calls>>
  BY DEF OnRows
<1>2. inbox' \in Seq(Signal) /\ updates \in Values
  BY <1>1, SignalTaken DEF Signal
<1>3. page \in PageType /\ page.rows \in Seq(Row)
  BY DEF PInv, Carried, PageType
<1>4. /\ rows \in Seq(Row) /\ Len(rows) = Len(page.rows) /\ DOMAIN rows = DOMAIN page.rows
      /\ \A i \in DOMAIN page.rows : rows[i].address = page.rows[i].address
  BY <1>2, <1>3, ShownType
<1> HIDE DEF rows
<1>5. /\ page' \in PageType /\ page'.rows = rows /\ page'.offset = page.offset
      /\ page'.total = page.total
  BY <1>1, <1>3, <1>4 DEF PageType
<1>6. Addresses(page') = Addresses(page)
  BY <1>4, <1>5 DEF Addresses
<1>7. session'.id = session.id /\ session'.state = session.state
  BY <1>1 DEF IInv, Typed
<1>8. Fitting(page')
  BY <1>4, <1>5 DEF PInv, Fitting
<1>9. LastWord'
  BY <1>1, <1>6, <1>7 DEF PInv, LastWord, LastCall, Ready
<1> QED
  BY <1>1, <1>2, <1>5, <1>8, <1>9 DEF PInv, Carried, Fitting

\* The scheduler takes the first call; the last stays the last.
LEMMA SetVisibleRowsKeepsPage ==
    ASSUME PInv, SetVisibleRows
    PROVE  PInv'
<1>1. /\ calls # <<>> /\ visible' = Head(calls) /\ calls' = Tail(calls)
      /\ UNCHANGED <<session, tick, inbox, page>>
  BY DEF SetVisibleRows
<1>2. calls \in Seq(Visible)
  BY DEF PInv, Carried
<1>3. /\ calls' \in Seq(Visible) /\ visible' \in Visible /\ Len(calls) \in Nat \ {0}
      /\ Len(calls') = Len(calls) - 1
      /\ \A i \in 1..Len(calls') : calls'[i] = calls[i + 1]
      /\ visible' = calls[1]
  BY <1>1, <1>2
<1>4. LastCall' = LastCall
  <2>1. CASE calls' = <<>>
    <3>1. Len(calls) = 1
      BY <1>3, <2>1
    <3> QED
      BY <1>1, <1>3, <2>1, <3>1 DEF LastCall
  <2>2. CASE calls' # <<>>
    <3>1. Len(calls') \in 1..Len(calls') /\ Len(calls') + 1 = Len(calls)
      BY <1>3, <2>2
    <3>2. calls'[Len(calls')] = calls[Len(calls)]
      BY <1>3, <3>1
    <3> QED
      BY <1>1, <2>2, <3>2 DEF LastCall
  <2> QED
    BY <2>1, <2>2
<1> QED
  BY <1>1, <1>3, <1>4 DEF PInv, Carried, Fitting, LastWord, Ready, Addresses

LEMMA WorkerKeepsPage ==
    ASSUME IInv, PInv, WorkerBegins \/ WorkerReads \/ WorkerGivesUp
    PROVE  PInv'
<1> USE DEF IInv, PInv, Carried
<1>1. UNCHANGED <<session, visible, calls, page, tick>>
  BY DEF WorkerBegins, WorkerReads, WorkerGivesUp, Answer
<1>2. ASSUME NEW type \in {"completed", "failed"}, NEW values \in Values,
             Answer(type, values)
      PROVE  inbox' \in Seq(Signal)
  <2> DEFINE x == [type |-> type, session |-> session.id, values |-> values]
  <2>1. x \in Signal /\ inbox' = Append(inbox, x)
    BY <1>2 DEF Answer, Signal, Typed
  <2> HIDE DEF x
  <2> QED
    BY <2>1
<1>3. inbox' \in Seq(Signal)
  <2>1. CASE WorkerBegins
    BY <2>1 DEF WorkerBegins
  <2>2. CASE WorkerReads
    <3> DEFINE found == {b \in job.from : Matches(b)}
               v == [a \in found |-> memory[a]]
    <3>1. Answer("completed", v)
      BY <2>2 DEF WorkerReads
    <3>2. found \in SUBSET Address
      BY DEF Typed
    <3> HIDE DEF found
    <3>3. v \in Values
      BY <3>2, ValuesIntro DEF Typed
    <3> HIDE DEF v
    <3> QED
      BY <1>2, <3>1, <3>3
  <2>3. CASE WorkerGivesUp
    BY <1>2, <2>3, EmptyValues DEF WorkerGivesUp
  <2> QED
    BY <2>1, <2>2, <2>3
<1> QED
  BY <1>1, <1>3, ElsewhereKeepsPage

LEMMA TickKeepsPage ==
    ASSUME IInv, PInv, TickReads \/ TickEmits
    PROVE  PInv'
<1> USE DEF PInv, Carried
<1>1. UNCHANGED <<session, visible, calls, page>>
  BY DEF TickReads, TickEmits
<1>2. CASE TickReads
  <2> DEFINE v == [a \in visible.rows |-> memory[a]]
  <2>1. visible.rows \in SUBSET Address /\ visible.session \in 0..MaxSessions
    BY DEF Visible
  <2>2. v \in Values
    BY <2>1, ValuesIntro DEF IInv, Typed
  <2>3. tick' = [busy |-> TRUE, session |-> visible.session, values |-> v]
        /\ inbox' = inbox
    BY <1>2 DEF TickReads
  <2> HIDE DEF v
  <2> QED
    BY <1>1, <2>1, <2>2, <2>3, ElsewhereKeepsPage
<1>3. CASE TickEmits
  <2> DEFINE x == [type |-> "rows", session |-> tick.session, values |-> tick.values]
  <2>1. x \in Signal /\ inbox' = Append(inbox, x) /\ tick' = NoTick
    BY <1>3 DEF TickEmits, Signal
  <2>2. NoTick \in [busy : BOOLEAN, session : 0..MaxSessions, values : Values]
    BY EmptyValues, ResultsAssumption DEF NoTick, None
  <2> HIDE DEF x
  <2>3. inbox' \in Seq(Signal)
    BY <2>1
  <2> QED
    BY <1>1, <2>1, <2>2, <2>3, ElsewhereKeepsPage
<1> QED
  BY <1>2, <1>3

LEMMA NextPInv == IInv /\ PInv /\ [Next]_vars => PInv'
<1> SUFFICES ASSUME IInv, PInv, [Next]_vars PROVE PInv'
  OBVIOUS
<1>1. ASSUME UNCHANGED vars \/ \E a \in Address : ProgramWrites(a)
      PROVE  PInv'
  <2>1. UNCHANGED <<session, visible, calls, page, tick, inbox>>
    BY <1>1 DEF vars, ProgramWrites
  <2> QED
    BY <2>1, ElsewhereKeepsPage DEF PInv, Carried
<1> QED
  BY <1>1, TurnKeeps, FilterKeeps, OrderKeeps, EditKeeps, RemoveKeeps, StartKeepsPage,
     ResetKeepsPage, OnCompletedKeepsPage, OnFailedKeepsPage, OnRowsKeepsPage,
     SetVisibleRowsKeepsPage, WorkerKeepsPage, TickKeepsPage DEF Next

-----------------------------------------------------------------------------

\* For any number of sessions, scans, pages, ticks and waiting signals: every
\* value a session holds, shows as previous or refines with was read after the
\* session began, however late the rows of the session before come.
THEOREM ValuesAreOwn == Spec => []ValuesOfOwnSession
<1>1. Init => IInv
  BY InitIInv
<1>2. IInv => ValuesOfOwnSession
  BY DEF IInv
<1> QED
  BY <1>1, <1>2, NextIInv, PTL DEF Spec

LEMMA BothInvariants == Spec => [](IInv /\ PInv)
<1>1. Init => IInv /\ PInv
  BY InitIInv, InitPInv
<1>2. (IInv /\ PInv) /\ [Next]_vars => (IInv /\ PInv)'
  BY NextIInv, NextPInv
<1> QED
  BY <1>1, <1>2, PTL DEF Spec

\* The state of the session, the scan in progress, the scheduler, both queues
\* and the page stays of its type, for any data and any length of the queues.
THEOREM TypesKept == Spec => []TypeOK
<1>1. IInv /\ PInv => TypeOK
  BY DEF IInv, Typed, PInv, Carried, PageType, TypeOK
<1> QED
  BY <1>1, BothInvariants, PTL

\* For any page size and any shrinking of the results: a page begins at a
\* multiple of its size and inside the results it was taken from.
THEOREM PagesFit == Spec => []PageInsideResults
<1>1. PInv => PageInsideResults
  BY DEF PInv, Fitting, PageInsideResults
<1> QED
  BY <1>1, BothInvariants, PTL

\* Once the scheduler has heard every call it refreshes the rows on the page,
\* for their session, however many scans, pages and removals preceded.
THEOREM SchedulerFollows == Spec => []RefreshFollowsPage
<1>1. PInv => RefreshFollowsPage
  BY DEF PInv, LastWord, LastCall, RefreshFollowsPage
<1> QED
  BY <1>1, BothInvariants, PTL
=============================================================================
