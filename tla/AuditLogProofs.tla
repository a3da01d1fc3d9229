--------------------------- MODULE AuditLogProofs ---------------------------
(***************************************************************************)
(* What each operation of the audit service leaves behind, for any size of *)
(* the file, window, number of runs and of writes.                         *)
(***************************************************************************)
EXTENDS AuditLog, TLAPS

\* No record is of a later run than the present one.
RunsPast(a) == \A i \in 1..Len(TrailOf(a)) : TrailOf(a)[i].run <= a.run
Accounted(a) == a.made = a.told + a.pending + a.lost
Good(a) == a \in AuditState /\ RunsPast(a)

\* The step of AuditTrail from s to t with up to n new records.
Follows(s, t, n) ==
    \E dropped \in 0..Len(s) :
        LET kept == Len(s) - dropped
        IN  /\ t \in Seq(Entry)
            /\ Len(t) \in kept..(kept + n)
            /\ \A i \in 1..kept : t[i] = s[dropped + i]
            /\ dropped > 0 => Len(t) >= RotateAt

-----------------------------------------------------------------------------

\* The fields that an operation is typed by.
LEMMA StateFields ==
    ASSUME NEW a, a \in AuditState
    PROVE  /\ a.older \in Seq(Entry) /\ a.current \in Seq(Entry)
           /\ a.pending \in 0..MaxWrites /\ a.window \in 0..Closed
           /\ a.run \in 1..MaxRuns /\ a.gap \in BOOLEAN
           /\ a.made \in 0..MaxWrites /\ a.told \in 0..MaxWrites
           /\ a.lost \in 0..MaxWrites
  BY DEF AuditState

\* The window of a counter that has no writes, and the empty counter.
LEMMA ClosedType == Closed \in 0..Closed /\ 0 \in 0..MaxWrites
  BY AuditAssumption DEF Closed

\* Records are of a run.
LEMMA EntryRun == \A e \in Entry : e.run \in 1..MaxRuns
  BY DEF Entry

\* The two files, one after the other.
LEMMA TrailFacts ==
    ASSUME NEW s \in Seq(Entry), NEW t \in Seq(Entry)
    PROVE  /\ s \o t \in Seq(Entry)
           /\ Len(s \o t) = Len(s) + Len(t)
           /\ \A i \in 1..Len(s) : (s \o t)[i] = s[i]
           /\ \A i \in 1..Len(t) : (s \o t)[Len(s) + i] = t[i]
  OBVIOUS

\* A service that stays as it is, or only counts, follows itself.
LEMMA FollowsSelf ==
    ASSUME NEW s \in Seq(Entry), NEW n \in Nat
    PROVE  Follows(s, s, n)
<1>1. 0 \in 0..Len(s) /\ Len(s) \in (Len(s) - 0)..(Len(s) - 0 + n)
  OBVIOUS
<1> QED
  BY <1>1 DEF Follows

\* What adds no record adds at most one.
LEMMA FollowsMore ==
    ASSUME NEW s \in Seq(Entry), NEW t, Follows(s, t, 0)
    PROVE  Follows(s, t, 1)
<1>1. PICK d \in 0..Len(s) :
        /\ t \in Seq(Entry)
        /\ Len(t) \in (Len(s) - d)..(Len(s) - d + 0)
        /\ \A i \in 1..(Len(s) - d) : t[i] = s[d + i]
        /\ d > 0 => Len(t) >= RotateAt
  BY DEF Follows
<1>2. Len(t) \in (Len(s) - d)..(Len(s) - d + 1)
  BY <1>1
<1> QED
  BY <1>1, <1>2 DEF Follows

\* One step after another.
LEMMA FollowsThen ==
    ASSUME NEW s \in Seq(Entry), NEW t, NEW u, NEW n \in Nat, NEW m \in Nat,
           Follows(s, t, n), Follows(t, u, m)
    PROVE  Follows(s, u, n + m)
<1>1. PICK d \in 0..Len(s) :
        /\ t \in Seq(Entry)
        /\ Len(t) \in (Len(s) - d)..(Len(s) - d + n)
        /\ \A i \in 1..(Len(s) - d) : t[i] = s[d + i]
        /\ d > 0 => Len(t) >= RotateAt
  BY DEF Follows
<1>2. PICK f \in 0..Len(t) :
        /\ u \in Seq(Entry)
        /\ Len(u) \in (Len(t) - f)..(Len(t) - f + m)
        /\ \A i \in 1..(Len(t) - f) : u[i] = t[f + i]
        /\ f > 0 => Len(u) >= RotateAt
  BY DEF Follows
<1> DEFINE e == IF d + f <= Len(s) THEN d + f ELSE Len(s)
           kept == Len(s) - e
<1>3. Len(s) \in Nat /\ Len(t) \in Nat /\ Len(u) \in Nat
  BY <1>1, <1>2
<1>4. e \in 0..Len(s) /\ Len(u) \in kept..(kept + (n + m))
  BY <1>1, <1>2, <1>3
<1>5. ASSUME NEW i \in 1..kept
      PROVE  u[i] = s[e + i]
  <2>1. d + f <= Len(s) /\ e = d + f
    BY <1>1, <1>2, <1>3
  <2>2. i \in 1..(Len(t) - f) /\ f + i \in 1..(Len(s) - d)
    BY <1>1, <1>2, <1>3, <2>1
  <2>3. u[i] = t[f + i] /\ t[f + i] = s[d + (f + i)]
    BY <1>1, <1>2, <2>2
  <2> QED
    BY <1>1, <1>2, <2>1, <2>3
<1>6. e > 0 => Len(u) >= RotateAt
  BY <1>1, <1>2, <1>3, AuditAssumption
<1> QED
  BY <1>2, <1>4, <1>5, <1>6 DEF Follows

-----------------------------------------------------------------------------

\* Moving the file only forgets what was in the older one, and a full file is
\* left behind it.
LEMMA RotatedKeeps ==
    ASSUME NEW a, Good(a)
    PROVE  /\ Good(Rotated(a)) /\ Follows(TrailOf(a), TrailOf(Rotated(a)), 0)
           /\ Rotated(a).run = a.run /\ Rotated(a).gap = a.gap
           /\ Rotated(a).pending = a.pending /\ Rotated(a).window = a.window
           /\ Rotated(a).made = a.made /\ Rotated(a).told = a.told
           /\ Rotated(a).lost = a.lost
<1> USE AuditAssumption
<1>1. CASE ~Full(a)
  <2>1. Rotated(a) = a
    BY <1>1 DEF Rotated
  <2>2. TrailOf(a) \in Seq(Entry)
    BY StateFields, TrailFacts DEF TrailOf, Good
  <2> QED
    BY <2>1, <2>2, FollowsSelf
<1>2. CASE Full(a)
  <2> DEFINE r == Rotated(a)
             d == Len(a.older)
  <2>1. r = [a EXCEPT !.older = a.current, !.current = <<>>]
    BY <1>2 DEF Rotated, Moved
  <2> HIDE DEF r, d
  <2>2. /\ a \in AuditState /\ a.older \in Seq(Entry) /\ a.current \in Seq(Entry)
        /\ a.run \in 1..MaxRuns
    BY StateFields DEF Good
  <2>3. r \in AuditState
    <3>1. <<>> \in Seq(Entry)
      OBVIOUS
    <3> QED
      BY <3>1, <2>1, <2>2 DEF AuditState, Good
  <2>4. /\ r.older = a.current /\ r.current = <<>> /\ r.run = a.run /\ r.gap = a.gap
        /\ r.pending = a.pending /\ r.window = a.window /\ r.made = a.made
        /\ r.told = a.told /\ r.lost = a.lost
    BY <2>1, <2>2 DEF AuditState
  <2>5. TrailOf(r) = a.current
    BY <2>2, <2>4 DEF TrailOf
  <2>6. /\ TrailOf(a) \in Seq(Entry) /\ Len(TrailOf(a)) = d + Len(a.current)
        /\ \A i \in 1..Len(a.current) : TrailOf(a)[d + i] = a.current[i]
    BY <2>2, TrailFacts DEF TrailOf, d
  <2>7. d \in Nat /\ Len(a.current) \in Nat /\ Len(a.current) >= RotateAt
    BY <1>2, <2>2 DEF Full, d
  <2>8. RunsPast(r)
    <3> SUFFICES ASSUME NEW i \in 1..Len(TrailOf(r))
                 PROVE  TrailOf(r)[i].run <= r.run
      BY DEF RunsPast
    <3>0. i \in 1..Len(a.current)
      BY <2>5
    <3>1. TrailOf(r)[i] = TrailOf(a)[d + i] /\ d + i \in 1..Len(TrailOf(a))
      <4>1. TrailOf(r)[i] = a.current[i]
        BY <2>5
      <4>2. TrailOf(a)[d + i] = a.current[i]
        BY <3>0, <2>6
      <4> QED
        BY <3>0, <4>1, <4>2, <2>6, <2>7
    <3> QED
      BY <3>1, <2>4 DEF Good, RunsPast
  <2>9. Follows(TrailOf(a), TrailOf(r), 0)
    <3>1. d \in 0..Len(TrailOf(a)) /\ Len(TrailOf(a)) - d = Len(a.current)
      BY <2>6, <2>7
    <3>2. Len(a.current) \in (Len(TrailOf(a)) - d)..(Len(TrailOf(a)) - d + 0)
      BY <3>1, <2>7
    <3> QED
      BY <3>1, <3>2, <2>2, <2>5, <2>6, <2>7 DEF Follows
  <2> QED
    BY <2>3, <2>4, <2>8, <2>9 DEF Good, r
<1> QED
  BY <1>1, <1>2

\* An append puts one record of this run at the end.
LEMMA WrittenKeeps ==
    ASSUME NEW a, Good(a), NEW e \in Entry, e.run = a.run
    PROVE  /\ Good(Written(a, e)) /\ Follows(TrailOf(a), TrailOf(Written(a, e)), 1)
           /\ Len(TrailOf(Written(a, e))) > 0
           /\ TrailOf(Written(a, e))[Len(TrailOf(Written(a, e)))] = e
           /\ Written(a, e).run = a.run /\ Written(a, e).gap = a.gap
           /\ Written(a, e).pending = a.pending /\ Written(a, e).window = a.window
           /\ Written(a, e).made = a.made /\ Written(a, e).told = a.told
           /\ Written(a, e).lost = a.lost
<1> DEFINE r == Rotated(a)
           w == Written(a, e)
           n == Len(TrailOf(r))
<1> HIDE DEF r
<1>1. /\ Good(r) /\ Follows(TrailOf(a), TrailOf(r), 0) /\ r.run = a.run /\ r.gap = a.gap
      /\ r.pending = a.pending /\ r.window = a.window /\ r.made = a.made
      /\ r.told = a.told /\ r.lost = a.lost
  BY RotatedKeeps DEF r
<1>2. /\ r \in AuditState /\ r.older \in Seq(Entry) /\ r.current \in Seq(Entry)
      /\ r.run \in 1..MaxRuns
  BY <1>1, StateFields DEF Good
<1>3. w = [r EXCEPT !.current = Append(r.current, e)]
  BY DEF Written, r
<1>4. Append(r.current, e) \in Seq(Entry)
  BY <1>2
<1>5. w \in AuditState
  BY <1>2, <1>3, <1>4 DEF AuditState
<1>6. /\ w.older = r.older /\ w.current = Append(r.current, e) /\ w.run = a.run
      /\ w.gap = a.gap /\ w.pending = a.pending /\ w.window = a.window
      /\ w.made = a.made /\ w.told = a.told /\ w.lost = a.lost
  BY <1>1, <1>2, <1>3 DEF AuditState
<1>7. /\ TrailOf(r) \in Seq(Entry) /\ n \in Nat /\ TrailOf(w) \in Seq(Entry)
      /\ Len(TrailOf(w)) = n + 1 /\ TrailOf(w)[n + 1] = e
      /\ \A i \in 1..n : TrailOf(w)[i] = TrailOf(r)[i]
  <2> DEFINE k == Len(r.older)
             m == Len(r.current)
  <2>1. k \in Nat /\ m \in Nat /\ w.older \in Seq(Entry) /\ w.current \in Seq(Entry)
    BY <1>2, <1>4, <1>6
  <2>2. /\ TrailOf(r) \in Seq(Entry) /\ n = k + m
        /\ \A i \in 1..k : TrailOf(r)[i] = r.older[i]
        /\ \A i \in 1..m : TrailOf(r)[k + i] = r.current[i]
    BY <1>2, TrailFacts DEF TrailOf
  <2>3. /\ Len(w.current) = m + 1 /\ w.current[m + 1] = e
        /\ \A i \in 1..m : w.current[i] = r.current[i]
    BY <1>2, <1>6
  <2>4. /\ TrailOf(w) \in Seq(Entry) /\ Len(TrailOf(w)) = k + (m + 1)
        /\ \A i \in 1..k : TrailOf(w)[i] = r.older[i]
        /\ \A i \in 1..(m + 1) : TrailOf(w)[k + i] = w.current[i]
    <3>1. TrailOf(w) = r.older \o w.current
      BY <1>6 DEF TrailOf
    <3>2. /\ r.older \o w.current \in Seq(Entry)
          /\ Len(r.older \o w.current) = k + Len(w.current)
          /\ \A i \in 1..k : (r.older \o w.current)[i] = r.older[i]
          /\ \A i \in 1..Len(w.current) : (r.older \o w.current)[k + i] = w.current[i]
      BY <1>2, <2>1, TrailFacts
    <3> QED
      BY <3>1, <3>2, <2>3
  <2> HIDE DEF k, m
  <2>5. TrailOf(w)[n + 1] = e
    <3>1. n + 1 = k + (m + 1) /\ m + 1 \in 1..(m + 1)
      BY <2>1, <2>2
    <3> QED
      BY <3>1, <2>3, <2>4
  <2>6. ASSUME NEW i \in 1..n
        PROVE  TrailOf(w)[i] = TrailOf(r)[i]
    <3>1. CASE i <= k
      BY <3>1, <2>1, <2>2, <2>4
    <3>2. CASE i > k
      <4>1. i = k + (i - k) /\ i - k \in 1..m /\ i - k \in 1..(m + 1)
        BY <3>2, <2>1, <2>2
      <4> QED
        BY <4>1, <2>2, <2>3, <2>4
    <3> QED
      BY <3>1, <3>2, <2>1, <2>2
  <2>7. n \in Nat /\ Len(TrailOf(w)) = n + 1
    BY <2>1, <2>2, <2>4
  <2>8. \A i \in 1..n : TrailOf(w)[i] = TrailOf(r)[i]
    BY <2>6
  <2> QED
    BY <2>2, <2>4, <2>5, <2>7, <2>8
<1>8. RunsPast(w)
  <2> SUFFICES ASSUME NEW i \in 1..Len(TrailOf(w))
               PROVE  TrailOf(w)[i].run <= w.run
    BY DEF RunsPast
  <2>1. CASE i \in 1..n
    BY <2>1, <1>1, <1>6, <1>7 DEF Good, RunsPast
  <2>2. CASE i = n + 1
    BY <2>2, <1>1, <1>2, <1>6, <1>7
  <2> QED
    BY <1>7, <2>1, <2>2
<1>9. Follows(TrailOf(r), TrailOf(w), 1)
  <2>1. 0 \in 0..n /\ n + 1 \in (n - 0)..(n - 0 + 1) /\ n - 0 = n
    BY <1>7
  <2> QED
    BY <2>1, <1>7 DEF Follows
<1>10. Follows(TrailOf(a), TrailOf(w), 0 + 1)
  <2>1. TrailOf(a) \in Seq(Entry)
    BY StateFields, TrailFacts DEF TrailOf, Good
  <2> QED
    BY <1>1, <1>9, <2>1, FollowsThen
<1> QED
  BY <1>5, <1>6, <1>7, <1>8, <1>10 DEF Good

\* An append that failed may have moved the file.
LEMMA FailedKeeps ==
    ASSUME NEW a, Good(a), NEW f \in Failed(a)
    PROVE  /\ Good(f) /\ Follows(TrailOf(a), TrailOf(f), 0)
           /\ f.gap = TRUE /\ f.run = a.run /\ f.pending = a.pending
           /\ f.made = a.made /\ f.told = a.told /\ f.lost = a.lost
<1>1. PICK b \in {a, Rotated(a)} : f = [b EXCEPT !.gap = TRUE]
  BY DEF Failed
<1>2. /\ Good(b) /\ Follows(TrailOf(a), TrailOf(b), 0) /\ b.run = a.run
      /\ b.pending = a.pending /\ b.made = a.made /\ b.told = a.told /\ b.lost = a.lost
  <2>1. TrailOf(a) \in Seq(Entry)
    BY StateFields, TrailFacts DEF TrailOf, Good
  <2> QED
    BY <1>1, <2>1, RotatedKeeps, FollowsSelf
<1>3. f \in AuditState /\ f = [b EXCEPT !.gap = TRUE]
  BY <1>1, <1>2 DEF AuditState, Good
<1>4. /\ f.gap = TRUE /\ f.run = b.run /\ f.older = b.older /\ f.current = b.current
      /\ f.pending = b.pending /\ f.made = b.made /\ f.told = b.told /\ f.lost = b.lost
  BY <1>2, <1>3 DEF AuditState, Good
<1>5. TrailOf(f) = TrailOf(b)
  BY <1>4 DEF TrailOf
<1>6. RunsPast(f)
  BY <1>2, <1>4, <1>5 DEF Good, RunsPast
<1> QED
  BY <1>2, <1>3, <1>4, <1>5, <1>6 DEF Good

-----------------------------------------------------------------------------

\* What an operation on freeze writes may do to the trail: nothing, one
\* heartbeat at its end, or a failed append.
Quietly(a, f) ==
    /\ Good(f) /\ Accounted(f) /\ f.run = a.run
    /\ Follows(TrailOf(a), TrailOf(f), 1)
    /\ \/ f.gap
       \/ /\ f.gap = a.gap
          /\ \/ TrailOf(f) = TrailOf(a)
             \/ /\ Len(TrailOf(f)) > 0
                /\ TrailOf(f)[Len(TrailOf(f))].kind = "heartbeat"

\* A change of the counters alone.
LEMMA SameTrail ==
    ASSUME NEW a, Good(a), NEW f \in AuditState,
           f.older = a.older, f.current = a.current, f.run >= a.run
    PROVE  /\ Good(f) /\ TrailOf(f) = TrailOf(a)
           /\ \A n \in Nat : Follows(TrailOf(a), TrailOf(f), n)
<1>1. TrailOf(f) = TrailOf(a) /\ TrailOf(a) \in Seq(Entry)
  BY StateFields, TrailFacts DEF TrailOf, Good
<1>2. ASSUME NEW i \in 1..Len(TrailOf(f))
      PROVE  TrailOf(f)[i].run <= f.run
  <2>1. TrailOf(a)[i].run <= a.run /\ TrailOf(a)[i] \in Entry
    BY <1>1 DEF Good, RunsPast
  <2>2. TrailOf(a)[i].run \in 1..MaxRuns /\ a.run \in 1..MaxRuns /\ f.run \in 1..MaxRuns
    BY <2>1, EntryRun, StateFields DEF Good
  <2> QED
    BY <1>1, <2>1, <2>2, AuditAssumption
<1> QED
  BY <1>1, <1>2, FollowsSelf DEF Good, RunsPast

LEMMA FlushedKeeps ==
    ASSUME NEW a, Good(a), Accounted(a), NEW f \in Flushed(a)
    PROVE  Quietly(a, f)
<1> DEFINE e == [kind |-> "heartbeat", run |-> a.run, writes |-> a.pending]
           b == Reset(a)
<1> USE AuditAssumption
<1>1. /\ a \in AuditState /\ a.pending \in 0..MaxWrites /\ a.told \in 0..MaxWrites
      /\ a.made \in 0..MaxWrites /\ a.lost \in 0..MaxWrites /\ a.run \in 1..MaxRuns
      /\ a.gap \in BOOLEAN
  BY StateFields DEF Good
<1>2. CASE a.pending = 0
  <2>1. f = [a EXCEPT !.window = Closed]
    BY <1>2 DEF Flushed
  <2>2. f \in AuditState
    BY <1>1, <2>1, ClosedType DEF AuditState
  <2>3. /\ f.older = a.older /\ f.current = a.current /\ f.run = a.run /\ f.gap = a.gap
        /\ f.pending = a.pending /\ f.made = a.made /\ f.told = a.told /\ f.lost = a.lost
    BY <1>1, <2>1 DEF AuditState
  <2>4. Accounted(f)
    BY <2>3 DEF Accounted
  <2>5. Good(f) /\ TrailOf(f) = TrailOf(a) /\ Follows(TrailOf(a), TrailOf(f), 1)
    BY <1>1, <2>2, <2>3, SameTrail
  <2> QED
    BY <2>3, <2>4, <2>5 DEF Quietly
<1>3. CASE a.pending # 0
  <2>1. \/ f = [Written(b, e) EXCEPT !.told = @ + a.pending]
        \/ \E g \in Failed(b) : f = [g EXCEPT !.lost = @ + a.pending]
    BY <1>3 DEF Flushed
  <2>2. b = [a EXCEPT !.window = Closed, !.pending = 0]
    BY DEF Reset
  <2> HIDE DEF b
  <2>3. /\ b \in AuditState /\ b.older = a.older /\ b.current = a.current /\ b.run = a.run
        /\ b.gap = a.gap /\ b.pending = 0 /\ b.made = a.made /\ b.told = a.told
        /\ b.lost = a.lost
    BY <1>1, <2>2, ClosedType DEF AuditState
  <2>4. Good(b) /\ TrailOf(b) = TrailOf(a)
    BY <1>1, <2>3, SameTrail
  <2>5. e \in Entry /\ e.run = b.run /\ e.kind = "heartbeat"
    BY <1>1, <2>3 DEF Entry
  <2> HIDE DEF e
  <2>6. a.told + a.pending + a.lost = a.made /\ a.told + a.pending \in 0..MaxWrites
        /\ a.lost + a.pending \in 0..MaxWrites
    BY <1>1 DEF Accounted
  <2>7. CASE f = [Written(b, e) EXCEPT !.told = @ + a.pending]
    <3> DEFINE w == Written(b, e)
    <3>1. /\ Good(w) /\ Follows(TrailOf(b), TrailOf(w), 1) /\ Len(TrailOf(w)) > 0
          /\ TrailOf(w)[Len(TrailOf(w))] = e /\ w.run = b.run /\ w.gap = b.gap
          /\ w.pending = b.pending /\ w.made = b.made /\ w.told = b.told
          /\ w.lost = b.lost
      BY <2>4, <2>5, WrittenKeeps
    <3> HIDE DEF w
    <3>2. f = [w EXCEPT !.told = w.told + a.pending]
      BY <2>7 DEF w
    <3>3. f \in AuditState
      BY <3>1, <3>2, <2>3, <2>6 DEF AuditState, Good
    <3>4. /\ f.older = w.older /\ f.current = w.current /\ f.run = w.run /\ f.gap = w.gap
          /\ f.pending = w.pending /\ f.made = w.made /\ f.lost = w.lost
          /\ f.told = w.told + a.pending
      BY <3>1, <3>2 DEF AuditState, Good
    <3>5. Good(f) /\ TrailOf(f) = TrailOf(w)
      BY <3>1, <3>3, <3>4, <1>1, <2>3, SameTrail
    <3>6. Accounted(f)
      BY <1>1, <2>3, <2>6, <3>1, <3>4 DEF Accounted
    <3> QED
      BY <2>3, <2>4, <2>5, <3>1, <3>4, <3>5, <3>6 DEF Quietly
  <2>8. ASSUME NEW g \in Failed(b), f = [g EXCEPT !.lost = @ + a.pending]
        PROVE  Quietly(a, f)
    <3>1. /\ Good(g) /\ Follows(TrailOf(b), TrailOf(g), 0) /\ g.gap = TRUE
          /\ g.run = b.run /\ g.pending = b.pending /\ g.made = b.made
          /\ g.told = b.told /\ g.lost = b.lost
      BY <2>4, FailedKeeps
    <3>2. f \in AuditState
      BY <2>3, <2>6, <2>8, <3>1 DEF AuditState, Good
    <3>3. /\ f.older = g.older /\ f.current = g.current /\ f.run = g.run /\ f.gap = g.gap
          /\ f.pending = g.pending /\ f.made = g.made /\ f.told = g.told
          /\ f.lost = g.lost + a.pending
      BY <2>8, <3>1 DEF AuditState, Good
    <3>4. Good(f) /\ TrailOf(f) = TrailOf(g)
      BY <3>1, <3>2, <3>3, <1>1, <2>3, SameTrail
    <3>5. Accounted(f)
      BY <1>1, <2>3, <2>6, <3>1, <3>3 DEF Accounted
    <3>6. Follows(TrailOf(a), TrailOf(f), 1)
      BY <2>4, <3>1, <3>4, StateFields, TrailFacts, FollowsMore DEF TrailOf, Good
    <3> QED
      BY <2>3, <3>1, <3>3, <3>4, <3>5, <3>6 DEF Quietly
  <2> QED
    BY <2>1, <2>7, <2>8
<1> QED
  BY <1>2, <1>3

\* A tick of the freezer.
LEMMA FreezeRecordedKeeps ==
    ASSUME NEW a, Good(a), Accounted(a), NEW count \in Nat,
           a.made + count <= MaxWrites, NEW f \in FreezeRecorded(a, count)
    PROVE  Quietly(a, f)
<1> DEFINE c == Counted(a, count)
<1> USE AuditAssumption
<1>1. /\ a \in AuditState /\ a.pending \in 0..MaxWrites /\ a.told \in 0..MaxWrites
      /\ a.made \in 0..MaxWrites /\ a.lost \in 0..MaxWrites /\ a.run \in 1..MaxRuns
      /\ a.window \in 0..Closed
  BY StateFields DEF Good
<1>2. a.made = a.told + a.pending + a.lost
  BY DEF Accounted
<1>3. /\ c \in AuditState /\ c.older = a.older /\ c.current = a.current
      /\ c.run = a.run /\ c.gap = a.gap /\ c.pending = a.pending + count
      /\ c.made = a.made + count /\ c.told = a.told /\ c.lost = a.lost
  <2>1. CASE count = 0
    BY <2>1, <1>1 DEF Counted
  <2>2. CASE count # 0
    <3>1. c = [a EXCEPT !.window = IF a.window = Closed THEN 0 ELSE a.window,
                        !.pending = a.pending + count, !.made = a.made + count]
      BY <2>2 DEF Counted
    <3>2. a.pending + count \in 0..MaxWrites /\ a.made + count \in 0..MaxWrites
      BY <1>1, <1>2
    <3>3. (IF a.window = Closed THEN 0 ELSE a.window) \in 0..Closed
      BY <1>1 DEF Closed
    <3> HIDE DEF c
    <3> QED
      BY <1>1, <3>1, <3>2, <3>3 DEF AuditState
  <2> QED
    BY <2>1, <2>2
<1>4. f \in Flushed(c) \/ f = c
  BY DEF FreezeRecorded
<1> HIDE DEF c
<1>5. Good(c) /\ TrailOf(c) = TrailOf(a) /\ Follows(TrailOf(a), TrailOf(c), 1)
  BY <1>1, <1>3, SameTrail
<1>6. Accounted(c)
  BY <1>1, <1>2, <1>3 DEF Accounted
<1>7. CASE f = c
  BY <1>3, <1>5, <1>6, <1>7 DEF Quietly
<1>8. CASE f \in Flushed(c)
  <2>1. Quietly(c, f)
    BY <1>5, <1>6, <1>8, FlushedKeeps
  <2> QED
    BY <2>1, <1>3, <1>5 DEF Quietly
<1> QED
  BY <1>4, <1>7, <1>8

\* The next start of the application loses what was not reported.
LEMMA RestartedKeeps ==
    ASSUME NEW a, Good(a), Accounted(a), a.run < MaxRuns
    PROVE  /\ Good(Restarted(a)) /\ Accounted(Restarted(a))
           /\ TrailOf(Restarted(a)) = TrailOf(a) /\ Restarted(a).run = a.run + 1
<1> DEFINE r == Restarted(a)
<1> USE AuditAssumption
<1>1. /\ a \in AuditState /\ a.pending \in 0..MaxWrites /\ a.told \in 0..MaxWrites
      /\ a.made \in 0..MaxWrites /\ a.lost \in 0..MaxWrites /\ a.run \in 1..MaxRuns
  BY StateFields DEF Good
<1>2. a.made = a.told + a.pending + a.lost
  BY DEF Accounted
<1>3. r = [a EXCEPT !.run = a.run + 1, !.pending = 0, !.window = Closed,
                    !.lost = a.lost + a.pending, !.gap = FALSE]
  BY DEF Restarted
<1> HIDE DEF r
<1>4. a.run + 1 \in 1..MaxRuns /\ a.lost + a.pending \in 0..MaxWrites
  BY <1>1, <1>2
<1>5. /\ r \in AuditState /\ r.older = a.older /\ r.current = a.current
      /\ r.run = a.run + 1 /\ r.pending = 0 /\ r.lost = a.lost + a.pending
      /\ r.made = a.made /\ r.told = a.told
  BY <1>1, <1>3, <1>4, ClosedType DEF AuditState
<1>6. Accounted(r)
  BY <1>1, <1>2, <1>5 DEF Accounted
<1>7. Good(r) /\ TrailOf(r) = TrailOf(a)
  BY <1>1, <1>5, SameTrail
<1> QED
  BY <1>5, <1>6, <1>7 DEF r

LEMMA LaterKeeps ==
    ASSUME NEW a, Good(a), Accounted(a)
    PROVE  /\ Good(Later(a)) /\ Accounted(Later(a)) /\ TrailOf(Later(a)) = TrailOf(a)
           /\ Later(a).run = a.run /\ Later(a).gap = a.gap
<1> DEFINE r == Later(a)
<1> USE AuditAssumption
<1>1. a \in AuditState /\ a.window \in 0..Closed /\ a.run \in 1..MaxRuns
  BY StateFields DEF Good
<1>2. r = [a EXCEPT !.window = IF a.window < Window THEN a.window + 1 ELSE a.window]
  BY DEF Later
<1>3. (IF a.window < Window THEN a.window + 1 ELSE a.window) \in 0..Closed
  BY <1>1 DEF Closed
<1> HIDE DEF r
<1>4. /\ r \in AuditState /\ r.older = a.older /\ r.current = a.current
      /\ r.run = a.run /\ r.gap = a.gap /\ r.pending = a.pending /\ r.lost = a.lost
      /\ r.made = a.made /\ r.told = a.told
  BY <1>1, <1>2, <1>3 DEF AuditState
<1>5. Accounted(r)
  BY <1>4 DEF Accounted
<1>6. Good(r) /\ TrailOf(r) = TrailOf(a)
  BY <1>1, <1>4, SameTrail
<1> QED
  BY <1>4, <1>5, <1>6 DEF r
=============================================================================
