---------------------------- MODULE TrainerProofs ----------------------------
(***************************************************************************)
(* Proofs about Trainer, for any addresses, values, bases, locations,      *)
(* tricks, starts of the executable and numbers of calls.                  *)
(***************************************************************************)
EXTENDS Trainer, TLAPS

Catalog(c) ==
    /\ DOMAIN c \subseteq Names
    /\ \A n \in DOMAIN c : c[n] \in Trick /\ Complete(c[n])

Watches(w, count) ==
    /\ DOMAIN w \subseteq 1..count
    /\ \A id \in DOMAIN w :
        /\ w[id] \in Watch
        /\ w[id].frozen => w[id].desired # NoValue

AppOK(s, count) ==
    /\ s = [watches |-> s.watches, runtime |-> s.runtime, active |-> s.active]
    /\ Watches(s.watches, count)
    /\ DOMAIN s.runtime \subseteq Names
    /\ \A n \in DOMAIN s.runtime : s.runtime[n] \in 1..count
    /\ s.active \subseteq Names

World ==
    /\ proc \in [base : Base, alive : BOOLEAN, instance : 1..MaxInstances]
    /\ memory \in [Address -> Value]
    /\ access \in {"none", "read", "write"}
    /\ created \in 0..MaxWatches
    /\ outcome \in {"none", "done", "refused"}
    /\ calls \in 0..MaxCalls

\* The watches a load would bring back.
Stored == IF workspace = NoFile THEN Empty ELSE workspace
FilesOK ==
    /\ file # Torn /\ Catalog(Tricks)
    /\ Watches(Stored, created)

\* A save goes on from what its guards saw; no dialog opens meanwhile.
SavingOK ==
    saving # NoSave =>
        /\ dialog = NoDialog
        /\ saving.kind \in {"save", "edit"}
        /\ saving.name \in Names
        /\ saving.trick \in Trick /\ Complete(saving.trick)
        /\ saving.kind = "save" => saving.id \in DOMAIN app.watches
        /\ saving.kind = "edit" => /\ saving.name \in DOMAIN Tricks
                                   /\ saving.trick.loc = Tricks[saving.name].loc
        /\ temp \notin {Torn, NoFile} => temp = Put(Tricks, saving.name, saving.trick)

DialogOK ==
    /\ dialog.kind = "toggle" =>
        /\ dialog.name \in DOMAIN Tricks /\ dialog.on \in BOOLEAN
        /\ dialog.on \/ Tricks[dialog.name].mode = "write_pair"
    /\ dialog.kind \in {"toggle", "write", "freeze"} => dialog.base \in Nat
    /\ dialog.kind \in {"write", "freeze"} =>
        dialog.id \in 1..created /\ dialog.value \in Value
    /\ dialog.kind = "create" =>
        dialog = [kind |-> "create", id |-> dialog.id, name |-> dialog.name,
                  draft |-> dialog.draft, current |-> dialog.current]
    /\ dialog.kind \in {"create", "store"} =>
        dialog.name \in Names /\ dialog.draft \in Draft /\ Complete(dialog.draft)
    /\ dialog.kind = "store" => dialog.id \in DOMAIN app.watches

\* A watch never changes its location, not even through a workspace file.
Agree ==
    \A id \in DOMAIN app.watches \cap DOMAIN Stored :
        app.watches[id].loc = Stored[id].loc

\* The same location, or the portable form of it.
SameCell(l, m) ==
    \/ l = m
    \/ /\ l.mode = "absolute" /\ m.mode = "module_offset"
       /\ l.at = proc.base + m.at
OnCell(id, loc) ==
    /\ id \in DOMAIN app.watches => SameCell(app.watches[id].loc, loc)
    /\ id \in DOMAIN Stored => SameCell(Stored[id].loc, loc)

\* The watch a trick is switched through, and the one it would come back as.
Linked ==
    access # "none" =>
        /\ \A n \in DOMAIN app.runtime :
            n \in DOMAIN Tricks /\ OnCell(app.runtime[n], Tricks[n].loc)
        /\ saving # NoSave /\ saving.kind = "save" => OnCell(saving.id, saving.trick.loc)

NamesCell(loc, cell, listed) ==
    loc.mode # "pointer_chain" /\ cell.module /\ listed =>
        loc.mode = "module_offset" /\ loc.at = cell.at
Remembered ==
    /\ DOMAIN tested = DOMAIN Tricks
    /\ \A n \in DOMAIN Tricks :
        NamesCell(Tricks[n].loc, tested[n].cell, tested[n].listed)
    /\ saving # NoSave /\ saving.kind = "save" =>
        NamesCell(saving.trick.loc, saving.cell, saving.listed)

\* The address a dialog shows is that of the location in the start of the
\* executable in which the dialog opened.
ShownAt(loc) ==
    /\ loc.mode = "absolute" => dialog.address = loc.at
    /\ loc.mode = "module_offset" => dialog.address = dialog.base + loc.at

\* What a dialog shows is still true of what it would act on, but for the end of
\* a pointer chain, in this start of the executable or a later one; a runtime
\* watch is there only in the start in which the dialog opened.
ShownNow ==
    /\ dialog.kind = "toggle" =>
        /\ dialog.value = Target(dialog.name, dialog.on)
        /\ ShownAt(Tricks[dialog.name].loc)
        /\ access # "none" /\ dialog.name \in DOMAIN app.runtime => dialog.base = proc.base
    /\ dialog.kind \in {"write", "freeze"} =>
        /\ dialog.id \in DOMAIN app.watches => ShownAt(app.watches[dialog.id].loc)
        /\ dialog.id \in DOMAIN Stored => ShownAt(Stored[dialog.id].loc)

IInv ==
    /\ World /\ AppOK(app, created) /\ FilesOK /\ SavingOK /\ DialogOK
    /\ Agree /\ Linked /\ Remembered /\ ShownNow

-----------------------------------------------------------------------------
(* Tables.                                                                 *)

\* The same watches at the same locations, for the same tricks.
Same(s, t) ==
    /\ DOMAIN t.watches = DOMAIN s.watches
    /\ \A id \in DOMAIN s.watches : t.watches[id].loc = s.watches[id].loc
    /\ t.runtime = s.runtime

LEMMA ListedKeeps ==
    ASSUME NEW s, NEW count, AppOK(s, count), NEW catalog
    PROVE  /\ AppOK(Listed(s, catalog), count)
           /\ Listed(s, catalog).watches = s.watches
           /\ Listed(s, catalog).runtime = s.runtime
           /\ Listed(s, catalog).active \subseteq s.active
           /\ Same(s, Listed(s, catalog))
<1> DEFINE A == {n \in s.active : IsActive(s, catalog, n)}
<1>1. A \subseteq s.active
  OBVIOUS
<1>2. Listed(s, catalog) = [s EXCEPT !.active = A]
  BY DEF Listed
<1> HIDE DEF A
<1>3. Listed(s, catalog) = [watches |-> s.watches, runtime |-> s.runtime, active |-> A]
  BY <1>2 DEF AppOK
<1> QED
  BY <1>1, <1>3 DEF AppOK, Same

\* No other watch is touched.
Changed(s, t, id) ==
    /\ Same(s, t)
    /\ \A x \in DOMAIN s.watches : x # id => t.watches[x] = s.watches[x]

\* One watch is replaced by another one at its location.
LEMMA ChangeKeeps ==
    ASSUME NEW s, NEW count, AppOK(s, count), NEW id \in DOMAIN s.watches,
           NEW w \in Watch, w.loc = s.watches[id].loc,
           w.frozen => w.desired # NoValue,
           NEW A, A \subseteq Names,
           NEW t, t = [watches |-> [s.watches EXCEPT ![id] = w],
                       runtime |-> s.runtime, active |-> A]
    PROVE  AppOK(t, count) /\ Changed(s, t, id) /\ t.watches[id] = w
<1>1. /\ DOMAIN t.watches = DOMAIN s.watches /\ t.watches[id] = w
      /\ \A x \in DOMAIN s.watches : x # id => t.watches[x] = s.watches[x]
  OBVIOUS
<1>2. t.runtime = s.runtime /\ t.active = A
  OBVIOUS
<1>3. Watches(t.watches, count)
  BY <1>1 DEF AppOK, Watches
<1>4. Changed(s, t, id)
  BY <1>1, <1>2 DEF Same, Changed
<1> QED
  BY <1>1, <1>2, <1>3, <1>4 DEF AppOK

\* Updated: the value a watch wants.
LEMMA DesiredKeeps ==
    ASSUME NEW s, NEW count, AppOK(s, count), NEW id \in DOMAIN s.watches,
           NEW value \in Value
    PROVE  LET t == Updated(s, id, value)
           IN  /\ AppOK(t, count) /\ Same(s, t) /\ t.active = s.active
               /\ t.watches[id].desired = value
               /\ t = Written(s, id, value)
<1> DEFINE t == Updated(s, id, value)
           w == [s.watches[id] EXCEPT !.desired = value]
<1>1. s.watches[id] \in Watch
  BY DEF AppOK, Watches
<1>2. /\ w \in Watch /\ w.loc = s.watches[id].loc /\ w.desired = value
      /\ w.desired # NoValue
  BY <1>1, TrainerAssumption DEF Watch, Value, NoValue
<1>3. t = [watches |-> [s.watches EXCEPT ![id] = w],
           runtime |-> s.runtime, active |-> s.active]
  BY DEF AppOK, Updated
<1> HIDE DEF w
<1>4. t.active = s.active /\ s.active \subseteq Names
  BY <1>3 DEF AppOK
<1>5. t = Written(s, id, value)
  BY DEF Updated, Written
<1> HIDE DEF t
<1>6. AppOK(t, count) /\ Same(s, t) /\ t.watches[id] = w
  BY <1>2, <1>3, <1>4, ChangeKeeps DEF Changed
<1> QED
  BY <1>2, <1>4, <1>5, <1>6 DEF t

\* Frozen, and the rest of set_freeze.
LEMMA FrozenKeeps ==
    ASSUME NEW s, NEW count, AppOK(s, count), NEW id \in DOMAIN s.watches,
           NEW frozen \in BOOLEAN, NEW value \in Value \cup {NoValue},
           MayFreeze(s, id, frozen, value)
    PROVE  LET t == Frozen(s, id, frozen, value)
           IN  /\ AppOK(t, count) /\ Changed(s, t, id) /\ t.active = s.active
               /\ t.watches[id].frozen = frozen
               /\ value # NoValue => t.watches[id].desired = value
<1> DEFINE t == Frozen(s, id, frozen, value)
           d == IF value = NoValue THEN s.watches[id].desired ELSE value
           w == [s.watches[id] EXCEPT !.frozen = frozen, !.desired = d]
<1>1. s.watches[id] \in Watch
  BY DEF AppOK, Watches
<1>2. d \in Value \cup {NoValue}
  BY <1>1 DEF Watch
<1>3. frozen => d # NoValue
  BY DEF MayFreeze
<1>4. t = [watches |-> [s.watches EXCEPT ![id] = w],
           runtime |-> s.runtime, active |-> s.active]
  BY DEF AppOK, Frozen
<1>5. value # NoValue => d = value
  OBVIOUS
<1> HIDE DEF d
<1>6. /\ w \in Watch /\ w.loc = s.watches[id].loc /\ w.desired = d
      /\ w.frozen = frozen
  BY <1>1, <1>2 DEF Watch
<1> HIDE DEF w
<1>7. t.active = s.active
  BY <1>4
<1> HIDE DEF t
<1>8. AppOK(t, count) /\ Changed(s, t, id) /\ t.watches[id] = w
  BY <1>3, <1>4, <1>6, ChangeKeeps DEF AppOK
<1> QED
  BY <1>5, <1>6, <1>7, <1>8 DEF t

LEMMA FreezeKeeps ==
    ASSUME NEW s, NEW count, AppOK(s, count), NEW id \in DOMAIN s.watches,
           NEW frozen \in BOOLEAN, NEW value \in Value \cup {NoValue},
           MayFreeze(s, id, frozen, value), NEW catalog
    PROVE  LET t == WithFreeze(s, catalog, id, frozen, value)
           IN  /\ AppOK(t, count) /\ Changed(s, t, id) /\ t.active \subseteq s.active
               /\ t.watches[id].frozen = frozen
               /\ value # NoValue => t.watches[id].desired = value
<1> DEFINE t == Frozen(s, id, frozen, value)
           u == WithFreeze(s, catalog, id, frozen, value)
<1>1. /\ AppOK(t, count) /\ Changed(s, t, id) /\ t.active = s.active
      /\ t.watches[id].frozen = frozen
      /\ value # NoValue => t.watches[id].desired = value
  BY FrozenKeeps
<1>2. u = t \/ u = Listed(t, catalog)
  BY DEF WithFreeze
<1> HIDE DEF t, u
<1>3. AppOK(u, count) /\ Same(t, u) /\ u.watches = t.watches /\ u.active \subseteq t.active
  BY <1>1, <1>2, ListedKeeps DEF Same
<1>4. Changed(s, u, id)
  BY <1>1, <1>3 DEF Same, Changed
<1> QED
  BY <1>1, <1>3, <1>4 DEF u

\* A value is stored for a watch, and marks at most the write pairs it enables.
WrittenTo(s, t, id, value) ==
    /\ Changed(s, t, id)
    /\ t.watches[id].desired = value
    /\ t.watches[id].frozen = s.watches[id].frozen
    /\ \A n \in t.active : n \notin s.active =>
        n \in MappedTo(s, id) /\ Tricks[n].mode = "write_pair" /\ Tricks[n].enabled = value

LEMMA DecidedKeeps ==
    ASSUME NEW s, NEW count, AppOK(s, count), NEW id \in DOMAIN s.watches,
           NEW value \in Value, NEW names \in SUBSET MappedTo(s, id)
    PROVE  LET t == Decided(Written(s, id, value), names, value)
           IN  AppOK(t, count) /\ WrittenTo(s, t, id, value)
<1> DEFINE pairs == {n \in names : Tricks[n].mode = "write_pair"}
           on == {n \in pairs : Tricks[n].enabled = value}
           A == (s.active \ (pairs \ on)) \cup on
           w == [s.watches[id] EXCEPT !.desired = value]
           t == Decided(Written(s, id, value), names, value)
<1>1. A \subseteq Names
  BY DEF AppOK, MappedTo
<1>2. \A n \in A : n \notin s.active =>
        n \in MappedTo(s, id) /\ Tricks[n].mode = "write_pair" /\ Tricks[n].enabled = value
  OBVIOUS
<1>3. t = [Written(s, id, value) EXCEPT !.active = A]
  BY DEF AppOK, Written, Decided
<1> HIDE DEF A, t
<1>4. s.watches[id] \in Watch
  BY DEF AppOK, Watches
<1>5. /\ w \in Watch /\ w.loc = s.watches[id].loc /\ w.desired = value
      /\ w.desired # NoValue /\ w.frozen = s.watches[id].frozen
  BY <1>4, TrainerAssumption DEF Watch, Value, NoValue
<1>6. t = [watches |-> [s.watches EXCEPT ![id] = w], runtime |-> s.runtime, active |-> A]
  BY <1>3 DEF AppOK, Written
<1> HIDE DEF w
<1>7. AppOK(t, count) /\ Changed(s, t, id) /\ t.watches[id] = w /\ t.active = A
  BY <1>1, <1>5, <1>6, ChangeKeeps
<1> QED
  BY <1>2, <1>5, <1>7 DEF t, WrittenTo

LEMMA WrittenKeeps ==
    ASSUME NEW s, NEW count, AppOK(s, count), NEW id \in DOMAIN s.watches,
           NEW value \in Value
    PROVE  LET t == WithWritten(s, id, value)
           IN  AppOK(t, count) /\ Same(s, t) /\ WrittenTo(s, t, id, value)
<1> DEFINE names == MappedTo(s, id)
           t == Decided(Written(s, id, value), names, value)
           u == WithWritten(s, id, value)
<1>1. u = t \/ u = Listed(t, Tricks)
  BY DEF WithWritten
<1>2. AppOK(t, count) /\ WrittenTo(s, t, id, value)
  BY DecidedKeeps
<1> HIDE DEF t, u
<1>3. /\ AppOK(u, count) /\ u.watches = t.watches /\ u.runtime = t.runtime
      /\ u.active \subseteq t.active
  BY <1>1, <1>2, ListedKeeps
<1>4. WrittenTo(s, u, id, value) /\ Same(s, u)
  BY <1>2, <1>3 DEF Same, Changed, WrittenTo
<1> QED
  BY <1>3, <1>4 DEF u

LEMMA PartKeeps ==
    ASSUME NEW s, NEW count, AppOK(s, count), NEW id \in DOMAIN s.watches,
           NEW value \in Value, NEW t \in WrittenInPart(s, id, value)
    PROVE  AppOK(t, count) /\ Same(s, t) /\ WrittenTo(s, t, id, value)
<1>1. PICK names \in SUBSET MappedTo(s, id) : t = Decided(Written(s, id, value), names, value)
  BY DEF WrittenInPart
<1>2. AppOK(t, count) /\ WrittenTo(s, t, id, value)
  BY <1>1, DecidedKeeps
<1> QED
  BY <1>2 DEF WrittenTo, Changed

-----------------------------------------------------------------------------
(* Steps of the tables.                                                    *)

\* Watches go, or one comes; a trick is forgotten, or gets the one that comes.
Steady ==
    /\ created' \in {created, FreshId}
    /\ AppOK(app', created')
    /\ \A id \in DOMAIN app'.watches :
        \/ id \in DOMAIN app.watches /\ app'.watches[id].loc = app.watches[id].loc
        \/ id = FreshId
    /\ \A n \in DOMAIN app'.runtime :
        \/ n \in DOMAIN app.runtime /\ app'.runtime[n] = app.runtime[n]
        \/ /\ n \in DOMAIN Tricks /\ app'.runtime[n] = FreshId
           /\ FreshId \in DOMAIN app'.watches
           /\ app'.watches[FreshId].loc = Tricks[n].loc

\* An attachment goes on in one start of the executable.
SameStart == access' # "none" => access # "none" /\ proc'.base = proc.base

LEMMA SameSteady ==
    ASSUME IInv, AppOK(app', created), Same(app, app'), created' = created
    PROVE  Steady /\ DOMAIN app'.watches = DOMAIN app.watches
  BY DEF Steady, Same

LEMMA SteadyStep ==
    ASSUME IInv, World', Steady, SameStart,
           UNCHANGED <<file, workspace, saving, temp, tested>>,
           saving = NoSave \/ (UNCHANGED dialog /\ DOMAIN app.watches \subseteq DOMAIN app'.watches)
    PROVE  /\ AppOK(app', created') /\ FilesOK' /\ SavingOK' /\ Agree' /\ Linked'
           /\ Remembered' /\ Tricks' = Tricks
<1>1. Tricks' = Tricks /\ Stored' = Stored
  BY DEF Tricks, Stored
<1>2. created \in Nat /\ FreshId = created + 1 /\ created' \in {created, created + 1}
  BY DEF IInv, World, Steady, FreshId
<1>3. /\ DOMAIN app.watches \subseteq 1..created /\ DOMAIN Stored \subseteq 1..created
      /\ \A n \in DOMAIN app.runtime : app.runtime[n] \in 1..created
  BY DEF IInv, AppOK, Watches, FilesOK
<1>4. FreshId \notin 1..created /\ 1..created \subseteq 1..(created')
  BY <1>2
<1>5. FilesOK'
  BY <1>1, <1>3, <1>4 DEF IInv, FilesOK, Watches
<1>6. SavingOK'
  BY <1>1 DEF IInv, SavingOK
<1>7. \A id \in (DOMAIN app'.watches) \cap 1..created :
            id \in DOMAIN app.watches /\ app'.watches[id].loc = app.watches[id].loc
  BY <1>4 DEF Steady
<1>8. Agree'
  BY <1>1, <1>3, <1>7 DEF IInv, Agree
<1>9. Remembered'
  BY <1>1 DEF IInv, Remembered, NamesCell
<1>10. ASSUME access' # "none"
       PROVE  /\ (\A n \in DOMAIN app.runtime :
                    n \in DOMAIN Tricks /\ OnCell(app.runtime[n], Tricks[n].loc))'
              /\ saving # NoSave /\ saving.kind = "save" =>
                    OnCell(saving.id, saving.trick.loc)'
  <2>1. proc'.base = proc.base /\ Linked /\ access # "none"
    BY <1>10 DEF SameStart, IInv
  <2>2. \A l, m : SameCell(l, m)' <=> SameCell(l, m)
    BY <2>1 DEF SameCell
  <2>3. ASSUME NEW id \in 1..created, NEW loc, OnCell(id, loc)
        PROVE  OnCell(id, loc)'
    <3>1. id \in DOMAIN app'.watches => SameCell(app'.watches[id].loc, loc)
      BY <1>7, <2>3 DEF OnCell
    <3>2. id \in DOMAIN Stored => SameCell(Stored[id].loc, loc)
      BY <2>3 DEF OnCell
    <3>3. /\ (id \in DOMAIN app.watches => SameCell(app.watches[id].loc, loc))'
          /\ (id \in DOMAIN Stored => SameCell(Stored[id].loc, loc))'
      BY <1>1, <2>1, <3>1, <3>2 DEF SameCell
    <3> QED
      BY <3>3 DEF OnCell
  <2>4. ASSUME NEW n, n \in DOMAIN app'.runtime
        PROVE  (n \in DOMAIN Tricks /\ OnCell(app.runtime[n], Tricks[n].loc))'
    <3>1. CASE n \in DOMAIN app.runtime /\ app'.runtime[n] = app.runtime[n]
      <4>1. n \in DOMAIN Tricks /\ OnCell(app.runtime[n], Tricks[n].loc)
        BY <2>1, <3>1 DEF Linked
      <4>2. app.runtime[n] \in 1..created
        BY <1>3, <3>1
      <4> QED
        BY <1>1, <2>3, <3>1, <4>1, <4>2 DEF OnCell
    <3>2. CASE /\ n \in DOMAIN Tricks /\ app'.runtime[n] = FreshId
               /\ app'.watches[FreshId].loc = Tricks[n].loc
      <4>1. app'.runtime[n] \notin DOMAIN Stored
        BY <1>3, <1>4, <3>2
      <4> QED
        BY <1>1, <3>2, <4>1 DEF OnCell, SameCell
    <3> QED
      BY <2>4, <3>1, <3>2 DEF Steady
  <2>5. saving # NoSave /\ saving.kind = "save" => OnCell(saving.id, saving.trick.loc)'
    <3> SUFFICES ASSUME saving # NoSave, saving.kind = "save"
                 PROVE  OnCell(saving.id, saving.trick.loc)'
      OBVIOUS
    <3>1. OnCell(saving.id, saving.trick.loc) /\ saving.id \in 1..created
      BY <1>3, <2>1 DEF Linked, IInv, SavingOK
    <3>2. saving' = saving
      OBVIOUS
    <3> QED
      BY <2>3, <3>1, <3>2 DEF OnCell
  <2> QED
    BY <2>4, <2>5
<1>11. Linked'
  BY <1>1, <1>10 DEF Linked
<1> QED
  BY <1>1, <1>5, <1>6, <1>8, <1>9, <1>11 DEF Steady

\* What a dialog shows does not depend on what goes on while it is open.
LEMMA ShownSame ==
    ASSUME dialog' = dialog, NEW loc PROVE ShownAt(loc)' <=> ShownAt(loc)
  BY DEF ShownAt

\* While a dialog is open no trick gets a runtime watch.
LEMMA DialogStep ==
    ASSUME IInv, Steady, SameStart, UNCHANGED <<file, workspace>>,
           \/ dialog' = NoDialog
           \/ /\ dialog' = dialog
              /\ DOMAIN app'.runtime \subseteq DOMAIN app.runtime
              /\ dialog.kind = "store" => DOMAIN app.watches \subseteq DOMAIN app'.watches
    PROVE  DialogOK' /\ ShownNow'
<1>1. CASE dialog' = NoDialog
  BY <1>1 DEF NoDialog, DialogOK, ShownNow
<1>2. CASE /\ dialog' = dialog
           /\ DOMAIN app'.runtime \subseteq DOMAIN app.runtime
           /\ dialog.kind = "store" => DOMAIN app.watches \subseteq DOMAIN app'.watches
  <2>1. Tricks' = Tricks /\ Stored' = Stored
    BY DEF Tricks, Stored
  <2>2. 1..created \subseteq 1..(created') /\ FreshId \notin 1..created
    BY DEF IInv, World, Steady, FreshId
  <2>3. DialogOK'
    BY <1>2, <2>1, <2>2 DEF IInv, DialogOK
  <2>4. ASSUME dialog.kind = "toggle"
        PROVE  /\ dialog.value = Target(dialog.name, dialog.on)'
               /\ ShownAt(Tricks'[dialog.name].loc)
               /\ access' # "none" /\ dialog.name \in DOMAIN app'.runtime =>
                    dialog.base = proc'.base
    <3>1. dialog.value = Target(dialog.name, dialog.on)'
      BY <1>2, <2>1, <2>4 DEF IInv, ShownNow, Target
    <3>2. ShownAt(Tricks'[dialog.name].loc)
      BY <2>1, <2>4 DEF IInv, ShownNow
    <3>3. access' # "none" /\ dialog.name \in DOMAIN app'.runtime => dialog.base = proc'.base
      BY <1>2, <2>4 DEF IInv, ShownNow, SameStart
    <3> QED
      BY <3>1, <3>2, <3>3
  <2>5. ASSUME dialog.kind \in {"write", "freeze"}
        PROVE  /\ dialog.id \in DOMAIN app'.watches => ShownAt(app'.watches[dialog.id].loc)
               /\ dialog.id \in DOMAIN Stored' => ShownAt(Stored'[dialog.id].loc)
    <3>1. dialog.id \in 1..created
      BY <2>5 DEF IInv, DialogOK
    <3>2. dialog.id \in DOMAIN app'.watches =>
            /\ dialog.id \in DOMAIN app.watches
            /\ app'.watches[dialog.id].loc = app.watches[dialog.id].loc
      BY <2>2, <3>1 DEF Steady
    <3> QED
      BY <2>1, <2>5, <3>2 DEF IInv, ShownNow
  <2> QED
    BY <1>2, <2>3, <2>4, <2>5 DEF ShownNow, ShownAt
<1> QED
  BY <1>1, <1>2

\* A step of the tables that opens no dialog and begins no save.
LEMMA QuietStep ==
    ASSUME IInv, World', Steady, SameStart,
           UNCHANGED <<file, workspace, saving, temp, tested>>,
           \/ saving = NoSave /\ dialog' = NoDialog
           \/ /\ UNCHANGED dialog /\ DOMAIN app'.runtime \subseteq DOMAIN app.runtime
              /\ \/ DOMAIN app.watches \subseteq DOMAIN app'.watches
                 \/ saving = NoSave /\ dialog.kind # "store"
    PROVE  IInv'
<1>1. DialogOK' /\ ShownNow'
  BY DialogStep
<1>2. /\ AppOK(app', created') /\ FilesOK' /\ SavingOK' /\ Agree' /\ Linked'
      /\ Remembered'
  BY SteadyStep
<1> QED
  BY <1>1, <1>2 DEF IInv

-----------------------------------------------------------------------------
(* Switching a trick.                                                      *)

\* The runtime watch there is, or a new one at the trick's location.
LEMMA RuntimeFacts ==
    ASSUME IInv, NEW n \in DOMAIN Tricks,
           NEW count, count = IF HasRuntime(n) THEN created ELSE FreshId
    PROVE  LET s == WithRuntime(n)
           IN  /\ AppOK(s, count) /\ RuntimeId(n) \in DOMAIN s.watches
               /\ n \in DOMAIN s.runtime /\ s.runtime[n] = RuntimeId(n)
               /\ s.active = app.active
               /\ \A id \in DOMAIN app.watches :
                    id \in DOMAIN s.watches /\ s.watches[id] = app.watches[id]
               /\ \A id \in DOMAIN s.watches :
                    \/ id \in DOMAIN app.watches
                    \/ id = FreshId /\ s.watches[id] = NewWatch(Tricks[n].loc)
               /\ \A m \in DOMAIN s.runtime :
                    \/ m \in DOMAIN app.runtime /\ s.runtime[m] = app.runtime[m]
                    \/ /\ m = n /\ s.runtime[m] = FreshId /\ FreshId \in DOMAIN s.watches
                       /\ s.watches[FreshId] = NewWatch(Tricks[n].loc)
<1>1. CASE HasRuntime(n)
  BY <1>1 DEF IInv, WithRuntime, RuntimeId, HasRuntime
<1>2. CASE ~HasRuntime(n)
  <2> DEFINE s == WithRuntime(n)
             w == NewWatch(Tricks[n].loc)
  <2>1. /\ AppOK(app, created) /\ created \in Nat /\ count = created + 1
        /\ FreshId = count
    BY <1>2 DEF IInv, World, FreshId
  <2>2. w \in Watch /\ ~w.frozen
    BY DEF IInv, FilesOK, Catalog, Trick, NewWatch, Watch
  <2>3. n \in Names
    BY DEF IInv, FilesOK, Catalog
  <2>4. s = [watches |-> Put(app.watches, FreshId, w),
             runtime |-> Put(app.runtime, n, FreshId), active |-> app.active]
    BY <1>2, <2>1 DEF WithRuntime, Added, AppOK
  <2> HIDE DEF s, w
  <2>a. s.watches = Put(app.watches, FreshId, w) /\ s.runtime = Put(app.runtime, n, FreshId)
    BY <2>4
  <2>5. /\ DOMAIN s.watches = DOMAIN app.watches \cup {FreshId}
        /\ s.watches[FreshId] = w
        /\ \A id \in DOMAIN app.watches : id # FreshId => s.watches[id] = app.watches[id]
    BY <2>a DEF Put
  <2>6. /\ DOMAIN s.runtime = DOMAIN app.runtime \cup {n}
        /\ s.runtime[n] = FreshId
        /\ \A m \in DOMAIN app.runtime : m # n => s.runtime[m] = app.runtime[m]
    BY <2>a DEF Put
  <2>7. FreshId \notin DOMAIN app.watches /\ 1..created \subseteq 1..count /\ FreshId \in 1..count
    BY <2>1 DEF AppOK, Watches
  <2>8. Watches(s.watches, count)
    BY <2>1, <2>2, <2>5, <2>7 DEF AppOK, Watches
  <2>9. \A m \in DOMAIN s.runtime : s.runtime[m] \in 1..count
    BY <2>1, <2>6, <2>7 DEF AppOK
  <2>10. AppOK(s, count)
    BY <2>1, <2>3, <2>4, <2>6, <2>8, <2>9 DEF AppOK
  <2> QED
    BY <1>2, <2>4, <2>5, <2>6, <2>7, <2>10 DEF s, w, RuntimeId
<1> QED
  BY <1>1, <1>2

LEMMA RuntimeSteady ==
    ASSUME IInv, NEW n \in DOMAIN Tricks,
           created' = IF HasRuntime(n) THEN created ELSE FreshId,
           AppOK(app', created'), Same(WithRuntime(n), app')
    PROVE  Steady /\ DOMAIN app.watches \subseteq DOMAIN app'.watches
<1> DEFINE s == WithRuntime(n)
<1>1. /\ \A id \in DOMAIN app.watches :
            id \in DOMAIN s.watches /\ s.watches[id] = app.watches[id]
      /\ \A id \in DOMAIN s.watches :
            \/ id \in DOMAIN app.watches
            \/ id = FreshId /\ s.watches[id] = NewWatch(Tricks[n].loc)
      /\ \A m \in DOMAIN s.runtime :
            \/ m \in DOMAIN app.runtime /\ s.runtime[m] = app.runtime[m]
            \/ /\ m = n /\ s.runtime[m] = FreshId /\ FreshId \in DOMAIN s.watches
               /\ s.watches[FreshId] = NewWatch(Tricks[n].loc)
  BY RuntimeFacts
<1> HIDE DEF s
<1>2. /\ DOMAIN app'.watches = DOMAIN s.watches /\ app'.runtime = s.runtime
      /\ \A id \in DOMAIN s.watches : app'.watches[id].loc = s.watches[id].loc
  BY DEF Same, s
<1>3. NewWatch(Tricks[n].loc).loc = Tricks[n].loc
  BY DEF NewWatch
<1>4. \A id \in DOMAIN app'.watches :
        \/ id \in DOMAIN app.watches /\ app'.watches[id].loc = app.watches[id].loc
        \/ id = FreshId
  BY <1>1, <1>2
<1>5. \A m \in DOMAIN app'.runtime :
        \/ m \in DOMAIN app.runtime /\ app'.runtime[m] = app.runtime[m]
        \/ /\ m \in DOMAIN Tricks /\ app'.runtime[m] = FreshId
           /\ FreshId \in DOMAIN app'.watches
           /\ app'.watches[FreshId].loc = Tricks[m].loc
  BY <1>1, <1>2, <1>3
<1> QED
  BY <1>1, <1>2, <1>4, <1>5 DEF Steady

\* A switch that is done leaves its value.
DoneAsAsked(n, on) ==
    LET w == app'.watches[app'.runtime[n]]
    IN  /\ n \in DOMAIN app'.runtime /\ app'.runtime[n] \in DOMAIN app'.watches
        /\ w.desired = Target(n, on)
        /\ Tricks[n].mode = "freeze" => w.frozen = on
        /\ Tricks[n].mode = "write_pair" =>
            Resolve(w.loc) \in Address /\ memory'[Resolve(w.loc)] = Target(n, on)
        /\ n \in app'.active <=> on

\* One that fails reaches no further than this.
Contained(n, on) ==
    LET id == RuntimeId(n)
        w == WithRuntime(n).watches[id]
    IN  /\ \A a \in Address : memory'[a] # memory[a] =>
                a = Resolve(Tricks[n].loc) /\ memory'[a] = Target(n, on)
        /\ \A i \in (DOMAIN app.watches \cup DOMAIN app'.watches) \ {id} :
                /\ i \in DOMAIN app.watches \cap DOMAIN app'.watches
                /\ app'.watches[i] = app.watches[i]
        /\ id \in DOMAIN app'.watches =>
                /\ app'.watches[id].loc = w.loc
                /\ app'.watches[id].frozen \in {w.frozen, on}
                /\ app'.watches[id].desired \in {w.desired, Target(n, on)}
        /\ \A m \in app'.active \ app.active :
                IF Tricks[m].mode = "freeze" THEN IsActive(app', Tricks, m)
                ELSE memory'[Resolve(Tricks[m].loc)] = Tricks[m].enabled

LEMMA TargetValue ==
    ASSUME IInv, NEW n \in DOMAIN Tricks, NEW on \in BOOLEAN
    PROVE  Target(n, on) \in Value /\ Target(n, on) # NoValue
<1>1. Tricks[n] \in Trick /\ Complete(Tricks[n])
  BY DEF IInv, FilesOK, Catalog
<1>2. Target(n, on) \in Value
  BY <1>1 DEF Target, Trick, Complete
<1> QED
  BY <1>2, TrainerAssumption DEF Value, NoValue

Marks(active, n, on) == IF on THEN active \cup {n} ELSE active \ {n}

\* Marking a trick changes the active ones only.
LEMMA SwitchedKeeps ==
    ASSUME NEW s, NEW count, AppOK(s, count), NEW n \in Names, NEW on \in BOOLEAN
    PROVE  LET t == Switched(s, n, on)
           IN  /\ AppOK(t, count) /\ t.watches = s.watches /\ t.runtime = s.runtime
               /\ t.active = Marks(s.active, n, on)
<1> DEFINE A == Marks(s.active, n, on)
<1>1. A \subseteq Names
  BY DEF AppOK, Marks
<1>2. Switched(s, n, on) = [s EXCEPT !.active = A]
  BY DEF Switched, Marks
<1>3. A = Marks(s.active, n, on)
  OBVIOUS
<1> HIDE DEF A
<1>4. Switched(s, n, on) = [watches |-> s.watches, runtime |-> s.runtime, active |-> A]
  BY <1>2 DEF AppOK
<1> QED
  BY <1>1, <1>3, <1>4 DEF AppOK

LEMMA MarkKeeps ==
    ASSUME NEW s, NEW count, AppOK(s, count), NEW n \in Names, NEW on \in BOOLEAN
    PROVE  LET t == Switched(s, n, on)
               u == Mark(s, n, on)
           IN  /\ AppOK(u, count) /\ u.watches = s.watches /\ u.runtime = s.runtime
               /\ \A m : m \in u.active <=> m \in t.active /\ IsActive(t, Tricks, m)
<1> DEFINE t == Switched(s, n, on)
           u == Mark(s, n, on)
           A == {m \in t.active : IsActive(t, Tricks, m)}
<1>1. AppOK(t, count) /\ t.watches = s.watches /\ t.runtime = s.runtime
  BY SwitchedKeeps
<1>2. u = Listed(t, Tricks)
  BY DEF Mark
<1> HIDE DEF t, u
<1>3. u = [t EXCEPT !.active = A]
  BY <1>2 DEF Listed
<1>4. \A m : m \in A <=> m \in t.active /\ IsActive(t, Tricks, m)
  OBVIOUS
<1> HIDE DEF A
<1>5. u.active = A
  BY <1>1, <1>3 DEF AppOK
<1>6. AppOK(u, count) /\ u.watches = t.watches /\ u.runtime = t.runtime
  BY <1>1, <1>2, ListedKeeps
<1> QED
  BY <1>1, <1>4, <1>5, <1>6 DEF t, u

\* The tables after a freeze or a write of a switch, listed or not.
LEMMA SwitchedTables ==
    ASSUME IInv, NEW n \in DOMAIN Tricks, NEW on \in BOOLEAN,
           NEW count, count = IF HasRuntime(n) THEN created ELSE FreshId,
           NEW t, AppOK(t, count), Same(WithRuntime(n), t),
           app' \in {t, Mark(t, n, on), Switched(t, n, on)}
    PROVE  /\ AppOK(app', count) /\ Same(WithRuntime(n), app') /\ app'.watches = t.watches
           /\ app'.runtime = t.runtime
<1>1. n \in Names
  BY DEF IInv, FilesOK, Catalog
<1>2. CASE app' = t
  BY <1>2
<1>3. CASE app' = Mark(t, n, on)
  <2> DEFINE u == Mark(t, n, on)
  <2>1. AppOK(u, count) /\ u.watches = t.watches /\ u.runtime = t.runtime
    BY <1>1, MarkKeeps
  <2>2. app' = u
    BY <1>3
  <2> HIDE DEF u
  <2> QED
    BY <2>1, <2>2 DEF Same
<1>4. CASE app' = Switched(t, n, on)
  <2> DEFINE u == Switched(t, n, on)
  <2>1. AppOK(u, count) /\ u.watches = t.watches /\ u.runtime = t.runtime
    BY <1>1, SwitchedKeeps
  <2>2. app' = u
    BY <1>4
  <2> HIDE DEF u
  <2> QED
    BY <2>1, <2>2 DEF Same
<1> QED
  BY <1>2, <1>3, <1>4

\* The tables a switch may leave, with the runtime watch there is or a new one.
LEMMA SwitchCases ==
    ASSUME IInv, NEW n \in DOMAIN Tricks, NEW on \in BOOLEAN,
           NEW count, count = IF HasRuntime(n) THEN created ELSE FreshId,
           SwitchFreeze(n, on) \/ SwitchPair(n, on)
    PROVE  LET s == WithRuntime(n)
               id == RuntimeId(n)
           IN  \/ /\ Tricks[n].mode = "freeze" /\ memory' = memory
                  /\ \E t : /\ AppOK(t, count) /\ Changed(s, t, id)
                            /\ t.active \subseteq s.active /\ t.watches[id].frozen = on
                            /\ t.watches[id].desired = Target(n, on)
                            /\ \/ app' = Mark(t, n, on) /\ outcome' = "done"
                               \/ app' \in {t, Switched(t, n, on)} /\ outcome' = "refused"
               \/ /\ Tricks[n].mode = "write_pair" /\ Resolve(s.watches[id].loc) \in Address
                  /\ memory' = [memory EXCEPT ![Resolve(s.watches[id].loc)] = Target(n, on)]
                  /\ \E t : /\ AppOK(t, count) /\ WrittenTo(s, t, id, Target(n, on))
                            /\ \/ app' = Mark(t, n, on) /\ outcome' = "done"
                               \/ app' \in {t, Switched(t, n, on)} /\ outcome' = "refused"
               \/ app' = s /\ memory' = memory /\ outcome' = "refused"
<1> DEFINE s == WithRuntime(n)
           id == RuntimeId(n)
           v == Target(n, on)
<1>1. AppOK(s, count) /\ id \in DOMAIN s.watches
  BY RuntimeFacts
<1>2. v \in Value /\ v # NoValue
  BY TargetValue
<1>3. CASE SwitchFreeze(n, on)
  <2> DEFINE f == Frozen(s, id, on, v)
             t == WithFreeze(s, Tricks, id, on, v)
  <2>1. MayFreeze(s, id, on, v)
    BY <1>2 DEF MayFreeze
  <2>2. /\ AppOK(f, count) /\ Changed(s, f, id) /\ f.active = s.active
        /\ f.watches[id].frozen = on /\ f.watches[id].desired = v
    BY <1>1, <1>2, <2>1, FrozenKeeps
  <2>3. /\ AppOK(t, count) /\ Changed(s, t, id) /\ t.active \subseteq s.active
        /\ t.watches[id].frozen = on /\ t.watches[id].desired = v
    BY <1>1, <1>2, <2>1, FreezeKeeps
  <2>4. /\ Tricks[n].mode = "freeze" /\ memory' = memory
        /\ \/ app' = Mark(t, n, on) /\ outcome' = "done"
           \/ app' \in {f, Switched(t, n, on)} /\ outcome' = "refused"
    BY <1>3 DEF SwitchFreeze
  <2> HIDE DEF f, t
  <2> QED
    BY <2>2, <2>3, <2>4
<1>4. CASE SwitchPair(n, on)
  <2> DEFINE t == WithWritten(s, id, v)
             a == Resolve(s.watches[id].loc)
  <2>1. AppOK(t, count) /\ WrittenTo(s, t, id, v)
    BY <1>1, <1>2, WrittenKeeps
  <2>2. /\ Tricks[n].mode = "write_pair"
        /\ \/ /\ a \in Address /\ memory' = [memory EXCEPT ![a] = v]
              /\ \/ app' = Mark(t, n, on) /\ outcome' = "done"
                 \/ /\ app' \in WrittenInPart(s, id, v) \cup {Switched(t, n, on)}
                    /\ outcome' = "refused"
           \/ app' = s /\ memory' = memory /\ outcome' = "refused"
    BY <1>4 DEF SwitchPair, CanWrite, Writable, Marked
  <2> HIDE DEF t, a
  <2>3. app' \in WrittenInPart(s, id, v) => AppOK(app', count) /\ WrittenTo(s, app', id, v)
    BY <1>1, <1>2, PartKeeps
  <2> HIDE DEF s, id, v
  <2>4. CASE app' \in WrittenInPart(s, id, v) /\ a \in Address /\ outcome' = "refused"
             /\ memory' = [memory EXCEPT ![a] = v]
    BY <2>2, <2>3, <2>4 DEF a, s, id, v
  <2> QED
    BY <2>1, <2>2, <2>4 DEF a, s, id, v
<1> QED
  BY <1>3, <1>4

\* A runtime watch, there or new, is where the catalogue says.
LEMMA RuntimeCell ==
    ASSUME IInv, access # "none", NEW n \in DOMAIN Tricks
    PROVE  LET s == WithRuntime(n)
           IN  \A m \in DOMAIN s.runtime : s.runtime[m] \in DOMAIN s.watches =>
                    /\ m \in DOMAIN Tricks
                    /\ Resolve(s.watches[s.runtime[m]].loc) = Resolve(Tricks[m].loc)
<1> DEFINE s == WithRuntime(n)
<1> SUFFICES ASSUME NEW m \in DOMAIN s.runtime, s.runtime[m] \in DOMAIN s.watches
             PROVE  /\ m \in DOMAIN Tricks
                    /\ Resolve(s.watches[s.runtime[m]].loc) = Resolve(Tricks[m].loc)
  OBVIOUS
<1>1. /\ \A id \in DOMAIN app.watches :
            id \in DOMAIN s.watches /\ s.watches[id] = app.watches[id]
      /\ \A id \in DOMAIN s.watches :
            \/ id \in DOMAIN app.watches
            \/ id = FreshId /\ s.watches[id] = NewWatch(Tricks[n].loc)
      /\ \/ m \in DOMAIN app.runtime /\ s.runtime[m] = app.runtime[m]
         \/ /\ m = n /\ s.runtime[m] = FreshId /\ FreshId \in DOMAIN s.watches
            /\ s.watches[FreshId] = NewWatch(Tricks[n].loc)
  BY RuntimeFacts
<1> HIDE DEF s
<1>2. CASE m \in DOMAIN app.runtime /\ s.runtime[m] = app.runtime[m]
  <2>1. app.runtime[m] # FreshId
    BY <1>2 DEF IInv, AppOK, World, FreshId
  <2>2. app.runtime[m] \in DOMAIN app.watches /\ s.watches[s.runtime[m]] = app.watches[app.runtime[m]]
    BY <1>1, <1>2, <2>1
  <2>3. m \in DOMAIN Tricks /\ SameCell(app.watches[app.runtime[m]].loc, Tricks[m].loc)
    BY <1>2, <2>2 DEF IInv, Linked, OnCell
  <2> QED
    BY <2>2, <2>3 DEF SameCell, Resolve, Module
<1>3. CASE m = n /\ s.runtime[m] = FreshId /\ s.watches[FreshId] = NewWatch(Tricks[n].loc)
  BY <1>3 DEF NewWatch
<1> QED
  BY <1>1, <1>2, <1>3

LEMMA SwitchFacts ==
    ASSUME IInv, NEW n \in DOMAIN Tricks, NEW on \in BOOLEAN, SetTrickActive(n, on)
    PROVE  /\ Steady /\ DOMAIN app.watches \subseteq DOMAIN app'.watches
           /\ memory' \in [Address -> Value] /\ created' \in 0..MaxWatches
           /\ outcome' \in {"done", "refused"}
           /\ outcome' = "done" => DoneAsAsked(n, on)
<1>a. /\ AppOK(app, created) /\ created \in 0..MaxWatches /\ memory \in [Address -> Value]
      /\ n \in Names
  BY DEF IInv, World, FilesOK, Catalog
<1>b. Target(n, on) \in Value /\ Target(n, on) # NoValue
  BY TargetValue
<1>c. /\ DOMAIN Drop(app.runtime, {n}) \subseteq DOMAIN app.runtime
      /\ \A m \in DOMAIN Drop(app.runtime, {n}) :
              Drop(app.runtime, {n})[m] = app.runtime[m]
  BY DEF Drop
<1>1. CASE NoRuntime(n)
  <2>1. app' = [watches |-> app.watches, runtime |-> Drop(app.runtime, {n}),
                active |-> app.active]
    BY <1>1, <1>a DEF NoRuntime, AppOK
  <2>2. /\ app'.watches = app.watches /\ app'.active = app.active
        /\ DOMAIN app'.runtime \subseteq DOMAIN app.runtime
        /\ \A m \in DOMAIN app'.runtime : app'.runtime[m] = app.runtime[m]
    BY <2>1, <1>c
  <2>3. AppOK(app', created)
    BY <1>a, <2>1, <2>2 DEF AppOK
  <2>4. memory' = memory /\ created' = created /\ outcome' = "refused"
    BY <1>1 DEF NoRuntime
  <2>5. Steady
    BY <2>2, <2>3, <2>4 DEF Steady
  <2> QED
    BY <1>a, <2>2, <2>4, <2>5
<1>2. CASE ~HasRuntime(n) /\ created < MaxWatches /\ created' = FreshId /\ NoRuntimeOnRecord(n)
  <2> DEFINE w == NewWatch(Tricks[n].loc)
  <2>1. created' \in 0..MaxWatches /\ created \in Nat /\ FreshId = created + 1
    BY <1>2, <1>a, TrainerAssumption DEF FreshId
  <2>2. w \in Watch /\ ~w.frozen
    BY DEF IInv, FilesOK, Catalog, Trick, NewWatch, Watch
  <2>3. /\ app' = [watches |-> Put(app.watches, FreshId, w),
                   runtime |-> Drop(app.runtime, {n}), active |-> app.active]
        /\ memory' = memory /\ outcome' = "refused"
    BY <1>2, <1>a DEF NoRuntimeOnRecord, Added, AppOK
  <2> HIDE DEF w
  <2>4. /\ app'.watches = Put(app.watches, FreshId, w) /\ app'.active = app.active
        /\ DOMAIN app'.runtime \subseteq DOMAIN app.runtime
        /\ \A m \in DOMAIN app'.runtime : app'.runtime[m] = app.runtime[m]
    BY <2>3, <1>c
  <2>5. /\ DOMAIN app'.watches = DOMAIN app.watches \cup {FreshId}
        /\ app'.watches[FreshId] = w
        /\ \A id \in DOMAIN app.watches : id # FreshId => app'.watches[id] = app.watches[id]
    BY <2>4 DEF Put
  <2>6. /\ FreshId \notin DOMAIN app.watches /\ 1..created \subseteq 1..FreshId
        /\ FreshId \in 1..FreshId
    BY <1>a, <2>1 DEF AppOK, Watches
  <2>7. Watches(app'.watches, created')
    BY <1>2, <1>a, <2>2, <2>5, <2>6 DEF AppOK, Watches
  <2>8. AppOK(app', created')
    BY <1>2, <1>a, <2>3, <2>4, <2>6, <2>7 DEF AppOK
  <2>9. Steady
    BY <1>2, <2>4, <2>5, <2>6, <2>8 DEF Steady
  <2> QED
    BY <1>a, <2>1, <2>3, <2>5, <2>9
<1>3. ASSUME HasRuntime(n) \/ created < MaxWatches,
             created' = IF HasRuntime(n) THEN created ELSE FreshId,
             SwitchFreeze(n, on) \/ SwitchPair(n, on)
      PROVE  /\ Steady /\ DOMAIN app.watches \subseteq DOMAIN app'.watches
             /\ memory' \in [Address -> Value] /\ created' \in 0..MaxWatches
             /\ outcome' \in {"done", "refused"}
             /\ outcome' = "done" => DoneAsAsked(n, on)
  <2> DEFINE s == WithRuntime(n)
             id == RuntimeId(n)
  <2>1. /\ AppOK(s, created') /\ id \in DOMAIN s.watches
        /\ n \in DOMAIN s.runtime /\ s.runtime[n] = id
    BY <1>3, RuntimeFacts
  <2>2. created' \in 0..MaxWatches
    BY <1>3, <1>a, TrainerAssumption DEF FreshId
  <2>3. ASSUME NEW t, AppOK(t, created'), Same(s, t),
               app' \in {t, Mark(t, n, on), Switched(t, n, on)}
        PROVE  /\ Steady /\ DOMAIN app.watches \subseteq DOMAIN app'.watches
               /\ app'.watches = t.watches /\ app'.runtime = t.runtime
    <3>1. /\ AppOK(app', created') /\ Same(s, app') /\ app'.watches = t.watches
          /\ app'.runtime = t.runtime
      BY <1>3, <2>3, SwitchedTables
    <3> QED
      BY <1>3, <3>1, RuntimeSteady
  <2>4. ASSUME NEW t, AppOK(t, created'), Same(s, t), t.watches[id].desired = Target(n, on),
               Tricks[n].mode = "freeze" => t.watches[id].frozen = on,
               Tricks[n].mode = "write_pair" =>
                    /\ Resolve(s.watches[id].loc) \in Address
                    /\ memory' = [memory EXCEPT ![Resolve(s.watches[id].loc)] = Target(n, on)],
               app' = Mark(t, n, on)
        PROVE  DoneAsAsked(n, on)
    <3> DEFINE sw == Switched(t, n, on)
    <3>1. /\ app'.watches = t.watches /\ app'.runtime = t.runtime
          /\ \A m : m \in app'.active <=> m \in sw.active /\ IsActive(sw, Tricks, m)
      BY <1>a, <2>4, MarkKeeps
    <3>2. /\ sw.watches = t.watches /\ sw.runtime = t.runtime
          /\ sw.active = Marks(t.active, n, on)
      BY <1>a, <2>4, SwitchedKeeps
    <3> HIDE DEF sw, s, id
    <3>3. /\ t.runtime = s.runtime /\ DOMAIN t.watches = DOMAIN s.watches
          /\ t.watches[id].loc = s.watches[id].loc
      BY <2>1, <2>4 DEF Same
    <3>4. on => Target(n, on) = Tricks[n].enabled
      BY DEF Target
    <3>5. on => IsActive(sw, Tricks, n)
      <4>1. on /\ Tricks[n].mode = "freeze" => t.watches[id].frozen
        BY <2>4
      <4>2. sw.runtime[n] = id /\ n \in DOMAIN sw.runtime /\ id \in DOMAIN sw.watches
        BY <2>1, <3>2, <3>3
      <4>3. sw.watches[id] = t.watches[id]
        BY <3>2
      <4>4. on => t.watches[id].desired = Tricks[n].enabled
        BY <2>4, <3>4
      <4>5. on => n \in sw.active
        BY <3>2 DEF Marks
      <4> QED
        BY <4>1, <4>2, <4>3, <4>4, <4>5 DEF IsActive
    <3>6. n \in app'.active <=> on
      BY <3>1, <3>2, <3>5 DEF Marks
    <3>7. Tricks[n].mode = "write_pair" =>
            memory'[Resolve(s.watches[id].loc)] = Target(n, on)
      BY <1>a, <2>4
    <3> QED
      BY <2>1, <2>4, <3>1, <3>3, <3>6, <3>7 DEF DoneAsAsked
  <2>5. CASE /\ Tricks[n].mode = "freeze" /\ memory' = memory
             /\ \E t : /\ AppOK(t, created') /\ Changed(s, t, id)
                       /\ t.active \subseteq s.active /\ t.watches[id].frozen = on
                       /\ t.watches[id].desired = Target(n, on)
                       /\ \/ app' = Mark(t, n, on) /\ outcome' = "done"
                          \/ app' \in {t, Switched(t, n, on)} /\ outcome' = "refused"
    <3>1. PICK t : /\ AppOK(t, created') /\ Changed(s, t, id)
                   /\ t.active \subseteq s.active /\ t.watches[id].frozen = on
                   /\ t.watches[id].desired = Target(n, on)
                   /\ \/ app' = Mark(t, n, on) /\ outcome' = "done"
                      \/ app' \in {t, Switched(t, n, on)} /\ outcome' = "refused"
      BY <2>5
    <3>2. Same(s, t) /\ app' \in {t, Mark(t, n, on), Switched(t, n, on)}
      BY <3>1 DEF Changed
    <3>3. Steady /\ DOMAIN app.watches \subseteq DOMAIN app'.watches
      BY <2>3, <3>1, <3>2
    <3>4. outcome' = "done" => DoneAsAsked(n, on)
      BY <2>4, <2>5, <3>1, <3>2
    <3> QED
      BY <1>a, <2>2, <2>5, <3>1, <3>3, <3>4
  <2>6. CASE /\ Tricks[n].mode = "write_pair" /\ Resolve(s.watches[id].loc) \in Address
             /\ memory' = [memory EXCEPT ![Resolve(s.watches[id].loc)] = Target(n, on)]
             /\ \E t : /\ AppOK(t, created') /\ WrittenTo(s, t, id, Target(n, on))
                       /\ \/ app' = Mark(t, n, on) /\ outcome' = "done"
                          \/ app' \in {t, Switched(t, n, on)} /\ outcome' = "refused"
    <3>1. PICK t : /\ AppOK(t, created') /\ WrittenTo(s, t, id, Target(n, on))
                   /\ \/ app' = Mark(t, n, on) /\ outcome' = "done"
                      \/ app' \in {t, Switched(t, n, on)} /\ outcome' = "refused"
      BY <2>6
    <3>2. /\ Same(s, t) /\ app' \in {t, Mark(t, n, on), Switched(t, n, on)}
          /\ t.watches[id].desired = Target(n, on)
      BY <3>1 DEF WrittenTo, Changed
    <3>3. Steady /\ DOMAIN app.watches \subseteq DOMAIN app'.watches
      BY <2>3, <3>1, <3>2
    <3>4. outcome' = "done" => DoneAsAsked(n, on)
      BY <2>4, <2>6, <3>1, <3>2
    <3>5. memory' \in [Address -> Value]
      BY <1>a, <1>b, <2>6
    <3> QED
      BY <2>2, <3>1, <3>3, <3>4, <3>5
  <2>7. CASE app' = s /\ memory' = memory /\ outcome' = "refused"
    <3> HIDE DEF s
    <3>1. Same(s, app') /\ AppOK(app', created')
      BY <2>1, <2>7 DEF Same
    <3>2. Steady /\ DOMAIN app.watches \subseteq DOMAIN app'.watches
      BY <1>3, <3>1, RuntimeSteady DEF s
    <3> QED
      BY <1>a, <2>2, <2>7, <3>2
  <2> HIDE DEF s, id
  <2> QED
    BY <1>3, <2>5, <2>6, <2>7, SwitchCases DEF s, id
<1>4. NoRuntimeOnRecord(n) => ~HasRuntime(n)
  BY DEF NoRuntimeOnRecord
<1> QED
  BY <1>1, <1>2, <1>3, <1>4 DEF SetTrickActive

\* A switch that fails reaches its own cell and watch, and marks nothing else.
LEMMA RefusedFacts ==
    ASSUME IInv, access # "none", NEW n \in DOMAIN Tricks, NEW on \in BOOLEAN,
           SetTrickActive(n, on), outcome' = "refused"
    PROVE  Contained(n, on)
<1> DEFINE s == WithRuntime(n)
           id == RuntimeId(n)
           v == Target(n, on)
<1>a. AppOK(app, created) /\ memory \in [Address -> Value] /\ n \in Names
  BY DEF IInv, World, FilesOK, Catalog
<1>b. FreshId \notin DOMAIN app.watches
  BY <1>a DEF IInv, World, FreshId, AppOK, Watches
<1>c. ~HasRuntime(n) => id = FreshId
  BY DEF RuntimeId
<1>d. HasRuntime(n) => s = app
  BY DEF WithRuntime
<1>1. CASE NoRuntime(n)
  <2>1. app' = [watches |-> app.watches, runtime |-> Drop(app.runtime, {n}),
                active |-> app.active]
    BY <1>1, <1>a DEF NoRuntime, AppOK
  <2>2. app'.watches = app.watches /\ app'.active = app.active /\ memory' = memory
    BY <2>1, <1>1 DEF NoRuntime
  <2>3. id \notin DOMAIN app'.watches
    BY <1>1, <1>b, <1>c, <2>2 DEF NoRuntime
  <2> HIDE DEF id
  <2> QED
    BY <2>2, <2>3 DEF Contained, id
<1>2. CASE NoRuntimeOnRecord(n)
  <2> DEFINE w == NewWatch(Tricks[n].loc)
  <2>1. /\ app' = [watches |-> Put(app.watches, FreshId, w),
                   runtime |-> Drop(app.runtime, {n}), active |-> app.active]
        /\ memory' = memory /\ ~HasRuntime(n)
    BY <1>2, <1>a DEF NoRuntimeOnRecord, Added, AppOK
  <2>2. app'.watches = Put(app.watches, FreshId, w) /\ app'.active = app.active
    BY <2>1
  <2>3. s.watches[id] = w
    BY <1>b, <2>1, <1>c, RuntimeFacts
  <2> HIDE DEF w, s, id
  <2>4. /\ DOMAIN app'.watches = DOMAIN app.watches \cup {FreshId}
        /\ app'.watches[FreshId] = w
        /\ \A x \in DOMAIN app.watches : x # FreshId => app'.watches[x] = app.watches[x]
    BY <2>2 DEF Put
  <2> QED
    BY <1>b, <1>c, <2>1, <2>2, <2>3, <2>4 DEF Contained, s, id
<1>3. CASE SwitchFreeze(n, on) \/ SwitchPair(n, on)
  <2> DEFINE count == IF HasRuntime(n) THEN created ELSE FreshId
  <2>1. /\ AppOK(s, count) /\ id \in DOMAIN s.watches
        /\ n \in DOMAIN s.runtime /\ s.runtime[n] = id
        /\ s.active = app.active
        /\ \A x \in DOMAIN app.watches :
                x \in DOMAIN s.watches /\ s.watches[x] = app.watches[x]
        /\ \A x \in DOMAIN s.watches : x \in DOMAIN app.watches \/ x = FreshId
    BY RuntimeFacts
  <2>2. \A x \in DOMAIN s.watches : x # id => x \in DOMAIN app.watches
    BY <1>c, <1>d, <2>1
  <2>3. \A m \in DOMAIN s.runtime : s.runtime[m] = id =>
            Resolve(Tricks[m].loc) = Resolve(s.watches[id].loc)
    BY <2>1, RuntimeCell
  <2>4. on => v = Tricks[n].enabled
    BY DEF Target
  \* What all of them have in common.
  <2>5. ASSUME NEW t, AppOK(t, count), Changed(s, t, id),
               t.watches[id].frozen \in {s.watches[id].frozen, on},
               t.watches[id].desired \in {s.watches[id].desired, v},
               app'.watches = t.watches,
               \/ memory' = memory
               \/ /\ Resolve(s.watches[id].loc) \in Address
                  /\ memory' = [memory EXCEPT ![Resolve(s.watches[id].loc)] = v],
               \A m \in app'.active \ app.active :
                    IF Tricks[m].mode = "freeze" THEN IsActive(app', Tricks, m)
                    ELSE memory'[Resolve(Tricks[m].loc)] = Tricks[m].enabled
        PROVE  Contained(n, on)
    <3>1. \A a \in Address : memory'[a] # memory[a] =>
            a = Resolve(Tricks[n].loc) /\ memory'[a] = v
      BY <1>a, <2>1, <2>3, <2>5
    <3>2. DOMAIN t.watches = DOMAIN s.watches /\ t.watches[id].loc = s.watches[id].loc
      BY <2>1, <2>5 DEF Changed, Same
    <3>3. \A x \in (DOMAIN app.watches \cup DOMAIN app'.watches) \ {id} :
                /\ x \in DOMAIN app.watches \cap DOMAIN app'.watches
                /\ app'.watches[x] = app.watches[x]
      BY <2>1, <2>2, <2>5, <3>2 DEF Changed
    <3> HIDE DEF s, id, v
    <3> QED
      BY <2>5, <3>1, <3>2, <3>3 DEF Contained, s, id, v
  <2>6. CASE /\ Tricks[n].mode = "freeze" /\ memory' = memory
             /\ \E t : /\ AppOK(t, count) /\ Changed(s, t, id)
                       /\ t.active \subseteq s.active /\ t.watches[id].frozen = on
                       /\ t.watches[id].desired = v
                       /\ \/ app' = Mark(t, n, on) /\ outcome' = "done"
                          \/ app' \in {t, Switched(t, n, on)} /\ outcome' = "refused"
    <3>1. PICK t : /\ AppOK(t, count) /\ Changed(s, t, id)
                   /\ t.active \subseteq s.active /\ t.watches[id].frozen = on
                   /\ t.watches[id].desired = v
                   /\ app' \in {t, Switched(t, n, on)}
      BY <2>6
    <3>2. /\ app'.watches = t.watches /\ app'.runtime = t.runtime
          /\ app'.active \subseteq t.active \cup (IF on THEN {n} ELSE {})
      <4> DEFINE u == Switched(t, n, on)
      <4>1. /\ u.watches = t.watches /\ u.runtime = t.runtime
            /\ u.active = Marks(t.active, n, on)
        BY <1>a, <3>1, SwitchedKeeps
      <4> HIDE DEF u
      <4> QED
        BY <3>1, <4>1 DEF u, Marks
    <3>3. t.runtime = s.runtime /\ DOMAIN t.watches = DOMAIN s.watches
      BY <3>1 DEF Changed, Same
    <3>4. \A m \in app'.active \ app.active : m = n /\ on
      BY <2>1, <3>1, <3>2
    <3>5. n \in app'.active /\ on => IsActive(app', Tricks, n)
      <4>1. on => t.watches[id].frozen
        BY <3>1
      <4>2. app'.runtime[n] = id /\ n \in DOMAIN app'.runtime /\ id \in DOMAIN app'.watches
        BY <2>1, <3>2, <3>3
      <4>3. app'.watches[id] = t.watches[id]
        BY <3>2
      <4>4. on => t.watches[id].desired = Tricks[n].enabled
        BY <2>4, <3>1
      <4> HIDE DEF id, s, v
      <4> QED
        BY <4>1, <4>2, <4>3, <4>4 DEF IsActive
    <3>6. \A m \in app'.active \ app.active :
            IF Tricks[m].mode = "freeze" THEN IsActive(app', Tricks, m)
            ELSE memory'[Resolve(Tricks[m].loc)] = Tricks[m].enabled
      BY <2>6, <3>4, <3>5
    <3> HIDE DEF s, id, v, count
    <3> QED
      BY <2>5, <2>6, <3>1, <3>2, <3>6
  <2>7. CASE /\ Tricks[n].mode = "write_pair" /\ Resolve(s.watches[id].loc) \in Address
             /\ memory' = [memory EXCEPT ![Resolve(s.watches[id].loc)] = v]
             /\ \E t : /\ AppOK(t, count) /\ WrittenTo(s, t, id, v)
                       /\ \/ app' = Mark(t, n, on) /\ outcome' = "done"
                          \/ app' \in {t, Switched(t, n, on)} /\ outcome' = "refused"
    <3>1. PICK t : /\ AppOK(t, count) /\ WrittenTo(s, t, id, v)
                   /\ app' \in {t, Switched(t, n, on)}
      BY <2>7
    <3>2. /\ app'.watches = t.watches
          /\ app'.active \subseteq t.active \cup (IF on THEN {n} ELSE {})
      <4> DEFINE u == Switched(t, n, on)
      <4>1. /\ u.watches = t.watches
            /\ u.active = Marks(t.active, n, on)
        BY <1>a, <3>1, SwitchedKeeps
      <4> HIDE DEF u
      <4> QED
        BY <3>1, <4>1 DEF u, Marks
    <3>3. memory'[Resolve(s.watches[id].loc)] = v
      BY <1>a, <2>7
    <3>4. ASSUME NEW m \in app'.active \ app.active
          PROVE  /\ m \in DOMAIN s.runtime /\ s.runtime[m] = id
                 /\ Tricks[m].mode = "write_pair" /\ Tricks[m].enabled = v
      <4>1. CASE m = n /\ on
        BY <2>1, <2>4, <2>7, <4>1
      <4>2. CASE m \in t.active
        BY <2>1, <3>1, <3>4, <4>2 DEF WrittenTo, MappedTo
      <4> QED
        BY <3>2, <3>4, <4>1, <4>2
    <3>5. \A m \in app'.active \ app.active :
            IF Tricks[m].mode = "freeze" THEN IsActive(app', Tricks, m)
            ELSE memory'[Resolve(Tricks[m].loc)] = Tricks[m].enabled
      BY <2>3, <3>3, <3>4
    <3>6. /\ Changed(s, t, id) /\ t.watches[id].frozen = s.watches[id].frozen
          /\ t.watches[id].desired = v
      BY <3>1 DEF WrittenTo
    <3> HIDE DEF s, id, v, count
    <3> QED
      BY <2>5, <2>7, <3>1, <3>2, <3>5, <3>6
  <2>8. CASE app' = s /\ memory' = memory
    <3>1. Changed(s, s, id)
      BY DEF Changed, Same
    <3>2. app'.active \ app.active = {}
      BY <2>1, <2>8
    <3> HIDE DEF s, id, v, count
    <3> QED
      BY <2>1, <2>5, <2>8, <3>1, <3>2
  <2> HIDE DEF s, id, v
  <2> QED
    BY <1>3, <2>6, <2>7, <2>8, SwitchCases DEF s, id, v
<1> QED
  BY <1>1, <1>2, <1>3 DEF SetTrickActive

-----------------------------------------------------------------------------
(* Saving.                                                                 *)

\* The portable form of a location is on its cell, now and in later starts.
LEMMA PortableFacts ==
    ASSUME proc.base \in Nat, NEW loc \in Location, NEW modules
    PROVE  /\ Portable(loc, modules) \in Location
           /\ SameCell(loc, Portable(loc, modules))
           /\ NamesCell(Portable(loc, modules), Cell(Resolve(loc)), modules # {})
<1>1. loc.at \in Nat /\ loc.mode \in {"absolute", "module_offset", "pointer_chain"}
  BY DEF Location
<1>2. CASE loc.mode = "absolute" /\ modules # {} /\ InModule(loc.at)
  <2>1. loc.at - proc.base \in Nat /\ loc.at = proc.base + (loc.at - proc.base)
    BY <1>1, <1>2, TrainerAssumption DEF InModule, Module
  <2>2. Portable(loc, modules) = [mode |-> "module_offset", at |-> loc.at - proc.base]
    BY <1>2 DEF Portable, Module
  <2>3. Cell(Resolve(loc)).at = loc.at - proc.base
    BY <1>2 DEF Cell, Resolve, Module
  <2> QED
    BY <1>2, <2>1, <2>2, <2>3 DEF Location, SameCell, NamesCell
<1>3. CASE loc.mode = "absolute" /\ ~InModule(loc.at)
  <2>1. Portable(loc, modules) = loc /\ ~Cell(Resolve(loc)).module
    BY <1>3 DEF Portable, Cell, Resolve
  <2> QED
    BY <2>1 DEF SameCell, NamesCell
<1>4. CASE loc.mode = "absolute" /\ modules = {}
  BY <1>4 DEF Portable, SameCell, NamesCell
<1>5. CASE loc.mode = "module_offset"
  <2>1. Portable(loc, modules) = loc /\ Resolve(loc) = proc.base + loc.at
    BY <1>5 DEF Portable, Resolve, Module
  <2>2. Cell(Resolve(loc)).module => Cell(Resolve(loc)).at = loc.at
    BY <1>1, <2>1 DEF Cell, Module
  <2> QED
    BY <1>5, <2>1, <2>2 DEF SameCell, NamesCell
<1>6. CASE loc.mode = "pointer_chain"
  <2>1. Portable(loc, modules) = loc
    BY <1>6 DEF Portable
  <2> QED
    BY <1>6, <2>1 DEF SameCell, NamesCell
<1> QED
  BY <1>1, <1>2, <1>3, <1>4, <1>5, <1>6

\* A save begins while no other is in progress.
LEMMA SavingBegins ==
    ASSUME IInv, World', AppOK(app', created), Same(app, app'), saving = NoSave,
           UNCHANGED <<proc, access, created, file, workspace, tested>>,
           dialog' = NoDialog, SavingOK',
           saving'.kind = "save" =>
                /\ OnCell(saving'.id, saving'.trick.loc)
                /\ NamesCell(saving'.trick.loc, saving'.cell, saving'.listed)
    PROVE  IInv'
<1>1. Tricks' = Tricks /\ Stored' = Stored
  BY DEF Tricks, Stored
<1>2. /\ DOMAIN app'.watches = DOMAIN app.watches /\ app'.runtime = app.runtime
      /\ \A id \in DOMAIN app.watches : app'.watches[id].loc = app.watches[id].loc
  BY DEF Same
<1>3. FilesOK' /\ AppOK(app', created')
  BY <1>1 DEF IInv, FilesOK
<1>4. Agree'
  BY <1>1, <1>2 DEF IInv, Agree
<1>5. ASSUME NEW id, NEW loc, OnCell(id, loc)
      PROVE  OnCell(id, loc)'
  BY <1>1, <1>2, <1>5 DEF OnCell, SameCell
<1>6. Linked'
  <2> SUFFICES ASSUME access' # "none" PROVE Linked'
    BY DEF Linked
  <2>1. ASSUME NEW n, n \in DOMAIN app'.runtime
        PROVE  (n \in DOMAIN Tricks /\ OnCell(app.runtime[n], Tricks[n].loc))'
    <3>1. n \in DOMAIN Tricks /\ OnCell(app.runtime[n], Tricks[n].loc)
      BY <1>2, <2>1 DEF IInv, Linked
    <3>2. app'.runtime[n] = app.runtime[n] /\ Tricks'[n].loc = Tricks[n].loc
      BY <1>1, <1>2
    <3> QED
      BY <1>1, <1>2, <3>1, <3>2 DEF OnCell, SameCell
  <2>2. (saving # NoSave /\ saving.kind = "save" => OnCell(saving.id, saving.trick.loc))'
    BY <1>1, <1>2 DEF OnCell, SameCell
  <2> QED
    BY <2>1, <2>2 DEF Linked
<1>7. Remembered'
  BY <1>1 DEF IInv, Remembered, NamesCell
<1>8. DialogOK' /\ ShownNow'
  BY DEF NoDialog, DialogOK, ShownNow
<1> QED
  BY <1>3, <1>4, <1>6, <1>7, <1>8 DEF IInv

LEMMA SaveBegins ==
    ASSUME IInv, World', NEW id \in DOMAIN app.watches, NEW n \in Names,
           NEW draft \in Draft, BeginSaveTrick(id, n, draft),
           saving = NoSave, dialog' = NoDialog,
           UNCHANGED <<proc, access, app, created, workspace, tested>>
    PROVE  IInv'
<1> DEFINE loc == app.watches[id].loc
           Save(modules) ==
                [kind |-> "save", name |-> n, id |-> id,
                 cell |-> Cell(Resolve(loc)), listed |-> modules # {},
                 trick |-> [loc |-> Portable(loc, modules), mode |-> draft.mode,
                            enabled |-> draft.enabled, disabled |-> draft.disabled]]
<1>1. loc \in Location
  BY DEF IInv, AppOK, Watches, Watch
<1>2. proc.base \in Nat
  BY TrainerAssumption DEF IInv, World
<1>3. \E modules \in SafeModules :
        saving' = Save(modules) /\ temp' = Torn /\ file' = file /\ Complete(draft)
  BY DEF BeginSaveTrick, BeginWrite
<1> HIDE DEF loc
<1>4. PICK modules \in SafeModules :
        saving' = Save(modules) /\ temp' = Torn /\ file' = file /\ Complete(draft)
  BY <1>3
<1> DEFINE to == Portable(loc, modules)
           trick == [loc |-> to, mode |-> draft.mode,
                     enabled |-> draft.enabled, disabled |-> draft.disabled]
<1>5. /\ to \in Location /\ SameCell(loc, to)
      /\ NamesCell(to, Cell(Resolve(loc)), modules # {})
  BY <1>1, <1>2, PortableFacts
<1>6. /\ saving'.kind = "save" /\ saving'.name = n /\ saving'.id = id
      /\ saving'.trick = trick /\ saving'.cell = Cell(Resolve(loc))
      /\ saving'.listed = (modules # {})
  BY <1>4
<1> HIDE DEF Save, to
<1>7. trick \in Trick /\ Complete(trick) /\ trick.loc = to
  BY <1>4, <1>5 DEF Draft, Trick, Complete
<1> HIDE DEF trick
<1>8. SavingOK'
  BY <1>4, <1>6, <1>7 DEF SavingOK
<1>9. OnCell(id, to)
  BY <1>5 DEF IInv, Agree, OnCell, loc
<1>10. AppOK(app', created) /\ Same(app, app')
  BY DEF IInv, Same
<1> QED
  BY <1>4, <1>5, <1>6, <1>7, <1>8, <1>9, <1>10, SavingBegins

LEMMA EditBegins ==
    ASSUME IInv, World', NEW n \in DOMAIN Tricks, NEW enabled \in Value,
           NEW disabled \in Value \cup {NoValue}, UpdateTrickValues(n, enabled, disabled)
    PROVE  IInv'
<1> DEFINE trick == WithValues(Tricks[n], enabled, disabled)
<1>1. Tricks[n] \in Trick /\ n \in Names
  BY DEF IInv, FilesOK, Catalog
<1>2. /\ saving = NoSave /\ dialog' = NoDialog
      /\ BothValues(n, disabled)
      /\ saving' = [kind |-> "edit", name |-> n, trick |-> trick]
      /\ temp' = Torn /\ file' = file
      /\ app' = [app EXCEPT !.active = @ \ {n}]
      /\ UNCHANGED <<proc, access, created, workspace, tested>>
  BY DEF UpdateTrickValues, Free, Responsive, BeginWrite
<1>3. /\ trick \in Trick /\ Complete(trick) /\ trick.loc = Tricks[n].loc
  BY <1>1, <1>2 DEF WithValues, Trick, Complete, BothValues
<1> HIDE DEF trick
<1>4. saving'.kind = "edit" /\ saving'.name = n /\ saving'.trick = trick
  BY <1>2
<1>5. Tricks' = Tricks
  BY <1>2 DEF Tricks
<1>6. SavingOK'
  BY <1>1, <1>2, <1>3, <1>4, <1>5 DEF SavingOK
<1>7. AppOK(app, created)
  BY DEF IInv
<1>8. app' = [watches |-> app.watches, runtime |-> app.runtime, active |-> app.active \ {n}]
  BY <1>2, <1>7 DEF AppOK
<1>9. AppOK(app', created) /\ Same(app, app')
  BY <1>7, <1>8 DEF AppOK, Same
<1> QED
  BY <1>2, <1>4, <1>6, <1>9, SavingBegins

\* Only the save in progress goes on, or ends without a catalogue.
LEMMA SavingStep ==
    ASSUME IInv, World', saving' \in {saving, NoSave}, SavingOK',
           UNCHANGED <<proc, access, app, created, file, workspace, dialog, tested>>
    PROVE  IInv'
<1>1. Tricks' = Tricks /\ Stored' = Stored
  BY DEF Tricks, Stored
<1>2. AppOK(app', created') /\ FilesOK'
  BY <1>1 DEF IInv, FilesOK
<1>3. DialogOK'
  BY <1>1 DEF IInv, DialogOK
<1>4. Agree'
  BY <1>1 DEF IInv, Agree
<1>5. Linked'
  BY <1>1 DEF IInv, Linked, OnCell, SameCell
<1>6. Remembered'
  BY <1>1 DEF IInv, Remembered, NamesCell
<1>7. ShownNow'
  <2>1. CASE saving = NoSave
    <3>1. Same(app, app') /\ AppOK(app', created)
      BY DEF IInv, Same
    <3>2. Steady
      BY <3>1, SameSteady
    <3> QED
      BY <3>2, DialogStep DEF SameStart
  <2>2. CASE saving # NoSave
    BY <2>2 DEF IInv, SavingOK, NoDialog, ShownNow
  <2> QED
    BY <2>1, <2>2
<1> QED
  BY <1>2, <1>3, <1>4, <1>5, <1>6, <1>7 DEF IInv

\* The new catalogue: the trick saved replaces or follows the others.
LEMMA NewCatalog ==
    ASSUME IInv, saving # NoSave, temp \notin {Torn, NoFile}, file' = temp,
           UNCHANGED <<workspace, created>>
    PROVE  /\ FilesOK'
           /\ DOMAIN Tricks' = DOMAIN Tricks \cup {saving.name}
           /\ Tricks'[saving.name] = saving.trick
           /\ \A n \in DOMAIN Tricks : n # saving.name => Tricks'[n] = Tricks[n]
<1>1. /\ temp = Put(Tricks, saving.name, saving.trick) /\ saving.name \in Names
      /\ saving.trick \in Trick /\ Complete(saving.trick)
  BY DEF IInv, SavingOK
<1>2. Tricks' = Put(Tricks, saving.name, saving.trick)
  BY <1>1 DEF Tricks
<1>3. /\ DOMAIN Tricks' = DOMAIN Tricks \cup {saving.name}
      /\ Tricks'[saving.name] = saving.trick
      /\ \A n \in DOMAIN Tricks : n # saving.name => Tricks'[n] = Tricks[n]
  BY <1>2 DEF Put
<1>4. Catalog(Tricks')
  BY <1>1, <1>3 DEF IInv, FilesOK, Catalog
<1>5. Stored' = Stored
  BY DEF Stored
<1>6. FilesOK'
  BY <1>4, <1>5 DEF IInv, FilesOK
<1> QED
  BY <1>3, <1>6

\* What the tables become: as before, but for the runtime watch of a trick saved.
TablesKept ==
    /\ AppOK(app', created)
    /\ DOMAIN app'.watches = DOMAIN app.watches
    /\ \A id \in DOMAIN app.watches : app'.watches[id].loc = app.watches[id].loc
    /\ access' # "none" =>
         \A n \in DOMAIN app'.runtime :
             \/ /\ n \in DOMAIN app.runtime /\ app'.runtime[n] = app.runtime[n]
                /\ n = saving.name => saving.kind = "edit"
             \/ /\ n = saving.name /\ saving.kind = "save"
                /\ app'.runtime[n] = saving.id

LEMMA ReplacedApp ==
    ASSUME IInv, ReplaceFile PROVE TablesKept
<1> DEFINE id == saving.id
           n == saving.name
           value == saving.trick.enabled
           r == [app EXCEPT !.runtime = SavedRuntime(n, id)]
<1>1. /\ AppOK(app, created) /\ saving # NoSave
      /\ saving.kind \in {"save", "edit"} /\ n \in Names
      /\ saving.trick \in Trick /\ value \in Value /\ value # NoValue
      /\ saving.kind = "save" => id \in DOMAIN app.watches
  BY TrainerAssumption DEF ReplaceFile, IInv, SavingOK, Trick, Value, NoValue
<1>2. CASE AccessLost /\ app' = Detached(app)
  <2>1. app' = [watches |-> app.watches, runtime |-> Empty, active |-> {}] /\ access' = "none"
    BY <1>1, <1>2 DEF Detached, AppOK, AccessLost
  <2>2. DOMAIN Empty = {}
    BY DEF Empty
  <2> QED
    BY <1>1, <2>1, <2>2 DEF AppOK, TablesKept
\* A trick saved, with its freeze, unless that is what failed, and its mark.
<1>3. ASSUME saving.kind = "save", NEW h, AppOK(h, created), Same(r, h),
             NEW k, k = [h EXCEPT !.active = @ \cup {n}],
             app' \in {h, k, Listed(k, temp)}
      PROVE  TablesKept
  <2>1. r = [watches |-> app.watches, runtime |-> Put(app.runtime, n, id), active |-> app.active]
    BY <1>1 DEF SavedRuntime, AppOK
  <2>2. /\ DOMAIN Put(app.runtime, n, id) = DOMAIN app.runtime \cup {n}
        /\ Put(app.runtime, n, id)[n] = id
        /\ \A m \in DOMAIN app.runtime : m # n => Put(app.runtime, n, id)[m] = app.runtime[m]
    BY DEF Put
  <2> HIDE DEF r
  <2>3. /\ r.watches = app.watches /\ DOMAIN r.runtime = DOMAIN app.runtime \cup {n}
        /\ r.runtime[n] = id
        /\ \A m \in DOMAIN app.runtime : m # n => r.runtime[m] = app.runtime[m]
    BY <2>1, <2>2
  <2>4. k = [watches |-> h.watches, runtime |-> h.runtime, active |-> h.active \cup {n}]
    BY <1>3 DEF AppOK
  <2> HIDE DEF n
  <2>5. /\ k.watches = h.watches /\ k.runtime = h.runtime
        /\ k.active = h.active \cup {n}
    BY <2>4
  <2>6. AppOK(k, created)
    BY <1>1, <1>3, <2>4, <2>5 DEF AppOK
  <2>7. AppOK(app', created) /\ app'.watches = h.watches /\ app'.runtime = h.runtime
    <3>1. CASE app' = h \/ app' = k
      BY <1>3, <2>5, <2>6, <3>1
    <3>2. CASE app' = Listed(k, temp)
      BY <2>5, <2>6, <3>2, ListedKeeps
    <3> QED
      BY <1>3, <3>1, <3>2
  <2> QED
    BY <1>1, <1>3, <2>3, <2>7 DEF Same, TablesKept, n
<1>4. CASE saving.kind = "save" /\ ~(AccessLost /\ app' = Detached(app))
  <2>1. AppOK(r, created) /\ Same(r, r) /\ id \in DOMAIN r.watches
    <3>1. r = [watches |-> app.watches, runtime |-> Put(app.runtime, n, id),
               active |-> app.active]
      BY <1>1 DEF SavedRuntime, AppOK
    <3>2. /\ r.watches = app.watches /\ r.active = app.active
          /\ r.runtime = Put(app.runtime, n, id)
      BY <3>1
    <3>3. \A m \in DOMAIN Put(app.runtime, n, id) :
            m \in Names /\ Put(app.runtime, n, id)[m] \in 1..created
      BY <1>1, <1>4 DEF Put, AppOK, Watches
    <3> HIDE DEF r, id, n
    <3> QED
      BY <1>1, <1>4, <3>1, <3>2, <3>3 DEF AppOK, Same
  <2> DEFINE yes == TRUE
             f == Frozen(r, id, yes, value)
             w == WithFreeze(r, temp, id, yes, value)
             Marking(h) == [h EXCEPT !.active = @ \cup {n}]
  <2>2. yes \in BOOLEAN /\ MayFreeze(r, id, yes, value)
    BY <1>1 DEF MayFreeze
  <2> HIDE DEF r, id, n, value, yes
  <2>3. AppOK(f, created) /\ Same(r, f)
    <3>1. AppOK(f, created) /\ Changed(r, f, id)
      BY <1>1, <2>1, <2>2, FrozenKeeps
    <3> QED
      BY <3>1 DEF Changed
  <2>4. AppOK(w, created) /\ Same(r, w)
    <3>1. AppOK(w, created) /\ Changed(r, w, id)
      BY <1>1, <2>1, <2>2, FreezeKeeps
    <3> QED
      BY <3>1 DEF Changed
  <2>5. CASE proc.alive
    <3> USE DEF r, id, n, value, yes
    <3>1. \/ app' \in {Listed(Marking(w), temp), Marking(w)}
          \/ app' \in {Listed(Marking(r), temp), Marking(r)}
          \/ app' = f
      BY <1>4, <2>5 DEF ReplaceFile, AfterSave
    <3> HIDE DEF f, w, r, n, id
    <3> QED
      BY <1>3, <1>4, <2>1, <2>3, <2>4, <3>1 DEF r, n, id
  <2>6. CASE ~proc.alive
    <3>1. app' = [app EXCEPT !.runtime = SavedRuntime(n, id), !.active = @ \cup {n}]
      BY <1>4, <2>6 DEF ReplaceFile, AfterExit, n, id
    <3>2. app' = Marking(r)
      BY <1>1, <3>1 DEF AppOK, r
    <3> QED
      BY <1>3, <1>4, <2>1, <3>2 DEF r
  <2> QED
    BY <2>5, <2>6
<1>5. CASE saving.kind = "edit" /\ ~(AccessLost /\ app' = Detached(app))
  <2> DEFINE u == Updated(app, app.runtime[n], value)
  <2>1. \/ app' = app
        \/ app' = Listed(app, temp)
        \/ /\ n \in DOMAIN app.runtime /\ app.runtime[n] \in DOMAIN app.watches
           /\ app' \in {Listed(u, temp), u}
    BY <1>5 DEF ReplaceFile, AfterEdit, AfterExit
  <2>2. AppOK(app', created) /\ Same(app, app')
    <3>1. CASE app' = app
      BY <1>1, <3>1 DEF Same
    <3>2. CASE app' = Listed(app, temp)
      BY <1>1, <3>2, ListedKeeps
    <3>3. CASE /\ app.runtime[n] \in DOMAIN app.watches
               /\ app' \in {Listed(u, temp), u}
      <4>1. AppOK(u, created) /\ Same(app, u)
        BY <1>1, <3>3, DesiredKeeps
      <4> HIDE DEF u
      <4>2. app' = u \/ app' = Listed(u, temp)
        BY <3>3
      <4>3. AppOK(app', created) /\ Same(u, app')
        BY <4>1, <4>2, ListedKeeps DEF Same
      <4> QED
        BY <4>1, <4>3 DEF Same
    <3> HIDE DEF u
    <3> QED
      BY <2>1, <3>1, <3>2, <3>3
  <2> QED
    BY <1>5, <2>2 DEF Same, TablesKept
<1> QED
  BY <1>1, <1>2, <1>4, <1>5

LEMMA ReplaceKeeps ==
    ASSUME IInv, World', ReplaceFile
    PROVE  IInv'
<1>1. /\ saving # NoSave /\ saving' = NoSave /\ dialog = NoDialog /\ dialog' = dialog
      /\ proc' = proc /\ created' = created /\ workspace' = workspace
      /\ temp \notin {Torn, NoFile} /\ file' = temp
      /\ saving.kind \in {"save", "edit"}
  BY DEF ReplaceFile, IInv, SavingOK
<1>2. /\ FilesOK'
      /\ DOMAIN Tricks' = DOMAIN Tricks \cup {saving.name}
      /\ Tricks'[saving.name] = saving.trick
      /\ \A n \in DOMAIN Tricks : n # saving.name => Tricks'[n] = Tricks[n]
  BY <1>1, NewCatalog
<1>3. /\ AppOK(app', created)
      /\ DOMAIN app'.watches = DOMAIN app.watches
      /\ \A id \in DOMAIN app.watches : app'.watches[id].loc = app.watches[id].loc
      /\ access' # "none" =>
           \A n \in DOMAIN app'.runtime :
               \/ /\ n \in DOMAIN app.runtime /\ app'.runtime[n] = app.runtime[n]
                  /\ n = saving.name => saving.kind = "edit"
               \/ /\ n = saving.name /\ saving.kind = "save"
                  /\ app'.runtime[n] = saving.id
  BY ReplacedApp DEF TablesKept
<1>4. Stored' = Stored
  BY <1>1 DEF Stored
<1>5. saving.kind = "edit" =>
        saving.name \in DOMAIN Tricks /\ saving.trick.loc = Tricks[saving.name].loc
  BY <1>1 DEF IInv, SavingOK
<1>6. SavingOK' /\ DialogOK' /\ ShownNow'
  BY <1>1 DEF SavingOK, DialogOK, ShownNow, NoDialog
<1>7. Agree'
  BY <1>3, <1>4 DEF IInv, Agree
<1>8. Linked'
  <2> SUFFICES ASSUME access' # "none" PROVE Linked'
    BY DEF Linked
  <2>1. access # "none"
    BY DEF ReplaceFile, AfterExit, AccessLost
  <2>2. ASSUME NEW id, NEW loc, OnCell(id, loc)
        PROVE  OnCell(id, loc)'
    BY <1>1, <1>3, <1>4, <2>2 DEF OnCell, SameCell
  <2>3. ASSUME NEW n, n \in DOMAIN app'.runtime
        PROVE  (n \in DOMAIN Tricks /\ OnCell(app.runtime[n], Tricks[n].loc))'
    <3>1. CASE /\ n \in DOMAIN app.runtime /\ app'.runtime[n] = app.runtime[n]
               /\ n = saving.name => saving.kind = "edit"
      <4>1. n \in DOMAIN Tricks /\ OnCell(app.runtime[n], Tricks[n].loc)
        BY <2>1, <3>1 DEF IInv, Linked
      <4>2. Tricks'[n].loc = Tricks[n].loc
        BY <1>2, <1>5, <3>1, <4>1
      <4> QED
        BY <1>2, <1>1, <1>3, <1>4, <3>1, <4>1, <4>2 DEF OnCell, SameCell
    <3>2. CASE n = saving.name /\ saving.kind = "save" /\ app'.runtime[n] = saving.id
      <4>1. OnCell(saving.id, saving.trick.loc)
        BY <1>1, <2>1, <3>2 DEF IInv, Linked
      <4> QED
        BY <1>1, <1>2, <1>3, <1>4, <3>2, <4>1 DEF OnCell, SameCell
    <3> QED
      BY <1>3, <2>3, <3>1, <3>2
  <2> QED
    BY <1>1, <2>3 DEF Linked
<1>9. Remembered'
  <2> DEFINE Keeps(trick, from) == NamesCell(trick.loc, from.cell, from.listed)
             from == [cell |-> saving.cell, listed |-> saving.listed]
  <2>1. /\ DOMAIN tested = DOMAIN Tricks
        /\ \A n \in DOMAIN Tricks : Keeps(Tricks[n], tested[n])
        /\ saving.kind = "save" => Keeps(saving.trick, from)
    BY <1>1 DEF IInv, Remembered
  <2>2. DOMAIN tested' = DOMAIN Tricks' /\ \A n \in DOMAIN Tricks' : Keeps(Tricks'[n], tested'[n])
    <3>1. CASE saving.kind = "save"
      <4>1. tested' = Put(tested, saving.name, from)
        BY <3>1 DEF ReplaceFile
      <4> HIDE DEF Keeps, from
      <4>2. /\ DOMAIN tested' = DOMAIN tested \cup {saving.name}
            /\ tested'[saving.name] = from
            /\ \A n \in DOMAIN tested : n # saving.name => tested'[n] = tested[n]
        BY <4>1 DEF Put
      <4> QED
        BY <1>2, <2>1, <3>1, <4>2
    <3>2. CASE saving.kind = "edit"
      <4>1. tested' = tested
        BY <3>2 DEF ReplaceFile
      <4>2. \A n \in DOMAIN Tricks' : Tricks'[n].loc = Tricks[n].loc /\ n \in DOMAIN Tricks
        BY <1>2, <1>5, <3>2
      <4> QED
        BY <1>2, <1>5, <2>1, <3>2, <4>1, <4>2
    <3> QED
      BY <1>1, <3>1, <3>2
  <2> QED
    BY <1>1, <2>2 DEF Remembered, NamesCell
<1> QED
  BY <1>1, <1>2, <1>3, <1>6, <1>7, <1>8, <1>9 DEF IInv

-----------------------------------------------------------------------------
(* Attachments, workspaces and crashes.                                    *)

LEMMA EmptyFacts == DOMAIN Empty = {}
  BY DEF Empty

\* Without a save the invariant is about the tables, the files and the dialog.
LEMMA IdleStep ==
    ASSUME IInv, World', AppOK(app', created'), FilesOK', Agree', Linked',
           DialogOK', ShownNow', UNCHANGED <<file, tested>>, saving' = NoSave
    PROVE  IInv'
<1>1. Tricks' = Tricks
  BY DEF Tricks
<1>2. SavingOK'
  BY DEF SavingOK
<1>3. Remembered'
  BY <1>1 DEF IInv, Remembered, NamesCell
<1> QED
  BY <1>2, <1>3 DEF IInv

\* A dialog still shows what it did, of watches that were there or are loaded.
LEMMA StillShown ==
    ASSUME IInv, dialog' = dialog, dialog.kind # "store", UNCHANGED <<file, created>>,
           access' # "none" /\ DOMAIN app'.runtime # {} =>
                /\ access # "none" /\ proc'.base = proc.base
                /\ app'.runtime = app.runtime,
           \A id \in DOMAIN app'.watches :
                \/ id \in DOMAIN app.watches /\ app'.watches[id].loc = app.watches[id].loc
                \/ id \in DOMAIN Stored /\ app'.watches[id].loc = Stored[id].loc,
           \A id \in DOMAIN Stored' :
                \/ id \in DOMAIN app.watches /\ Stored'[id].loc = app.watches[id].loc
                \/ id \in DOMAIN Stored /\ Stored'[id].loc = Stored[id].loc
    PROVE  DialogOK' /\ ShownNow'
<1>1. Tricks' = Tricks
  BY DEF Tricks
<1>2. DialogOK'
  BY <1>1 DEF IInv, DialogOK
<1>3. ASSUME dialog.kind = "toggle"
      PROVE  /\ dialog.value = Target(dialog.name, dialog.on)'
             /\ ShownAt(Tricks'[dialog.name].loc)
             /\ access' # "none" /\ dialog.name \in DOMAIN app'.runtime =>
                  dialog.base = proc'.base
  BY <1>1, <1>3 DEF IInv, ShownNow, Target
<1>4. ASSUME dialog.kind \in {"write", "freeze"}
      PROVE  /\ dialog.id \in DOMAIN app'.watches => ShownAt(app'.watches[dialog.id].loc)
             /\ dialog.id \in DOMAIN Stored' => ShownAt(Stored'[dialog.id].loc)
  <2>1. /\ dialog.id \in DOMAIN app.watches => ShownAt(app.watches[dialog.id].loc)
        /\ dialog.id \in DOMAIN Stored => ShownAt(Stored[dialog.id].loc)
    BY <1>4 DEF IInv, ShownNow
  <2> QED
    BY <2>1 DEF ShownAt
<1> QED
  BY <1>2, <1>3, <1>4 DEF ShownNow, ShownAt

LEMMA CrashKeeps == ASSUME IInv, World', Crash PROVE IInv'
<1>1. /\ app' = [watches |-> Empty, runtime |-> Empty, active |-> {}]
      /\ access' = "none" /\ saving' = NoSave /\ dialog' = NoDialog
      /\ UNCHANGED <<created, file, workspace, tested>>
  BY DEF Crash
<1>2. AppOK(app', created') /\ app'.watches = Empty
  BY <1>1, EmptyFacts DEF AppOK, Watches
<1>3. FilesOK'
  BY <1>1 DEF IInv, FilesOK, Tricks, Stored
<1>4. Agree' /\ Linked'
  BY <1>1, <1>2, EmptyFacts DEF Agree, Linked
<1>5. DialogOK' /\ ShownNow'
  BY <1>1 DEF NoDialog, DialogOK, ShownNow
<1> QED
  BY <1>1, <1>2, <1>3, <1>4, <1>5, IdleStep

LEMMA AttachKeeps ==
    ASSUME IInv, World', NEW mode, Attach(mode) PROVE IInv'
<1>1. /\ saving = NoSave /\ dialog.kind # "store"
      /\ app' = [app EXCEPT !.runtime = Empty, !.active = {}]
      /\ UNCHANGED <<created, file, workspace, tested, saving, dialog>>
  BY DEF Attach, Free, Responsive
<1>2. app' = [watches |-> app.watches, runtime |-> Empty, active |-> {}]
  BY <1>1 DEF IInv, AppOK
<1>3. AppOK(app', created') /\ app'.watches = app.watches /\ DOMAIN app'.runtime = {}
  BY <1>1, <1>2, EmptyFacts DEF IInv, AppOK
<1>4. FilesOK' /\ Agree' /\ Stored' = Stored
  BY <1>1, <1>3 DEF IInv, FilesOK, Agree, Tricks, Stored
<1>5. Linked'
  BY <1>1, <1>3 DEF Linked
<1>6. DialogOK' /\ ShownNow'
  BY <1>1, <1>3, <1>4, StillShown
<1> QED
  BY <1>1, <1>3, <1>4, <1>5, <1>6, IdleStep

LEMMA LeaveKeeps ==
    ASSUME IInv, World', Responsive, Leave PROVE IInv'
<1>1. /\ saving = NoSave /\ dialog.kind # "store" /\ app' = Detached(app) /\ access' = "none"
      /\ UNCHANGED <<created, file, temp, workspace, tested, saving, dialog>>
  BY DEF Leave, Responsive, AccessLost
<1>2. app' = [watches |-> app.watches, runtime |-> Empty, active |-> {}]
  BY <1>1 DEF IInv, AppOK, Detached
<1>3. AppOK(app', created') /\ app'.watches = app.watches /\ DOMAIN app'.runtime = {}
  BY <1>1, <1>2, EmptyFacts DEF IInv, AppOK
<1>4. Steady /\ SameStart
  BY <1>1, <1>3 DEF Steady, SameStart
<1>5. DOMAIN app'.runtime \subseteq DOMAIN app.runtime
  BY <1>3
<1> QED
  BY <1>1, <1>3, <1>4, <1>5, QuietStep

LEMMA LoadKeeps ==
    ASSUME IInv, World', LoadWorkspace PROVE IInv'
<1>1. /\ saving = NoSave /\ dialog.kind # "store" /\ workspace # NoFile
      /\ app' = [app EXCEPT !.watches = workspace] /\ access # "none"
      /\ UNCHANGED <<proc, access, created, file, temp, workspace, tested, saving, dialog>>
  BY DEF LoadWorkspace, OnWatches, Guarded, Responsive, Replaced
<1>2. Stored = workspace /\ Stored' = Stored /\ Tricks' = Tricks
  BY <1>1 DEF Stored, Tricks
<1>3. app' = [watches |-> workspace, runtime |-> app.runtime, active |-> app.active]
  BY <1>1 DEF IInv, AppOK
<1>4. /\ AppOK(app', created') /\ app'.watches = Stored /\ app'.runtime = app.runtime
      /\ FilesOK'
  BY <1>1, <1>2, <1>3 DEF IInv, AppOK, FilesOK
<1>5. Agree'
  BY <1>2, <1>4 DEF Agree
<1>6. Linked'
  BY <1>1, <1>2, <1>4 DEF IInv, Linked, OnCell, SameCell
<1>7. DialogOK' /\ ShownNow'
  BY <1>1, <1>2, <1>4, StillShown
<1> QED
  BY <1>1, <1>4, <1>5, <1>6, <1>7, IdleStep

LEMMA StoreKeeps ==
    ASSUME IInv, World', SaveWorkspace PROVE IInv'
<1>1. /\ saving = NoSave /\ dialog.kind # "store" /\ workspace' = app.watches
      /\ access # "none"
      /\ UNCHANGED <<proc, access, app, created, file, temp, tested, saving, dialog>>
  BY DEF SaveWorkspace, Guarded, Responsive, StoreWorkspace
<1>2. Tricks' = Tricks /\ (Stored' = app.watches \/ Stored' = Empty)
  BY <1>1 DEF Stored, Tricks
<1>3. /\ DOMAIN Stored' \subseteq DOMAIN app.watches
      /\ \A id \in DOMAIN Stored' : Stored'[id] = app.watches[id]
  BY <1>2, EmptyFacts
<1>4. AppOK(app', created') /\ FilesOK'
  BY <1>1, <1>2, <1>3 DEF IInv, FilesOK, AppOK, Watches
<1>5. Agree'
  BY <1>1, <1>3 DEF Agree
<1>6. Linked'
  BY <1>1, <1>2, <1>3 DEF IInv, Linked, OnCell, SameCell
<1>7. DialogOK' /\ ShownNow'
  BY <1>1, <1>3, StillShown
<1> QED
  BY <1>1, <1>4, <1>5, <1>6, <1>7, IdleStep

-----------------------------------------------------------------------------
(* Dialogs.                                                                *)

\* The tables take a steady step while a dialog opens or changes.
LEMMA DialogChanges ==
    ASSUME IInv, World', Steady, SameStart, saving = NoSave, DialogOK', ShownNow',
           UNCHANGED <<file, workspace, saving, temp, tested>>
    PROVE  IInv'
<1>1. /\ AppOK(app', created') /\ FilesOK' /\ SavingOK' /\ Agree' /\ Linked'
      /\ Remembered'
  BY SteadyStep
<1> QED
  BY <1>1 DEF IInv

LEMMA OpenToggleKeeps ==
    ASSUME IInv, NEW n \in DOMAIN Tricks, NEW on \in BOOLEAN, OpenToggle(n, on)
    PROVE  IInv'
<1> DEFINE d == [kind |-> "toggle", name |-> n, on |-> on,
                 address |-> Resolve(Tricks[n].loc), base |-> proc.base,
                 value |-> Target(n, on)]
<1>1. /\ saving = NoSave /\ dialog' = d /\ app' = Listed(app, Tricks) /\ outcome' = "none"
      /\ on \/ Tricks[n].mode = "write_pair"
      /\ UNCHANGED <<proc, memory, access, created, file, temp, saving, workspace, tested, calls>>
  BY DEF OpenToggle, Guarded, Responsive, Quiet
<1>2. World'
  BY <1>1 DEF IInv, World
<1>3. AppOK(app', created) /\ Same(app, app')
  BY <1>1, ListedKeeps DEF IInv
<1>4. Steady /\ SameStart
  BY <1>1, <1>3, SameSteady DEF SameStart
<1>5. Tricks' = Tricks
  BY <1>1 DEF Tricks
<1>6. /\ dialog'.kind = "toggle" /\ dialog'.name = n /\ dialog'.on = on
      /\ dialog'.address = Resolve(Tricks[n].loc) /\ dialog'.base = proc.base
      /\ dialog'.value = Target(n, on)
  BY <1>1
<1>7. DialogOK'
  BY <1>1, <1>5, <1>6, TrainerAssumption DEF DialogOK, IInv, World
<1>8. Target(dialog.name, dialog.on)' = Target(n, on)
  BY <1>5, <1>6 DEF Target
<1>9. ShownAt(Tricks[dialog.name].loc)'
  BY <1>5, <1>6 DEF ShownAt, Resolve, Module
<1>10. ShownNow'
  BY <1>1, <1>6, <1>8, <1>9 DEF ShownNow
<1> QED
  BY <1>1, <1>2, <1>4, <1>7, <1>10, DialogChanges

LEMMA OpenConfirmationKeeps ==
    ASSUME IInv, NEW kind \in {"write", "freeze"}, NEW id \in DOMAIN app.watches,
           NEW value \in Value, OpenConfirmation(kind, id, value)
    PROVE  IInv'
<1>1. /\ saving = NoSave /\ app' = app /\ outcome' = "none"
      /\ dialog' = [kind |-> kind, id |-> id, value |-> value,
                    address |-> WatchAddress(id), base |-> proc.base]
      /\ calls < MaxCalls /\ calls' = calls + 1
      /\ UNCHANGED <<proc, memory, access, created, file, temp, saving, workspace, tested>>
  BY DEF OpenConfirmation, Counted, Guarded, Responsive, Quiet
<1>2. World'
  BY <1>1, TrainerAssumption DEF IInv, World
<1>3. Steady /\ SameStart
  <2>1. AppOK(app', created) /\ Same(app, app')
    BY <1>1 DEF IInv, Same
  <2> QED
    BY <1>1, <2>1, SameSteady DEF SameStart
<1>4. /\ dialog'.kind = kind /\ dialog'.id = id /\ dialog'.value = value
      /\ dialog'.address = Resolve(app.watches[id].loc) /\ dialog'.base = proc.base
  BY <1>1 DEF WatchAddress
<1>5. id \in 1..(created')
  BY <1>1 DEF IInv, AppOK, Watches
<1>6. DialogOK'
  BY <1>1, <1>4, <1>5, TrainerAssumption DEF DialogOK, IInv, World
<1>7. \A loc : loc = app.watches[id].loc => ShownAt(loc)'
  BY <1>4 DEF ShownAt, Resolve, Module
<1>8. ShownNow'
  <2>1. Stored' = Stored /\ (id \in DOMAIN Stored => Stored[id].loc = app.watches[id].loc)
    BY <1>1 DEF Stored, IInv, Agree
  <2>2. /\ dialog'.id \in DOMAIN app'.watches => ShownAt(app.watches[dialog.id].loc)'
        /\ dialog'.id \in DOMAIN Stored' => ShownAt(Stored[dialog.id].loc)'
    BY <1>1, <1>4, <1>7, <2>1 DEF ShownAt
  <2> QED
    BY <1>4, <2>2 DEF ShownNow
<1> QED
  BY <1>1, <1>2, <1>3, <1>6, <1>8, DialogChanges

\* The dialogs of a manual creation show no address.
LEMMA FormKeeps ==
    ASSUME IInv, World', Steady, SameStart, saving = NoSave, DialogOK',
           dialog'.kind \in {"form", "create", "store"},
           UNCHANGED <<file, workspace, saving, temp, tested>>
    PROVE  IInv'
<1>1. ShownNow'
  BY DEF ShownNow
<1> QED
  BY <1>1, DialogChanges

LEMMA OpenFormKeeps ==
    ASSUME IInv, NEW id, OpenForm(id) PROVE IInv'
<1>1. /\ saving = NoSave /\ app' = app /\ outcome' = "none"
      /\ dialog' = [kind |-> "form", id |-> id]
      /\ calls < MaxCalls /\ calls' = calls + 1
      /\ UNCHANGED <<proc, memory, access, created, file, temp, saving, workspace, tested>>
  BY DEF OpenForm, Counted, Free, Responsive, Quiet
<1>2. World'
  BY <1>1, TrainerAssumption DEF IInv, World
<1>3. AppOK(app', created) /\ Same(app, app')
  BY <1>1 DEF IInv, Same
<1>4. Steady /\ SameStart
  BY <1>1, <1>3, SameSteady DEF SameStart
<1>5. dialog'.kind = "form"
  BY <1>1
<1>6. DialogOK'
  BY <1>5 DEF DialogOK
<1> QED
  BY <1>1, <1>2, <1>4, <1>5, <1>6, FormKeeps

LEMMA FillFormKeeps ==
    ASSUME IInv, NEW n \in Names, NEW draft \in Drafts, FillForm(n, draft) PROVE IInv'
<1>1. /\ saving = NoSave /\ app' = app /\ outcome' = "none" /\ Complete(draft)
      /\ dialog' = [kind |-> "create", id |-> dialog.id, name |-> n, draft |-> draft,
                    current |-> memory[Resolve(app.watches[dialog.id].loc)]]
      /\ UNCHANGED <<proc, memory, access, created, file, temp, saving, workspace, tested, calls>>
  BY DEF FillForm, Guarded, Responsive, Quiet
<1>2. World'
  BY <1>1 DEF IInv, World
<1>3. AppOK(app', created) /\ Same(app, app')
  BY <1>1 DEF IInv, Same
<1>4. Steady /\ SameStart
  BY <1>1, <1>3, SameSteady DEF SameStart
<1>5. draft \in Draft
  BY TrainerAssumption
<1>6. dialog'.kind = "create" /\ dialog'.name = n /\ dialog'.draft = draft
  BY <1>1
<1>7. dialog' = [kind |-> "create", id |-> dialog'.id, name |-> dialog'.name,
                 draft |-> dialog'.draft, current |-> dialog'.current]
  BY <1>1
<1>8. DialogOK'
  BY <1>1, <1>5, <1>6, <1>7 DEF DialogOK, Complete
<1> QED
  BY <1>1, <1>2, <1>4, <1>6, <1>8, FormKeeps

LEMMA AcceptCreateKeeps ==
    ASSUME IInv, AcceptCreate PROVE IInv'
<1> DEFINE id == dialog.id
           value == dialog.draft.enabled
<1>1. /\ saving = NoSave /\ id \in DOMAIN app.watches /\ outcome' = "none"
      /\ dialog.kind = "create"
      /\ UNCHANGED <<proc, access, created, file, temp, saving, workspace, tested, calls>>
  BY DEF AcceptCreate, Guarded, Responsive
<1>2. /\ dialog = [kind |-> "create", id |-> dialog.id, name |-> dialog.name,
                   draft |-> dialog.draft, current |-> dialog.current]
      /\ dialog.name \in Names /\ dialog.draft \in Draft /\ Complete(dialog.draft)
  BY <1>1 DEF IInv, DialogOK
<1>3. dialog' = [dialog EXCEPT !.kind = "store"] \/ dialog' = NoDialog
  BY DEF AcceptCreate, Close
<1>4. value \in Value
  BY <1>2 DEF Draft
<1>5. /\ memory' \in [Address -> Value] /\ AppOK(app', created) /\ Same(app, app')
  <2>1. CASE UNCHANGED <<memory, app>>
    BY <2>1 DEF IInv, World, Same
  <2>2. CASE /\ memory' = [memory EXCEPT ![Resolve(app.watches[id].loc)] = value]
             /\ \/ app' = WithWritten(app, id, value)
                \/ app' \in WrittenInPart(app, id, value)
    <3>1. memory \in [Address -> Value] /\ AppOK(app, created)
      BY DEF IInv, World
    <3> HIDE DEF id, value
    <3>2. AppOK(app', created) /\ Same(app, app')
      BY <1>1, <1>4, <2>2, <3>1, WrittenKeeps, PartKeeps
    <3> QED
      BY <1>4, <2>2, <3>1, <3>2
  <2> QED
    BY <2>1, <2>2 DEF AcceptCreate
<1>6. World'
  BY <1>1, <1>5 DEF IInv, World
<1>7. Steady /\ SameStart /\ DOMAIN app'.watches = DOMAIN app.watches
  BY <1>1, <1>5, SameSteady DEF SameStart
<1>8. CASE dialog' = NoDialog
  BY <1>1, <1>6, <1>7, <1>8, QuietStep
<1>9. CASE dialog' = [dialog EXCEPT !.kind = "store"]
  <2>1. dialog' = [kind |-> "store", id |-> dialog.id, name |-> dialog.name,
                   draft |-> dialog.draft, current |-> dialog.current]
    BY <1>2, <1>9
  <2>2. /\ dialog'.kind = "store" /\ dialog'.id = id /\ dialog'.name = dialog.name
        /\ dialog'.draft = dialog.draft
    BY <2>1
  <2>3. DialogOK'
    BY <1>1, <1>2, <1>7, <2>2 DEF DialogOK, Complete
  <2> QED
    BY <1>1, <1>6, <1>7, <2>2, <2>3, FormKeeps
<1> QED
  BY <1>3, <1>8, <1>9

\* An accepted write or freeze: the tables and the memory it leaves.
LEMMA AcceptedFacts ==
    ASSUME IInv, NEW kind \in {"write", "freeze"}, Accepted(kind)
    PROVE  /\ saving = NoSave /\ dialog' = NoDialog /\ dialog.kind = kind
           /\ dialog.id \in DOMAIN app.watches /\ dialog.value \in Value
           /\ dialog.value # NoValue /\ access # "none"
           /\ UNCHANGED <<proc, access, created, file, temp, saving, workspace, tested, calls>>
<1>1. /\ saving = NoSave /\ dialog' = NoDialog /\ dialog.kind = kind
      /\ dialog.id \in DOMAIN app.watches /\ access # "none"
      /\ UNCHANGED <<proc, access, created, file, temp, saving, workspace, tested, calls>>
  BY DEF Accepted, Guarded, Responsive, Close
<1>2. dialog.value \in Value
  BY <1>1 DEF IInv, DialogOK
<1> QED
  BY <1>1, <1>2, TrainerAssumption DEF Value, NoValue

LEMMA AcceptWriteFacts ==
    ASSUME IInv, AcceptWrite
    PROVE  /\ AppOK(app', created) /\ Same(app, app') /\ memory' \in [Address -> Value]
           /\ outcome' \in {"none", "done"}
           /\ app'.watches[dialog.id].desired = dialog.value
           /\ Resolve(app.watches[dialog.id].loc) \in Address
           /\ memory'[Resolve(app.watches[dialog.id].loc)] = dialog.value
<1>1. dialog.id \in DOMAIN app.watches /\ dialog.value \in Value
  BY AcceptedFacts DEF AcceptWrite
<1>2. AppOK(app, created) /\ memory \in [Address -> Value]
  BY DEF IInv, World
<1>3. /\ \/ app' = WithWritten(app, dialog.id, dialog.value)
         \/ app' \in WrittenInPart(app, dialog.id, dialog.value)
      /\ outcome' \in {"none", "done"}
      /\ memory' = [memory EXCEPT ![Resolve(app.watches[dialog.id].loc)] = dialog.value]
      /\ Resolve(app.watches[dialog.id].loc) \in Address
  BY DEF AcceptWrite, WatchAddress, CanWrite, Writable
<1>4. AppOK(app', created) /\ Same(app, app') /\ WrittenTo(app, app', dialog.id, dialog.value)
  BY <1>1, <1>2, <1>3, WrittenKeeps, PartKeeps
<1> QED
  BY <1>1, <1>2, <1>3, <1>4 DEF WrittenTo

LEMMA AcceptFreezeFacts ==
    ASSUME IInv, AcceptFreeze
    PROVE  /\ AppOK(app', created) /\ Same(app, app') /\ memory' = memory
           /\ outcome' \in {"none", "done"}
           /\ app'.watches[dialog.id].desired = dialog.value
           /\ app'.watches[dialog.id].frozen
<1>1. dialog.id \in DOMAIN app.watches /\ dialog.value \in Value /\ dialog.value # NoValue
  BY AcceptedFacts DEF AcceptFreeze
<1> DEFINE yes == TRUE
           t == WithFreeze(app, Tricks, dialog.id, yes, dialog.value)
           f == Frozen(app, dialog.id, yes, dialog.value)
<1>2. AppOK(app, created) /\ MayFreeze(app, dialog.id, yes, dialog.value)
  BY <1>1 DEF IInv, MayFreeze
<1>3. (app' = t \/ app' = f) /\ memory' = memory /\ outcome' \in {"none", "done"}
  BY DEF AcceptFreeze
<1>4. yes \in BOOLEAN
  OBVIOUS
<1> HIDE DEF yes
<1>5. /\ AppOK(t, created) /\ Changed(app, t, dialog.id) /\ t.watches[dialog.id].frozen = yes
      /\ t.watches[dialog.id].desired = dialog.value
  BY <1>1, <1>2, <1>4, FreezeKeeps
<1>6. /\ AppOK(f, created) /\ Changed(app, f, dialog.id) /\ f.watches[dialog.id].frozen = yes
      /\ f.watches[dialog.id].desired = dialog.value
  BY <1>1, <1>2, <1>4, FrozenKeeps
<1> HIDE DEF t, f
<1>7. /\ AppOK(app', created) /\ Same(app, app') /\ app'.watches[dialog.id].frozen = yes
      /\ app'.watches[dialog.id].desired = dialog.value
  BY <1>3, <1>5, <1>6 DEF Changed
<1>8. app'.watches[dialog.id].frozen
  BY <1>7 DEF yes
<1> QED
  BY <1>3, <1>7, <1>8

-----------------------------------------------------------------------------
(* The invariant.                                                          *)

LEMMA InitIInv == Init => IInv
<1> SUFFICES ASSUME Init PROVE IInv
  OBVIOUS
<1>1. /\ app = [watches |-> Empty, runtime |-> Empty, active |-> {}] /\ created = 0
      /\ access = "none" /\ file = NoFile /\ workspace = NoFile /\ saving = NoSave
      /\ dialog = NoDialog /\ tested = Empty /\ outcome = "none" /\ calls = 0
  BY DEF Init
<1>2. Tricks = Empty /\ Stored = Empty
  BY <1>1 DEF Tricks, Stored
<1>3. World
  BY <1>1, TrainerAssumption DEF Init, World, Value
<1>4. AppOK(app, created)
  BY <1>1, EmptyFacts DEF AppOK, Watches
<1>5. file # Torn
  BY <1>1, TrainerAssumption
<1>6. FilesOK /\ Agree /\ Linked /\ Remembered
  BY <1>1, <1>2, <1>5, EmptyFacts DEF FilesOK, Catalog, Watches, Agree, Linked, Remembered
<1>7. SavingOK /\ DialogOK /\ ShownNow
  BY <1>1 DEF SavingOK, DialogOK, ShownNow, NoDialog
<1> QED
  BY <1>3, <1>4, <1>6, <1>7 DEF IInv

LEMMA CountedFacts ==
    ASSUME IInv, Counted PROVE calls' \in 0..MaxCalls
  BY TrainerAssumption DEF IInv, World, Counted

\* A call that keeps every watch at its location.
LEMMA WatchStep ==
    ASSUME IInv, World', AppOK(app', created), Same(app, app'), created' = created,
           UNCHANGED <<proc, access, file, temp, saving, workspace, tested>>,
           UNCHANGED dialog \/ (saving = NoSave /\ dialog' = NoDialog)
    PROVE  IInv'
<1>1. Steady /\ DOMAIN app'.watches = DOMAIN app.watches
  BY SameSteady
<1>2. SameStart
  BY DEF SameStart
<1>3. DOMAIN app'.runtime \subseteq DOMAIN app.runtime
  BY DEF Same
<1> QED
  BY <1>1, <1>2, <1>3, QuietStep

LEMMA AddWatchKeeps ==
    ASSUME IInv, NEW spec \in Specs, AddWatch(spec) PROVE IInv'
<1> DEFINE w == NewWatch(spec)
<1>1. /\ created' = FreshId /\ created < MaxWatches /\ outcome' = "none"
      /\ app' = Added(app, FreshId, spec)
      /\ UNCHANGED <<proc, memory, access, file, temp, saving, workspace, dialog, tested, calls>>
  BY DEF AddWatch, OnWatches, FreshId
<1>2. /\ AppOK(app, created) /\ created \in Nat /\ FreshId = created + 1
      /\ MaxWatches \in Nat
  BY TrainerAssumption DEF IInv, World, FreshId
<1>3. World'
  BY <1>1, <1>2 DEF IInv, World
<1>4. w \in Watch /\ ~w.frozen
  BY TrainerAssumption DEF NewWatch, Watch
<1>5. app' = [watches |-> Put(app.watches, FreshId, w), runtime |-> app.runtime,
              active |-> app.active]
  BY <1>1, <1>2 DEF Added, AppOK
<1> HIDE DEF w
<1>6. /\ app'.watches = Put(app.watches, FreshId, w) /\ app'.runtime = app.runtime
      /\ app'.active = app.active
  BY <1>5
<1>7. /\ DOMAIN app'.watches = DOMAIN app.watches \cup {FreshId}
      /\ app'.watches[FreshId] = w
      /\ \A id \in DOMAIN app.watches : id # FreshId => app'.watches[id] = app.watches[id]
  BY <1>6 DEF Put
<1>8. /\ FreshId \notin DOMAIN app.watches /\ 1..created \subseteq 1..FreshId
      /\ FreshId \in 1..FreshId
  BY <1>2 DEF AppOK, Watches
<1>9. AppOK(app', created')
  BY <1>1, <1>2, <1>4, <1>5, <1>6, <1>7, <1>8 DEF AppOK, Watches
<1>10. Steady /\ SameStart
  BY <1>1, <1>6, <1>7, <1>8, <1>9 DEF Steady, SameStart
<1> QED
  BY <1>1, <1>3, <1>6, <1>7, <1>10, QuietStep

LEMMA RemoveWatchKeeps ==
    ASSUME IInv, NEW id, RemoveWatch(id) PROVE IInv'
<1> DEFINE gone == MappedTo(app, id)
           r == Removed(app, id)
           s == [r EXCEPT !.runtime = Drop(@, gone), !.active = @ \ gone]
<1>1. /\ saving = NoSave /\ dialog.kind # "store" /\ created' = created /\ outcome' = "none"
      /\ app' = s \/ app' = Listed(s, Tricks) \/ app' = r
      /\ UNCHANGED <<proc, memory, access, file, temp, saving, workspace, dialog, tested>>
  BY DEF RemoveWatch, OnWatches, Guarded, Responsive
<1>2. World'
  BY <1>1, CountedFacts DEF IInv, World, RemoveWatch
<1>3. AppOK(app, created)
  BY DEF IInv
<1> HIDE DEF gone
<1>4. r = [watches |-> Drop(app.watches, {id}), runtime |-> app.runtime,
           active |-> app.active]
  BY <1>3 DEF Removed, AppOK
<1>5. s = [watches |-> Drop(app.watches, {id}), runtime |-> Drop(app.runtime, gone),
           active |-> app.active \ gone]
  <2> DEFINE k == Drop(app.runtime, gone)
             A == app.active \ gone
  <2>1. s = [r EXCEPT !.runtime = k, !.active = A]
    BY <1>4
  <2> HIDE DEF r, s, k, A
  <2>2. s = [watches |-> Drop(app.watches, {id}), runtime |-> k, active |-> A]
    BY <1>4, <2>1
  <2> QED
    BY <2>2 DEF k, A
<1> HIDE DEF r, s
\* Watches and runtime watches go, and marks with them or not.
<1>6. ASSUME NEW u, NEW k, NEW A,
             u = [watches |-> Drop(app.watches, {id}), runtime |-> k, active |-> A],
             DOMAIN k \subseteq DOMAIN app.runtime,
             \A n \in DOMAIN k : k[n] = app.runtime[n],
             A \subseteq app.active,
             app' = u \/ app' = Listed(u, Tricks)
      PROVE  IInv'
  <2>1. u.watches = Drop(app.watches, {id}) /\ u.runtime = k /\ u.active = A
    BY <1>6
  <2>2. /\ DOMAIN u.watches \subseteq DOMAIN app.watches
        /\ \A x \in DOMAIN u.watches : u.watches[x] = app.watches[x]
        /\ DOMAIN u.runtime \subseteq DOMAIN app.runtime
        /\ \A n \in DOMAIN u.runtime : u.runtime[n] = app.runtime[n]
    BY <1>6, <2>1 DEF Drop
  <2>3. AppOK(u, created)
    <3>1. u = [watches |-> u.watches, runtime |-> u.runtime, active |-> u.active]
      BY <1>6
    <3>2. Watches(u.watches, created)
      BY <1>3, <2>2 DEF AppOK, Watches
    <3>3. /\ DOMAIN u.runtime \subseteq Names
          /\ \A n \in DOMAIN u.runtime : u.runtime[n] \in 1..created
      BY <1>3, <2>2 DEF AppOK
    <3>4. u.active \subseteq Names
      BY <1>3, <1>6, <2>1 DEF AppOK
    <3> QED
      BY <3>1, <3>2, <3>3, <3>4 DEF AppOK
  <2>4. AppOK(app', created) /\ app'.watches = u.watches /\ app'.runtime = u.runtime
    BY <1>6, <2>3, ListedKeeps
  <2>5. Steady /\ SameStart
    BY <1>1, <2>2, <2>4 DEF Steady, SameStart
  <2> QED
    BY <1>1, <1>2, <2>2, <2>4, <2>5, QuietStep
<1>7. /\ DOMAIN Drop(app.runtime, gone) \subseteq DOMAIN app.runtime
      /\ \A n \in DOMAIN Drop(app.runtime, gone) : Drop(app.runtime, gone)[n] = app.runtime[n]
  BY DEF Drop
<1>8. CASE app' = s \/ app' = Listed(s, Tricks)
  BY <1>5, <1>6, <1>7, <1>8
<1>9. CASE app' = r
  BY <1>4, <1>6, <1>9
<1> QED
  BY <1>1, <1>8, <1>9

LEMMA SetWatchValueKeeps ==
    ASSUME IInv, NEW id \in DOMAIN app.watches, NEW value \in Value, SetWatchValue(id, value)
    PROVE  IInv'
<1>1. /\ app' = WithWritten(app, id, value) \/ app' \in WrittenInPart(app, id, value)
      /\ created' = created /\ outcome' = "none" /\ Counted
      /\ memory' = [memory EXCEPT ![WatchAddress(id)] = value]
      /\ UNCHANGED <<proc, access, file, temp, saving, workspace, dialog, tested>>
  BY DEF SetWatchValue, OnWatches
<1>2. AppOK(app, created) /\ memory' \in [Address -> Value]
  BY <1>1 DEF IInv, World
<1>3. AppOK(app', created) /\ Same(app, app')
  BY <1>1, <1>2, WrittenKeeps, PartKeeps
<1>4. World'
  BY <1>1, <1>2, CountedFacts DEF IInv, World
<1> QED
  BY <1>1, <1>3, <1>4, WatchStep

LEMMA SetFreezeKeeps ==
    ASSUME IInv, NEW id \in DOMAIN app.watches, NEW frozen \in BOOLEAN,
           NEW value \in Value \cup {NoValue}, SetFreeze(id, frozen, value)
    PROVE  IInv'
<1> DEFINE t == WithFreeze(app, Tricks, id, frozen, value)
           f == Frozen(app, id, frozen, value)
<1>1. /\ (app' = t \/ app' = f) /\ created' = created /\ outcome' = "none" /\ Counted
      /\ MayFreeze(app, id, frozen, value)
      /\ UNCHANGED <<proc, memory, access, file, temp, saving, workspace, dialog, tested>>
  BY DEF SetFreeze, OnWatches
<1>2. AppOK(app, created)
  BY DEF IInv
<1>3. AppOK(t, created) /\ Same(app, t)
  BY <1>1, <1>2, FreezeKeeps DEF Changed
<1>4. AppOK(f, created) /\ Same(app, f)
  BY <1>1, <1>2, FrozenKeeps DEF Changed
<1> HIDE DEF t, f
<1>5. World'
  BY <1>1, CountedFacts DEF IInv, World
<1> QED
  BY <1>1, <1>3, <1>4, <1>5, WatchStep

LEMMA UpdateWatchKeeps ==
    ASSUME IInv, NEW id \in DOMAIN app.watches, NEW value \in Value, UpdateWatch(id, value)
    PROVE  IInv'
<1> DEFINE t == Updated(app, id, value)
<1>1. /\ app' = t /\ created' = created /\ outcome' = "none" /\ Counted
      /\ UNCHANGED <<proc, memory, access, file, temp, saving, workspace, dialog, tested>>
  BY DEF UpdateWatch, OnWatches
<1>2. AppOK(app, created)
  BY DEF IInv
<1>3. AppOK(t, created) /\ Same(app, t)
  BY <1>2, DesiredKeeps
<1> HIDE DEF t
<1>4. World'
  BY <1>1, CountedFacts DEF IInv, World
<1> QED
  BY <1>1, <1>3, <1>4, WatchStep

\* The target runs; while it is attached to, it cannot start again.
LEMMA TargetKeeps ==
    ASSUME IInv,
           \/ StartProcess
           \/ ProcessExits
           \/ \E a \in Address, v \in Value : ProgramWrites(a, v)
           \/ \E id \in DOMAIN app.watches : FreezerTick(id)
    PROVE  IInv'
<1>1. /\ UNCHANGED <<access, app, created, file, temp, saving, workspace, dialog, tested, calls>>
      /\ outcome' = "none"
  BY DEF StartProcess, ProcessExits, ProgramWrites, FreezerTick
<1>2. proc' \in [base : Base, alive : BOOLEAN, instance : 1..MaxInstances]
  <2>1. proc \in [base : Base, alive : BOOLEAN, instance : 1..MaxInstances]
    BY DEF IInv, World
  <2>2. CASE StartProcess
    BY <2>1, <2>2, TrainerAssumption DEF StartProcess
  <2>3. CASE ProcessExits
    BY <2>1, <2>3 DEF ProcessExits
  <2>4. CASE proc' = proc
    BY <2>1, <2>4
  <2> QED
    BY <2>2, <2>3, <2>4 DEF ProgramWrites, FreezerTick
<1>3. memory' \in [Address -> Value]
  <2>1. CASE StartProcess
    BY <2>1, TrainerAssumption DEF StartProcess, Value
  <2>2. CASE ProcessExits
    BY <2>2 DEF IInv, World, ProcessExits
  <2>3. CASE \E a \in Address, v \in Value : ProgramWrites(a, v)
    BY <2>3 DEF IInv, World, ProgramWrites
  <2>4. CASE \E id \in DOMAIN app.watches : FreezerTick(id)
    <3>1. PICK id \in DOMAIN app.watches : FreezerTick(id)
      BY <2>4
    <3>2. app.watches[id].desired \in Value
      BY <3>1 DEF IInv, AppOK, Watches, Watch, FreezerTick
    <3> QED
      BY <3>1, <3>2 DEF IInv, World, FreezerTick
  <2> QED
    BY <2>1, <2>2, <2>3, <2>4
<1>4. World'
  BY <1>1, <1>2, <1>3 DEF IInv, World
<1>5. SameStart
  BY <1>1 DEF IInv, World, SameStart, StartProcess, ProcessExits, ProgramWrites, FreezerTick
<1>6. AppOK(app', created) /\ Same(app, app')
  BY <1>1 DEF IInv, Same
<1>7. Steady /\ DOMAIN app'.watches = DOMAIN app.watches
  BY <1>1, <1>6, SameSteady
<1> QED
  BY <1>1, <1>4, <1>5, <1>6, <1>7, QuietStep DEF Same

\* A switch from the overlay, confirmed or not.
LEMMA SwitchKeeps ==
    ASSUME IInv, NEW n \in DOMAIN Tricks, NEW on \in BOOLEAN, SetTrickActive(n, on),
           saving = NoSave, dialog' = NoDialog,
           UNCHANGED <<proc, access, file, temp, saving, workspace, tested, calls>>
    PROVE  IInv'
<1>1. /\ Steady /\ DOMAIN app.watches \subseteq DOMAIN app'.watches
      /\ memory' \in [Address -> Value] /\ created' \in 0..MaxWatches
      /\ outcome' \in {"done", "refused"}
  BY SwitchFacts
<1>2. World'
  BY <1>1 DEF IInv, World
<1>3. SameStart
  BY DEF SameStart
<1> QED
  BY <1>1, <1>2, <1>3, QuietStep

LEMMA UnfreezeKeeps ==
    ASSUME IInv, NEW n \in DOMAIN Tricks, Unfreeze(n) PROVE IInv'
<1> DEFINE no == FALSE
<1>1. /\ SetTrickActive(n, no) /\ saving = NoSave /\ dialog' = NoDialog
      /\ UNCHANGED <<proc, access, file, temp, saving, workspace, tested, calls>>
  BY DEF Unfreeze, Free, Responsive
<1>2. no \in BOOLEAN
  OBVIOUS
<1> HIDE DEF no
<1> QED
  BY <1>1, <1>2, SwitchKeeps

LEMMA AcceptToggleKeeps ==
    ASSUME IInv, AcceptToggle PROVE IInv'
<1>1. /\ SetTrickActive(dialog.name, dialog.on) /\ saving = NoSave /\ dialog' = NoDialog
      /\ dialog.kind = "toggle"
      /\ UNCHANGED <<proc, access, file, temp, saving, workspace, tested, calls>>
  BY DEF AcceptToggle, Guarded, Responsive, Close
<1>2. dialog.name \in DOMAIN Tricks /\ dialog.on \in BOOLEAN
  BY <1>1 DEF IInv, DialogOK
<1> QED
  BY <1>1, <1>2, SwitchKeeps

LEMMA AcceptWriteKeeps ==
    ASSUME IInv, AcceptWrite PROVE IInv'
<1>1. /\ AppOK(app', created) /\ Same(app, app') /\ memory' \in [Address -> Value]
      /\ outcome' \in {"none", "done"}
  BY AcceptWriteFacts
<1>2. /\ saving = NoSave /\ dialog' = NoDialog
      /\ UNCHANGED <<proc, access, created, file, temp, saving, workspace, tested, calls>>
  BY AcceptedFacts DEF AcceptWrite
<1>3. World'
  BY <1>1, <1>2 DEF IInv, World
<1> QED
  BY <1>1, <1>2, <1>3, WatchStep

LEMMA AcceptFreezeKeeps ==
    ASSUME IInv, AcceptFreeze PROVE IInv'
<1>1. /\ AppOK(app', created) /\ Same(app, app') /\ memory' = memory
      /\ outcome' \in {"none", "done"}
  BY AcceptFreezeFacts
<1>2. /\ saving = NoSave /\ dialog' = NoDialog
      /\ UNCHANGED <<proc, access, created, file, temp, saving, workspace, tested, calls>>
  BY AcceptedFacts DEF AcceptFreeze
<1>3. World'
  BY <1>1, <1>2 DEF IInv, World
<1> QED
  BY <1>1, <1>2, <1>3, WatchStep

LEMMA GiveUpKeeps ==
    ASSUME IInv, GiveUp PROVE IInv'
<1>1. /\ dialog # NoDialog /\ dialog' = NoDialog /\ outcome' = "none" /\ app' = app
      /\ UNCHANGED <<proc, memory, access, created, file, temp, saving, workspace, tested, calls>>
  BY DEF GiveUp, Close, Quiet
<1>2. saving = NoSave
  BY <1>1 DEF IInv, SavingOK
<1>3. World' /\ AppOK(app', created) /\ Same(app, app')
  BY <1>1 DEF IInv, World, Same
<1> QED
  BY <1>1, <1>2, <1>3, WatchStep

LEMMA SaveTrickKeeps ==
    ASSUME IInv, NEW id \in DOMAIN app.watches, NEW n \in Names, NEW draft \in Drafts,
           SaveTrick(id, n, draft)
    PROVE  IInv'
<1>1. /\ saving = NoSave /\ dialog' = NoDialog /\ BeginSaveTrick(id, n, draft) /\ Counted
      /\ outcome' = "none"
      /\ UNCHANGED <<proc, memory, access, app, created, workspace, tested>>
  BY DEF SaveTrick, Free, Responsive
<1>2. World' /\ draft \in Draft
  BY <1>1, CountedFacts, TrainerAssumption DEF IInv, World
<1> QED
  BY <1>1, <1>2, SaveBegins

LEMMA StoreTrickKeeps ==
    ASSUME IInv, StoreTrick PROVE IInv'
<1>1. /\ dialog.kind = "store" /\ dialog' = NoDialog /\ outcome' = "none"
      /\ BeginSaveTrick(dialog.id, dialog.name, dialog.draft)
      /\ UNCHANGED <<proc, memory, access, app, created, workspace, tested, calls>>
  BY DEF StoreTrick, Close
<1>2. dialog.id \in DOMAIN app.watches /\ dialog.name \in Names /\ dialog.draft \in Draft
  BY <1>1 DEF IInv, DialogOK
<1>3. saving = NoSave
  BY <1>1 DEF IInv, SavingOK, NoDialog
<1>4. World'
  BY <1>1 DEF IInv, World
<1> QED
  BY <1>1, <1>2, <1>3, <1>4, SaveBegins

LEMMA EditValuesKeeps ==
    ASSUME IInv, NEW n \in DOMAIN Tricks, NEW enabled \in Value,
           NEW disabled \in Value \cup {NoValue}, EditValues(n, enabled, disabled)
    PROVE  IInv'
<1>1. UpdateTrickValues(n, enabled, disabled)
  BY DEF EditValues
<1>2. World'
  BY <1>1, CountedFacts DEF IInv, World, UpdateTrickValues
<1> QED
  BY <1>1, <1>2, EditBegins

LEMMA SavingKeeps ==
    ASSUME IInv, WriteDone \/ SaveFails PROVE IInv'
<1>1. /\ UNCHANGED <<proc, memory, access, app, created, file, workspace, dialog, tested, calls>>
      /\ outcome' = "none" /\ saving' \in {saving, NoSave}
  BY DEF WriteDone, SaveFails
<1>2. World' /\ Tricks' = Tricks
  BY <1>1 DEF IInv, World, Tricks
<1>3. SavingOK'
  <2>1. CASE WriteDone
    <3>1. /\ temp' = Put(Tricks, saving.name, saving.trick) /\ saving' = saving
          /\ saving # NoSave
      BY <2>1 DEF WriteDone
    <3> QED
      BY <1>1, <1>2, <3>1 DEF IInv, SavingOK
  <2>2. CASE SaveFails
    BY <2>2 DEF SaveFails, SavingOK
  <2> QED
    BY <2>1, <2>2
<1> QED
  BY <1>1, <1>2, <1>3, SavingStep

LEMMA AskKeeps == ASSUME IInv, Ask PROVE IInv'
<1>1. CASE \E spec \in Specs : AddWatch(spec)
  BY <1>1, AddWatchKeeps
<1>2. ASSUME NEW id \in DOMAIN app.watches, RemoveWatch(id) PROVE IInv'
  BY <1>2, RemoveWatchKeeps
<1>3. ASSUME NEW id \in DOMAIN app.watches, NEW value \in Value,
             SetWatchValue(id, value) \/ UpdateWatch(id, value)
      PROVE  IInv'
  BY <1>3, SetWatchValueKeeps, UpdateWatchKeeps
<1>4. ASSUME NEW id \in DOMAIN app.watches, NEW frozen \in BOOLEAN,
             NEW value \in Value \cup {NoValue}, SetFreeze(id, frozen, value)
      PROVE  IInv'
  BY <1>4, SetFreezeKeeps
<1>5. ASSUME NEW id \in DOMAIN app.watches, NEW n \in Names, NEW draft \in Drafts,
             SaveTrick(id, n, draft)
      PROVE  IInv'
  BY <1>5, SaveTrickKeeps
<1>6. ASSUME NEW id \in DOMAIN app.watches, NEW value \in Value,
             OpenWrite(id, value) \/ OpenFreeze(id, value)
      PROVE  IInv'
  BY <1>6, OpenConfirmationKeeps DEF OpenWrite, OpenFreeze
<1>7. ASSUME NEW id \in DOMAIN app.watches, OpenForm(id) PROVE IInv'
  BY <1>7, OpenFormKeeps
<1>8. ASSUME NEW n \in DOMAIN Tricks, NEW enabled \in Value,
             NEW disabled \in Value \cup {NoValue}, EditValues(n, enabled, disabled)
      PROVE  IInv'
  BY <1>8, EditValuesKeeps
<1>9. CASE SaveWorkspace
  <2>1. World'
    BY <1>9, CountedFacts DEF IInv, World, SaveWorkspace
  <2> QED
    BY <1>9, <2>1, StoreKeeps
<1> QED
  BY <1>1, <1>2, <1>3, <1>4, <1>5, <1>6, <1>7, <1>8, <1>9 DEF Ask

LEMMA UseKeeps == ASSUME IInv, Use PROVE IInv'
<1>1. ASSUME NEW mode \in {"read", "write"}, Attach(mode) PROVE IInv'
  <2>1. World'
    BY <1>1 DEF IInv, World, Attach
  <2> QED
    BY <1>1, <2>1, AttachKeeps
<1>2. CASE Detach
  <2>1. World' /\ Responsive /\ Leave
    BY <1>2 DEF IInv, World, Detach, Leave, AccessLost
  <2> QED
    BY <2>1, LeaveKeeps
<1>3. ASSUME NEW n \in DOMAIN Tricks, NEW on \in BOOLEAN, OpenToggle(n, on) PROVE IInv'
  BY <1>3, OpenToggleKeeps
<1>4. CASE \E n \in DOMAIN Tricks : Unfreeze(n)
  BY <1>4, UnfreezeKeeps
<1>5. CASE AcceptToggle \/ AcceptWrite \/ AcceptFreeze
  BY <1>5, AcceptToggleKeeps, AcceptWriteKeeps, AcceptFreezeKeeps
<1>6. ASSUME NEW n \in Names, NEW draft \in Drafts, FillForm(n, draft) PROVE IInv'
  BY <1>6, FillFormKeeps
<1>7. CASE AcceptCreate \/ GiveUp
  BY <1>7, AcceptCreateKeeps, GiveUpKeeps
<1>8. CASE LoadWorkspace
  <2>1. World'
    BY <1>8 DEF IInv, World, LoadWorkspace, OnWatches
  <2> QED
    BY <1>8, <2>1, LoadKeeps
<1> QED
  BY <1>1, <1>2, <1>3, <1>4, <1>5, <1>6, <1>7, <1>8 DEF Use

LEMMA RunKeeps == ASSUME IInv, Run PROVE IInv'
<1>1. CASE \/ StartProcess
           \/ ProcessExits
           \/ \E a \in Address, v \in Value : ProgramWrites(a, v)
           \/ \E id \in DOMAIN app.watches : FreezerTick(id)
  BY <1>1, TargetKeeps
<1>2. CASE ProcessGone
  <2>1. World' /\ Responsive /\ Leave
    BY <1>2 DEF IInv, World, ProcessGone, Leave, AccessLost
  <2> QED
    BY <2>1, LeaveKeeps
<1>3. CASE StoreTrick \/ WriteDone \/ SaveFails
  BY <1>3, StoreTrickKeeps, SavingKeeps
<1>4. CASE ReplaceFile
  <2>1. World'
    BY <1>4 DEF IInv, World, ReplaceFile, AfterExit, AccessLost
  <2> QED
    BY <1>4, <2>1, ReplaceKeeps
<1>5. CASE Crash
  <2>1. World'
    BY <1>5 DEF IInv, World, Crash
  <2> QED
    BY <1>5, <2>1, CrashKeeps
<1> QED
  BY <1>1, <1>2, <1>3, <1>4, <1>5 DEF Run

LEMMA StutterKeeps == ASSUME IInv, UNCHANGED vars PROVE IInv'
<1>1. /\ UNCHANGED <<proc, memory, access, app, created>>
      /\ UNCHANGED <<file, temp, saving, workspace, dialog>>
      /\ UNCHANGED <<outcome, tested, calls>>
  BY DEF vars
<1>2. World' /\ AppOK(app', created) /\ Same(app, app')
  BY <1>1 DEF IInv, World, Same
<1> QED
  BY <1>1, <1>2, WatchStep

LEMMA NextIInv == IInv /\ [Next]_vars => IInv'
  BY AskKeeps, UseKeeps, RunKeeps, StutterKeeps DEF Next

LEMMA IInvAlways == Spec => []IInv
  BY InitIInv, NextIInv, PTL DEF Spec

\* The steps that switch, write or freeze what was asked for.
LEMMA Outcomes ==
    ASSUME Next, outcome' # "none"
    PROVE  (\E n \in DOMAIN Tricks : Unfreeze(n)) \/ AcceptToggle \/ AcceptWrite \/ AcceptFreeze
<1>1. ~Ask
  <2>1. ASSUME NEW s, OnWatches(s) PROVE FALSE
    BY <2>1 DEF OnWatches
  <2>2. ASSUME NEW spec \in Specs PROVE ~AddWatch(spec)
    BY <2>1 DEF AddWatch
  <2>3. ASSUME NEW id PROVE ~RemoveWatch(id) /\ ~OpenForm(id)
    BY <2>1 DEF RemoveWatch, OpenForm
  <2>4. ASSUME NEW id, NEW value PROVE ~SetWatchValue(id, value) /\ ~UpdateWatch(id, value)
    BY <2>1 DEF SetWatchValue, UpdateWatch
  <2>5. ASSUME NEW id, NEW frozen, NEW value PROVE ~SetFreeze(id, frozen, value)
    BY <2>1 DEF SetFreeze
  <2>6. ASSUME NEW id, NEW n, NEW draft PROVE ~SaveTrick(id, n, draft)
    BY DEF SaveTrick
  <2>7. ASSUME NEW id, NEW value PROVE ~OpenWrite(id, value) /\ ~OpenFreeze(id, value)
    BY DEF OpenWrite, OpenFreeze, OpenConfirmation
  <2>8. ASSUME NEW n, NEW enabled, NEW disabled PROVE ~EditValues(n, enabled, disabled)
    BY DEF EditValues, UpdateTrickValues
  <2>9. ~SaveWorkspace
    BY DEF SaveWorkspace
  <2> QED
    BY <2>2, <2>3, <2>4, <2>5, <2>6, <2>7, <2>8, <2>9 DEF Ask
<1>2. ~Run
  BY DEF Run, StartProcess, ProcessExits, ProgramWrites, FreezerTick, ProcessGone, Leave,
         StoreTrick, WriteDone, ReplaceFile, SaveFails, Crash
<1>3. Use
  BY <1>1, <1>2 DEF Next
<1> QED
  BY <1>3 DEF Use, Attach, Detach, Leave, OpenToggle, FillForm, AcceptCreate, GiveUp,
              LoadWorkspace, OnWatches

\* The runtime watch of the trick on the screen is where the dialog said.
LEMMA ToggledAsShown ==
    ASSUME IInv, IInv', AcceptToggle, outcome' = "done"
    PROVE  LET w == app'.watches[app'.runtime[dialog.name]]
               frozen == Tricks[dialog.name].mode = "freeze"
           IN  /\ w.desired = dialog.value
               /\ IF frozen THEN w.frozen ELSE memory'[Resolve(w.loc)] = dialog.value
               /\ dialog.name \in app'.active <=> dialog.on
               /\ w.loc.mode = "absolute" => Resolve(w.loc) = dialog.address
               /\ w.loc.mode = "module_offset" =>
                    Resolve(w.loc) + dialog.base = dialog.address + proc.base
<1> DEFINE n == dialog.name
           on == dialog.on
           id == app'.runtime[n]
           w == app'.watches[id]
           loc == Tricks[n].loc
<1>1. /\ SetTrickActive(n, on) /\ dialog.kind = "toggle" /\ access # "none"
      /\ UNCHANGED <<proc, access, file>>
  BY DEF AcceptToggle, Guarded
<1>2. n \in DOMAIN Tricks /\ on \in BOOLEAN /\ (on \/ Tricks[n].mode = "write_pair")
  BY <1>1 DEF IInv, DialogOK
<1>3. Tricks[n] \in Trick /\ proc.base \in Nat
  BY <1>2, TrainerAssumption DEF IInv, FilesOK, Catalog, World
<1>4. /\ dialog.value = Target(n, on) /\ ShownAt(loc)
      /\ n \in DOMAIN app.runtime => dialog.base = proc.base
  BY <1>1 DEF IInv, ShownNow
<1>5. DoneAsAsked(n, on) /\ Steady
  BY <1>1, <1>2, SwitchFacts
<1>6. /\ n \in DOMAIN app'.runtime /\ id \in DOMAIN app'.watches
      /\ w.desired = Target(n, on)
      /\ Tricks[n].mode = "freeze" => w.frozen = on
      /\ Tricks[n].mode = "write_pair" => memory'[Resolve(w.loc)] = Target(n, on)
      /\ n \in app'.active <=> on
  BY <1>5 DEF DoneAsAsked
<1>7. IF Tricks[n].mode = "freeze" THEN w.frozen ELSE memory'[Resolve(w.loc)] = dialog.value
  BY <1>2, <1>3, <1>4, <1>6 DEF Trick
<1>8. Tricks' = Tricks
  BY <1>1 DEF Tricks
<1>9. SameCell(w.loc, loc)
  <2>1. Linked' /\ access' # "none"
    BY <1>1 DEF IInv
  <2>2. (\A m \in DOMAIN app.runtime : app.runtime[m] \in DOMAIN app.watches =>
            SameCell(app.watches[app.runtime[m]].loc, Tricks[m].loc))'
    BY <2>1 DEF Linked, OnCell
  <2> HIDE DEF n
  <2> QED
    BY <1>1, <1>6, <1>8, <2>2 DEF SameCell
<1>10. dialog.base = proc.base \/ w.loc = loc
  BY <1>4, <1>5, <1>6 DEF Steady
<1>11. loc \in Location
  BY <1>3 DEF Trick
<1> HIDE DEF w, loc
<1>12. w.loc.mode = "absolute" => Resolve(w.loc) = dialog.address
  <2> SUFFICES ASSUME w.loc.mode = "absolute" PROVE w.loc.at = dialog.address
    BY DEF Resolve
  <2>1. CASE w.loc = loc
    BY <1>4, <2>1 DEF ShownAt
  <2>2. CASE loc.mode = "module_offset" /\ w.loc.at = proc.base + loc.at
    BY <1>4, <1>10, <2>2 DEF ShownAt
  <2> QED
    BY <1>9, <2>1, <2>2 DEF SameCell
<1>13. w.loc.mode = "module_offset" =>
        Resolve(w.loc) + dialog.base = dialog.address + proc.base
  <2> SUFFICES ASSUME w.loc.mode = "module_offset"
               PROVE  Resolve(w.loc) + dialog.base = dialog.address + proc.base
    OBVIOUS
  <2>1. w.loc = loc /\ dialog.address = dialog.base + loc.at
    BY <1>4, <1>9 DEF SameCell, ShownAt
  <2>2. Resolve(w.loc) = proc.base + loc.at
    BY <2>1 DEF Resolve, Module
  <2>3. dialog.base \in Nat /\ loc.at \in Nat
    BY <1>1, <1>11 DEF IInv, DialogOK, Location
  <2> QED
    BY <1>3, <2>1, <2>2, <2>3
<1> QED
  BY <1>4, <1>6, <1>7, <1>12, <1>13 DEF w, id

\* So is the watch of a write or of a freeze.
LEMMA WrittenAsShown ==
    ASSUME IInv, AcceptWrite \/ AcceptFreeze
    PROVE  LET w == app'.watches[dialog.id]
           IN  /\ dialog.kind # "toggle" /\ w.desired = dialog.value
               /\ IF dialog.kind = "freeze" THEN w.frozen
                  ELSE memory'[Resolve(w.loc)] = dialog.value
               /\ w.loc.mode = "absolute" => Resolve(w.loc) = dialog.address
               /\ w.loc.mode = "module_offset" =>
                    Resolve(w.loc) + dialog.base = dialog.address + proc.base
<1> DEFINE w == app'.watches[dialog.id]
           v == app.watches[dialog.id]
<1>1. /\ dialog.id \in DOMAIN app.watches
      /\ dialog.kind \in {"write", "freeze"}
      /\ AcceptWrite => dialog.kind = "write"
      /\ AcceptFreeze => dialog.kind = "freeze"
  BY AcceptedFacts DEF AcceptWrite, AcceptFreeze
<1>2. /\ Same(app, app') /\ w.desired = dialog.value
      /\ AcceptFreeze => w.frozen
      /\ AcceptWrite => memory'[Resolve(v.loc)] = dialog.value
  BY AcceptWriteFacts, AcceptFreezeFacts
<1>3. w.loc = v.loc
  BY <1>1, <1>2 DEF Same
<1>4. ShownAt(v.loc)
  BY <1>1 DEF IInv, ShownNow
<1>5. v.loc \in Location /\ proc.base \in Nat /\ dialog.base \in Nat
  BY <1>1, TrainerAssumption DEF IInv, World, DialogOK, AppOK, Watches, Watch
<1> HIDE DEF w, v
<1>6. w.loc.mode = "absolute" => Resolve(w.loc) = dialog.address
  BY <1>3, <1>4 DEF ShownAt, Resolve
<1>7. w.loc.mode = "module_offset" =>
        Resolve(w.loc) + dialog.base = dialog.address + proc.base
  BY <1>3, <1>4, <1>5 DEF ShownAt, Resolve, Module, Location
<1> QED
  BY <1>1, <1>2, <1>3, <1>6, <1>7 DEF w

-----------------------------------------------------------------------------
(* Theorems.                                                               *)

\* The variables keep their types, and the file that is read is a catalogue,
\* however saves, crashes, loads and switches interleave.
THEOREM TypeCorrect == Spec => []TypeOK
<1>1. ASSUME IInv PROVE TypeOK
  <2>1. Range(app.runtime) \subseteq 1..created
    BY <1>1 DEF IInv, AppOK, Range
  <2> QED
    BY <1>1, <2>1 DEF IInv, World, AppOK, Watches, FilesOK, Catalog, Remembered, TypeOK
<1> QED
  BY <1>1, IInvAlways, PTL

\* For any number of watches, tricks, starts and workspaces: a trick is
\* switched through a watch on the cell that the catalogue names.
THEOREM RuntimeWatchAgrees == Spec => []RuntimeWatchSameCell
<1>1. ASSUME IInv PROVE RuntimeWatchSameCell
  <2> SUFFICES ASSUME access # "none", NEW n \in DOMAIN app.runtime,
                      app.runtime[n] \in DOMAIN app.watches
               PROVE  Resolve(app.watches[app.runtime[n]].loc) = Resolve(Tricks[n].loc)
    BY DEF RuntimeWatchSameCell
  <2>1. SameCell(app.watches[app.runtime[n]].loc, Tricks[n].loc)
    BY <1>1 DEF IInv, Linked, OnCell
  <2> QED
    BY <2>1 DEF SameCell, Resolve, Module
<1> QED
  BY <1>1, IInvAlways, PTL

\* Wherever the module is loaded in a later start: a trick tested on one of its
\* cells names that cell.
THEOREM TrickFindsItsCell == Spec => []TrickHitsItsCell
<1>1. IInv => TrickHitsItsCell
  BY DEF IInv, Remembered, NamesCell, TrickHitsItsCell, Resolve, Module
<1> QED
  BY <1>1, IInvAlways, PTL

\* Whatever crashes or fails in the middle of a save, the catalogue can be read.
THEOREM CatalogIsReadable == Spec => []CatalogNeverTorn
<1>1. IInv => CatalogNeverTorn
  BY DEF IInv, FilesOK, CatalogNeverTorn
<1> QED
  BY <1>1, IInvAlways, PTL

\* Whatever the agent, the scheduler and the target do while a dialog is open:
\* what is confirmed in it is what it showed.
THEOREM ConfirmationIsKept == Spec => ConfirmedAsShown
<1> DEFINE Kept ==
        outcome' = "done" /\ dialog # NoDialog =>
            LET toggle == dialog.kind = "toggle"
                w == app'.watches[IF toggle THEN app'.runtime[dialog.name] ELSE dialog.id]
                frozen == IF toggle THEN Tricks[dialog.name].mode = "freeze"
                          ELSE dialog.kind = "freeze"
            IN  /\ w.desired = dialog.value
                /\ IF frozen THEN w.frozen ELSE memory'[Resolve(w.loc)] = dialog.value
                /\ toggle => (dialog.name \in app'.active <=> dialog.on)
                /\ w.loc.mode = "absolute" => Resolve(w.loc) = dialog.address
                /\ w.loc.mode = "module_offset" =>
                    Resolve(w.loc) + dialog.base = dialog.address + proc.base
<1>1. IInv /\ IInv' /\ [Next]_vars => [Kept]_vars
  <2> SUFFICES ASSUME IInv, IInv', Next, outcome' = "done", dialog # NoDialog PROVE Kept
    OBVIOUS
  <2>1. AcceptToggle \/ AcceptWrite \/ AcceptFreeze
    BY Outcomes DEF Unfreeze, Free
  <2>2. CASE AcceptToggle
    <3>1. dialog.kind = "toggle"
      BY <2>2 DEF AcceptToggle
    <3> QED
      BY <2>2, <3>1, ToggledAsShown
  <2>3. CASE AcceptWrite \/ AcceptFreeze
    BY <2>3, WrittenAsShown
  <2> HIDE DEF Kept
  <2> QED
    BY <2>1, <2>2, <2>3
<1> QED
  BY <1>1, IInvAlways, PTL DEF Spec, ConfirmedAsShown

\* For any tables and any point of failure: a switch that fails reaches no cell
\* and no watch but its own, and marks no trick that is not in effect.
THEOREM FailedSwitchIsContained == Spec => FailedSwitchContained
<1> DEFINE Bounded ==
        outcome' = "refused" => \E n \in DOMAIN Tricks, on \in BOOLEAN : Contained(n, on)
<1>1. IInv /\ [Next]_vars => [Bounded]_vars
  <2> SUFFICES ASSUME IInv, Next, outcome' = "refused"
               PROVE  \E n \in DOMAIN Tricks, on \in BOOLEAN : Contained(n, on)
    OBVIOUS
  <2>1. (\E n \in DOMAIN Tricks : Unfreeze(n)) \/ AcceptToggle
    BY Outcomes, AcceptWriteFacts, AcceptFreezeFacts
  <2>2. access # "none" /\ \E n \in DOMAIN Tricks, on \in BOOLEAN : SetTrickActive(n, on)
    BY <2>1 DEF Unfreeze, AcceptToggle, Guarded, IInv, DialogOK
  <2> QED
    BY <2>2, RefusedFacts
<1> QED
  BY <1>1, IInvAlways, PTL DEF Spec, FailedSwitchContained, Contained
=============================================================================
