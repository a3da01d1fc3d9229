------------------------------ MODULE Trainer ------------------------------
(***************************************************************************)
(* Trainer tricks: a watch whose value was tested is saved under a name in *)
(* the catalogue of the executable, with an address meant to survive the   *)
(* next start of that executable, and is switched on and off through a     *)
(* runtime watch.  The watch table outlives a detach, the table of runtime *)
(* watches and the set of active tricks do not, a workspace file can       *)
(* replace the watches, and only the two files outlive a crash.            *)
(*                                                                         *)
(* One executable, started again and again at another base; the module is  *)
(* its own image.  A value is also an address when a pointer chain follows *)
(* it.  Names stand for the identifiers of tricks: saving under a name     *)
(* keeps its identifier.  Labels, intervals, notes, audit records and the  *)
(* order of writes within a tick (WatchFreeze) are left out.               *)
(***************************************************************************)
EXTENDS Naturals, FiniteSets, Functions

CONSTANTS
    Address,      \* addresses of the target's memory
    Base,         \* where the module can be loaded
    ModuleSize,   \* cells of the module
    MaxValue,     \* values are 0..MaxValue; 0 is the null pointer
    Specs,        \* locations the user can watch
    Names,        \* names of tricks
    Drafts,       \* what the user can fill in for a trick
    NoFile,       \* the content of a file that does not exist
    Torn,         \* the content of a file cut off in the middle
    MaxInstances, \* bound: starts of the executable
    MaxWatches,   \* bound: watches ever added
    MaxCalls      \* bound: changes of watches, tricks and files asked for

Value == 0..MaxValue
NoValue == MaxValue + 1
Location == [mode : {"absolute", "module_offset", "pointer_chain"}, at : Nat]
Draft == [mode : {"freeze", "write_pair"}, enabled : Value,
          disabled : Value \cup {NoValue}]

ASSUME TrainerAssumption ==
    /\ Address \subseteq Nat \ {0} /\ IsFiniteSet(Address)
    /\ Base \subseteq Nat
    /\ ModuleSize \in Nat \ {0}
    /\ \A b \in Base : b..(b + ModuleSize - 1) \subseteq Address
    /\ MaxValue \in Nat
    /\ Specs \subseteq Location
    /\ \A s \in Specs : s.mode # "absolute" => s.at < ModuleSize
    /\ \A s \in Specs : s.mode = "absolute" => s.at \in Address
    /\ Drafts \subseteq Draft
    /\ MaxInstances \in Nat \ {0}
    /\ MaxWatches \in Nat \ {0}
    /\ MaxCalls \in Nat
    /\ NoFile # Torn

VARIABLES
    proc,      \* the running instance of the executable
    memory,    \* its memory
    access,    \* how the controller is attached to it
    app,       \* WatchTable, _trainer_watch_ids and _active_tricks
    created,   \* watches ever added
    file,      \* trainer.json
    temp,      \* trainer.json.tmp
    saving,    \* the TrainerService._save in progress
    workspace, \* the workspace file
    dialog,    \* the modal confirmation on the screen
    outcome,   \* how the last switching of a trick ended
    tested,    \* history: the cell each trick was saved from
    calls      \* calls counted against MaxCalls

vars == <<proc, memory, access, app, created, file, temp, saving, workspace,
          dialog, outcome, tested, calls>>

Trick == [loc : Location, mode : {"freeze", "write_pair"}, enabled : Value,
          disabled : Value \cup {NoValue}]
Watch == [loc : Location, frozen : BOOLEAN, desired : Value \cup {NoValue}]

NoSave == [kind |-> "none"]
NoDialog == [kind |-> "none"]
Empty == [x \in {} |-> x]

\* load: the catalogue that is stored, an empty one while there is no file.
Tricks == IF file = NoFile THEN Empty ELSE file

\* The values of the watches and tricks are those of their types; the file of
\* the catalogue is read as a catalogue.
TypeOK ==
    /\ proc \in [base : Base, alive : BOOLEAN, instance : 1..MaxInstances]
    /\ memory \in [Address -> Value]
    /\ access \in {"none", "read", "write"}
    /\ DOMAIN app.watches \subseteq 1..created
    /\ \A id \in DOMAIN app.watches : app.watches[id] \in Watch
    /\ DOMAIN app.runtime \subseteq Names /\ Range(app.runtime) \subseteq 1..created
    /\ app.active \subseteq Names
    /\ created \in 0..MaxWatches
    /\ file # Torn =>
        /\ DOMAIN Tricks \subseteq Names
        /\ \A n \in DOMAIN Tricks : Tricks[n] \in Trick
    /\ outcome \in {"none", "done", "refused"}
    /\ DOMAIN tested \subseteq Names
    /\ calls \in 0..MaxCalls

Init ==
    /\ \E b \in Base : proc = [base |-> b, alive |-> TRUE, instance |-> 1]
    /\ memory = [a \in Address |-> 0]
    /\ access = "none"
    /\ app = [watches |-> Empty, runtime |-> Empty, active |-> {}]
    /\ created = 0
    /\ file = NoFile
    /\ temp = NoFile
    /\ saving = NoSave
    /\ workspace = NoFile
    /\ dialog = NoDialog
    /\ outcome = "none"
    /\ tested = Empty
    /\ calls = 0

-----------------------------------------------------------------------------
(* Addresses.                                                              *)

\* Where the module is loaded now.
Module == [base |-> proc.base, size |-> ModuleSize]

\* What a call is told of it by enumerate_modules and _safe_modules: an error is
\* an empty list.  Without the module a location that is not absolute is an
\* error, and a call that fails before it changed anything is no step here.
SafeModules == {{Module}, {}}

InModule(a) == a \in Module.base..(Module.base + Module.size - 1)

\* resolve_chain, of one step: what a pointer of the module holds.
ResolveChain(loc) == memory[Module.base + loc.at]

\* resolve_watch_address: an address, or 0 for an error.
Resolve(loc) ==
    IF loc.mode = "absolute" THEN loc.at
    ELSE IF loc.mode = "module_offset" THEN Module.base + loc.at
    ELSE ResolveChain(loc)

\* An address that can be read, after Resolve.
Found(loc) == Resolve(loc) \in Address

\* Mutant: the address the watch was made with is what is saved.
PortableAsWatched(loc, modules) == loc

\* address_to_module_offset, for a watch with an absolute address; it stays as
\* it is when no module is found.
Portable(loc, modules) ==
    IF loc.mode = "absolute" /\ modules # {} /\ InModule(loc.at)
    THEN [mode |-> "module_offset", at |-> loc.at - Module.base]
    ELSE loc

\* What an address is in every instance of the executable.
Cell(a) == [module |-> InModule(a), at |-> IF InModule(a) THEN a - Module.base ELSE a]

-----------------------------------------------------------------------------
(* Watches, runtime watches and active tricks.                             *)

Put(f, k, v) == [x \in DOMAIN f \cup {k} |-> IF x = k THEN v ELSE f[x]]
Drop(f, S) == [x \in DOMAIN f \ S |-> f[x]]
MappedTo(s, id) == {n \in DOMAIN s.runtime : s.runtime[n] = id}
\* Mutant: a fresh identifier is the one given last.
LastId == created

FreshId == created + 1
NewWatch(loc) == [loc |-> loc, frozen |-> FALSE, desired |-> NoValue]

\* WatchTable: add, remove, update, set_written_value, set_freeze, replace_all.
Added(s, id, loc) == [s EXCEPT !.watches = Put(@, id, NewWatch(loc))]
Removed(s, id) == [s EXCEPT !.watches = Drop(@, {id})]
Updated(s, id, value) == [s EXCEPT !.watches[id].desired = value]
Written(s, id, value) == [s EXCEPT !.watches[id].desired = value]
Replaced(s, watches) == [s EXCEPT !.watches = watches]

\* Without a value the watch keeps the one it wants, and must want one.
MayFreeze(s, id, frozen, value) ==
    frozen /\ value = NoValue => s.watches[id].desired # NoValue
Frozen(s, id, frozen, value) ==
    LET desired == IF value = NoValue THEN s.watches[id].desired ELSE value
    IN  [s EXCEPT !.watches[id] = [@ EXCEPT !.frozen = frozen, !.desired = desired]]

\* _trick_is_active
IsActive(s, catalog, n) ==
    /\ n \in s.active
    /\ catalog[n].mode = "freeze" =>
        /\ n \in DOMAIN s.runtime
        /\ s.runtime[n] \in DOMAIN s.watches
        /\ s.watches[s.runtime[n]].frozen
        /\ s.watches[s.runtime[n]].desired = catalog[n].enabled

\* trainers_changed makes the overlay list the tricks, which forgets those that
\* are no longer active.
Listed(s, catalog) == [s EXCEPT !.active = {n \in @ : IsActive(s, catalog, n)}]

\* set_freeze
WithFreeze(s, catalog, id, frozen, value) ==
    LET t == Frozen(s, id, frozen, value)
    IN  IF MappedTo(s, id) = {} THEN t ELSE Listed(t, catalog)

\* A written value decides which of the write pairs in names are active.
Decided(s, names, value) ==
    LET pairs == {n \in names : Tricks[n].mode = "write_pair"}
        on == {n \in pairs : Tricks[n].enabled = value}
    IN  [s EXCEPT !.active = (@ \ (pairs \ on)) \cup on]

\* set_watch_value, once written.
WithWritten(s, id, value) ==
    LET t == Decided(Written(s, id, value), MappedTo(s, id), value)
    IN  IF MappedTo(s, id) = {} THEN t ELSE Listed(t, Tricks)

\* set_watch_value fails after the write: its audit record, or the look-up of
\* one of the tricks it decides on.
WrittenInPart(s, id, value) ==
    {Decided(Written(s, id, value), names, value) :
        names \in {{}} \cup (SUBSET MappedTo(s, id) \ {MappedTo(s, id)})}

WatchAddress(id) == Resolve(app.watches[id].loc)

\* is_committed_writable: every cell there is can be written.
Writable(a) == a \in Address

CanWrite(loc) == access = "write" /\ Writable(Resolve(loc))

-----------------------------------------------------------------------------
(* The target.                                                             *)

StartProcess ==
    /\ ~proc.alive
    /\ proc.instance < MaxInstances
    /\ \E b \in Base : proc' = [base |-> b, alive |-> TRUE, instance |-> proc.instance + 1]
    /\ memory' = [a \in Address |-> 0]
    /\ access = "none"
    /\ outcome' = "none"
    /\ UNCHANGED <<access, app, created, file, temp, saving, workspace, dialog, tested, calls>>

ProcessExits ==
    /\ proc.alive
    /\ proc' = [proc EXCEPT !.alive = FALSE]
    /\ outcome' = "none"
    /\ UNCHANGED <<memory, access, app, created, file, temp, saving, workspace,
                   dialog, tested, calls>>

ProgramWrites(a, v) ==
    /\ proc.alive
    /\ memory' = [memory EXCEPT ![a] = v]
    /\ outcome' = "none"
    /\ UNCHANGED <<proc, access, app, created, file, temp, saving, workspace,
                   dialog, tested, calls>>

-----------------------------------------------------------------------------
(* Attaching.  A modal dialog keeps the user from everything but itself;   *)
(* the agent, the scheduler and the target go on: what is Free is asked by *)
(* the user or needs a card, the rest may be a tool call.                  *)

Responsive == saving = NoSave /\ dialog.kind # "store"
Counted == calls < MaxCalls /\ calls' = calls + 1
Free == Responsive /\ dialog = NoDialog
Guarded == Responsive /\ access # "none" /\ proc.alive

\* The overlay is hidden with the attachment it belongs to.
MutationsAllowed == access = "write"

\* The agent attaches for reading without a card.
Attach(mode) ==
    /\ IF mode = "read" THEN Responsive ELSE Free
    /\ access = "none"
    /\ proc.alive
    /\ access' = mode
    /\ app' = [app EXCEPT !.runtime = Empty, !.active = {}]
    /\ outcome' = "none"
    /\ UNCHANGED <<proc, memory, created, file, temp, saving, workspace, dialog, tested, calls>>

\* _detach_internal: the watches stay.
Detached(s) == [s EXCEPT !.runtime = Empty, !.active = {}]

\* The main window forgets the write access and hides the overlay.
AccessLost == access' = "none"

Leave ==
    /\ AccessLost
    /\ app' = Detached(app)
    /\ outcome' = "none"
    /\ UNCHANGED <<proc, memory, created, file, temp, saving, workspace, dialog, tested, calls>>

Detach == Responsive /\ access # "none" /\ Leave

\* The scheduler's tick, or any guarded call, notices that the target is gone.
ProcessGone == Responsive /\ access # "none" /\ ~proc.alive /\ Leave

-----------------------------------------------------------------------------
(* Watches: the user's calls and the agent's.                              *)

OnWatches(s) ==
    /\ app' = s
    /\ outcome' = "none"
    /\ UNCHANGED <<proc, access, file, temp, saving, workspace, dialog, tested>>

AddWatch(spec) ==
    /\ Guarded
    /\ created < MaxWatches
    /\ Resolve(spec) # 0
    /\ OnWatches(Added(app, FreshId, spec))
    /\ created' = created + 1
    /\ UNCHANGED <<memory, calls>>

RemoveWatch(id) ==
    LET gone == MappedTo(app, id)
        s == [Removed(app, id) EXCEPT !.runtime = Drop(@, gone), !.active = @ \ gone]
    IN  /\ Counted /\ Guarded
        /\ \/ OnWatches(IF gone = {} THEN s ELSE Listed(s, Tricks))
           \/ OnWatches(Removed(app, id))     \* its audit record fails
        /\ UNCHANGED <<memory, created>>

SetWatchValue(id, value) ==
    /\ Counted /\ Guarded
    /\ CanWrite(app.watches[id].loc)
    /\ memory' = [memory EXCEPT ![WatchAddress(id)] = value]
    /\ \/ OnWatches(WithWritten(app, id, value))
       \/ \E s \in WrittenInPart(app, id, value) : OnWatches(s)
    /\ UNCHANGED created

SetFreeze(id, frozen, value) ==
    /\ Counted /\ Guarded
    /\ MayFreeze(app, id, frozen, value)
    /\ \/ OnWatches(WithFreeze(app, Tricks, id, frozen, value))
       \/ OnWatches(Frozen(app, id, frozen, value))     \* its audit record fails
    /\ UNCHANGED <<memory, created>>

\* The cells of the watch list; the agent has no tool for it.
UpdateWatch(id, value) ==
    /\ Counted /\ Guarded /\ Free
    /\ OnWatches(Updated(app, id, value))
    /\ UNCHANGED <<memory, created>>

\* One frozen watch of a tick of the scheduler, in its own thread.
FreezerTick(id) ==
    LET w == app.watches[id]
    IN  /\ access # "none" /\ proc.alive
        /\ w.frozen /\ CanWrite(w.loc)
        /\ memory[Resolve(w.loc)] # w.desired
        /\ memory' = [memory EXCEPT ![Resolve(w.loc)] = w.desired]
        /\ outcome' = "none"
        /\ UNCHANGED <<proc, access, app, created, file, temp, saving, workspace,
                       dialog, tested, calls>>

-----------------------------------------------------------------------------
(* Saving: the GUI thread writes the new catalogue to a temporary file and *)
(* then puts it in the place of the old one.                               *)

\* Mutant: the catalogue is written in its place.
BeginWriteInPlace(save) == saving' = save /\ temp' = Torn /\ file' = Torn

BeginWrite(save) == saving' = save /\ temp' = Torn /\ UNCHANGED file

Complete(draft) == draft.mode = "write_pair" => draft.disabled # NoValue

\* save_trainer_trick up to the write.
BeginSaveTrick(id, n, draft) ==
    LET loc == app.watches[id].loc
    IN  \E modules \in SafeModules :
        /\ loc.mode # "absolute" => modules # {}
        /\ Found(loc)
        /\ memory[Resolve(loc)] = draft.enabled
        /\ Complete(draft)
        /\ BeginWrite([kind |-> "save", name |-> n, id |-> id,
                       cell |-> Cell(Resolve(loc)), listed |-> modules # {},
                       trick |-> [loc |-> Portable(loc, modules), mode |-> draft.mode,
                                  enabled |-> draft.enabled,
                                  disabled |-> draft.disabled]])

\* The agent's tool, once the user has confirmed it.
SaveTrick(id, n, draft) ==
    /\ Counted /\ Guarded /\ Free
    /\ BeginSaveTrick(id, n, draft)
    /\ outcome' = "none"
    /\ UNCHANGED <<proc, memory, access, app, created, workspace, dialog, tested>>

\* update_trick_values: the address is the one that was saved.
WithValues(trick, enabled, disabled) ==
    [trick EXCEPT !.enabled = enabled, !.disabled = disabled]

\* A write pair is edited with both of its values.
BothValues(n, disabled) == (Tricks[n].mode = "write_pair") <=> (disabled # NoValue)

\* update_trainer_trick_values up to the write.
UpdateTrickValues(n, enabled, disabled) ==
    /\ Counted /\ Guarded /\ Free
    /\ ~IsActive(app, Tricks, n)
    /\ BothValues(n, disabled)
    /\ BeginWrite([kind |-> "edit", name |-> n,
                   trick |-> WithValues(Tricks[n], enabled, disabled)])
    /\ app' = [app EXCEPT !.active = @ \ {n}]
    /\ outcome' = "none"
    /\ UNCHANGED <<proc, memory, access, created, workspace, dialog, tested>>

\* The overlay's editor, which needs no confirmation.
EditValues(n, enabled, disabled) ==
    /\ MutationsAllowed
    /\ UpdateTrickValues(n, enabled, disabled)

WriteDone ==
    /\ temp = Torn /\ saving # NoSave
    /\ temp' = Put(Tricks, saving.name, saving.trick)
    /\ outcome' = "none"
    /\ UNCHANGED <<proc, memory, access, app, created, file, saving, workspace,
                   dialog, tested, calls>>

\* Mutant: a trick saved again keeps its runtime watch.
KeptRuntime(n, id) == IF n \in DOMAIN app.runtime THEN app.runtime ELSE Put(app.runtime, n, id)

SavedRuntime(n, id) == Put(app.runtime, n, id)

\* The rest of save_trainer_trick, with the catalogue just stored: all of it, or
\* up to the audit record of the freeze, or up to its own.
AfterSave(catalog) ==
    LET trick == saving.trick
        mapped == [app EXCEPT !.runtime = SavedRuntime(saving.name, saving.id)]
        freeze == trick.mode = "freeze"
        held == IF freeze THEN WithFreeze(mapped, catalog, saving.id, TRUE, trick.enabled)
                ELSE mapped
        marked == [held EXCEPT !.active = @ \cup {saving.name}]
        unmarked == IF freeze THEN {Frozen(mapped, saving.id, TRUE, trick.enabled)} ELSE {}
    IN  {Listed(marked, catalog), marked} \cup unmarked

\* The rest of update_trainer_trick_values, all of it or up to an audit record;
\* the watch may have been replaced, and then the call fails too.
AfterEdit(catalog) ==
    LET n == saving.name
        s == IF n \in DOMAIN app.runtime
             THEN Updated(app, app.runtime[n], saving.trick.enabled) ELSE app
    IN  IF n \in DOMAIN app.runtime /\ app.runtime[n] \notin DOMAIN app.watches
        THEN {app} ELSE {Listed(s, catalog), s}

\* A target that has gone is noticed by the guarded call that follows, if one
\* does before an audit record fails.
AfterExit ==
    \/ AccessLost /\ app' = Detached(app)
    \/ /\ saving.kind = "save" => saving.trick.mode = "write_pair"
       /\ saving.kind = "edit" => saving.name \notin DOMAIN app.runtime
       /\ UNCHANGED access
       /\ app' = IF saving.kind = "edit" THEN app
                 ELSE [app EXCEPT !.runtime = SavedRuntime(saving.name, saving.id),
                                  !.active = @ \cup {saving.name}]

ReplaceFile ==
    /\ saving # NoSave /\ temp \notin {Torn, NoFile}
    /\ file' = temp
    /\ temp' = NoFile
    /\ saving' = NoSave
    /\ IF proc.alive
       THEN /\ app' \in IF saving.kind = "save" THEN AfterSave(temp) ELSE AfterEdit(temp)
            /\ UNCHANGED access
       ELSE AfterExit
    /\ tested' = IF saving.kind = "save"
                 THEN Put(tested, saving.name, [cell |-> saving.cell, listed |-> saving.listed])
                 ELSE tested
    /\ outcome' = "none"
    /\ UNCHANGED <<proc, memory, created, workspace, dialog, calls>>

\* An OSError: the temporary file is removed and the call ends with an error.
SaveFails ==
    /\ saving # NoSave
    /\ saving' = NoSave
    /\ temp' = NoFile
    /\ outcome' = "none"
    /\ UNCHANGED <<proc, memory, access, app, created, file, workspace, dialog, tested, calls>>

-----------------------------------------------------------------------------
(* Switching a trick.                                                      *)

HasRuntime(n) == n \in DOMAIN app.runtime /\ app.runtime[n] \in DOMAIN app.watches

\* _runtime_watch_for_trick, when the address resolves.
RuntimeId(n) == IF HasRuntime(n) THEN app.runtime[n] ELSE FreshId
WithRuntime(n) ==
    IF HasRuntime(n) THEN app
    ELSE [Added(app, FreshId, Tricks[n].loc) EXCEPT !.runtime = Put(@, n, FreshId)]

\* The active set after a switch.
Switched(s, n, on) == [s EXCEPT !.active = IF on THEN @ \cup {n} ELSE @ \ {n}]

\* Mutant: the trick is marked before it is written.
MarkedFirst(s, n, on) == Switched(s, n, on)

\* A trick is marked only after its write.
Marked(s, n, on) == s

Mark(s, n, on) == Listed(Switched(s, n, on), Tricks)

\* Mutant: an activation uses the value the watch already wants.
TargetOfWatch(n, on) ==
    IF HasRuntime(n) /\ app.watches[app.runtime[n]].desired # NoValue
    THEN app.watches[app.runtime[n]].desired ELSE Tricks[n].enabled

\* The value a switch freezes at or writes.
Target(n, on) ==
    IF on \/ Tricks[n].mode = "freeze" THEN Tricks[n].enabled ELSE Tricks[n].disabled

\* The address does not resolve, or the module cannot be listed.
NoRuntime(n) ==
    /\ ~HasRuntime(n)
    /\ Tricks[n].loc.mode = "absolute" => Resolve(Tricks[n].loc) = 0
    /\ app' = [app EXCEPT !.runtime = Drop(@, {n})]
    /\ outcome' = "refused"
    /\ UNCHANGED <<memory, created>>

\* The runtime watch is added, and its audit record fails.
NoRuntimeOnRecord(n) ==
    /\ ~HasRuntime(n)
    /\ app' = [Added(app, FreshId, Tricks[n].loc) EXCEPT !.runtime = Drop(@, {n})]
    /\ outcome' = "refused"
    /\ UNCHANGED memory

\* A switch that fails with the freeze stored stops before the trick is marked,
\* or at the audit record after it.
SwitchFreeze(n, on) ==
    LET s == WithRuntime(n)
        frozen == WithFreeze(s, Tricks, RuntimeId(n), on, Target(n, on))
    IN  /\ Tricks[n].mode = "freeze"
        /\ \/ /\ app' = Mark(frozen, n, on)
              /\ outcome' = "done"
           \/ /\ app' \in {Frozen(s, RuntimeId(n), on, Target(n, on)),
                           Switched(frozen, n, on)}
              /\ outcome' = "refused"
        /\ UNCHANGED memory

\* The same of a value that is written, which may also fail to be.
SwitchPair(n, on) ==
    LET s == WithRuntime(n)
        id == RuntimeId(n)
        written == WithWritten(s, id, Target(n, on))
    IN  /\ Tricks[n].mode = "write_pair"
        /\ \/ /\ CanWrite(s.watches[id].loc)
              /\ memory' = [memory EXCEPT ![Resolve(s.watches[id].loc)] = Target(n, on)]
              /\ \/ app' = Mark(written, n, on) /\ outcome' = "done"
                 \/ /\ app' \in WrittenInPart(s, id, Target(n, on))
                                  \cup {Switched(written, n, on)}
                    /\ outcome' = "refused"
           \/ /\ app' = Marked(s, n, on)
              /\ outcome' = "refused"
              /\ UNCHANGED memory

\* set_trainer_trick_active
SetTrickActive(n, on) ==
    \/ NoRuntime(n)
    \/ /\ HasRuntime(n) \/ (Resolve(Tricks[n].loc) # 0 /\ created < MaxWatches)
       /\ created' = IF HasRuntime(n) THEN created ELSE FreshId
       /\ NoRuntimeOnRecord(n) \/ SwitchFreeze(n, on) \/ SwitchPair(n, on)

-----------------------------------------------------------------------------
(* The overlay: what writes memory is confirmed in a modal dialog.         *)

Close == dialog' = NoDialog
Quiet == UNCHANGED <<proc, memory, access, created, file, temp, saving, workspace, tested>>

OpenToggle(n, on) ==
    /\ Guarded /\ Free /\ MutationsAllowed
    /\ Found(Tricks[n].loc)
    /\ on \/ Tricks[n].mode = "write_pair"
    /\ dialog' = [kind |-> "toggle", name |-> n, on |-> on,
                  address |-> Resolve(Tricks[n].loc), base |-> proc.base,
                  value |-> Target(n, on)]
    /\ app' = Listed(app, Tricks)
    /\ outcome' = "none"
    /\ Quiet /\ UNCHANGED calls

\* Unfreezing needs no confirmation.
Unfreeze(n) ==
    /\ Guarded /\ Free /\ MutationsAllowed
    /\ Tricks[n].mode = "freeze" /\ Resolve(Tricks[n].loc) # 0
    /\ SetTrickActive(n, FALSE)
    /\ UNCHANGED <<proc, access, file, temp, saving, workspace, dialog, tested, calls>>

AcceptToggle ==
    /\ dialog.kind = "toggle" /\ Guarded
    /\ SetTrickActive(dialog.name, dialog.on)
    /\ Close
    /\ UNCHANGED <<proc, access, file, temp, saving, workspace, tested, calls>>

\* A value to write to a watch, or to freeze it at, shown with the address the
\* watch has when the dialog opens.
OpenConfirmation(kind, id, value) ==
    /\ Counted /\ Guarded /\ Free /\ MutationsAllowed
    /\ WatchAddress(id) # 0
    /\ dialog' = [kind |-> kind, id |-> id, value |-> value,
                  address |-> WatchAddress(id), base |-> proc.base]
    /\ outcome' = "none"
    /\ UNCHANGED app
    /\ Quiet

\* The buttons follow the watch table: a frozen watch is not written, and what
\* is offered for it is to unfreeze it.
Offered(id) == ~app.watches[id].frozen

OpenWrite(id, value) == Offered(id) /\ OpenConfirmation("write", id, value)
OpenFreeze(id, value) == Offered(id) /\ OpenConfirmation("freeze", id, value)

\* The watch may have been removed while the dialog was open.
Accepted(kind) ==
    /\ dialog.kind = kind /\ Guarded
    /\ dialog.id \in DOMAIN app.watches
    /\ Close
    /\ UNCHANGED <<proc, access, created, file, temp, saving, workspace, tested, calls>>

AcceptWrite ==
    /\ Accepted("write")
    /\ CanWrite(app.watches[dialog.id].loc)
    /\ memory' = [memory EXCEPT ![WatchAddress(dialog.id)] = dialog.value]
    /\ \/ app' = WithWritten(app, dialog.id, dialog.value) /\ outcome' = "done"
       \/ app' \in WrittenInPart(app, dialog.id, dialog.value) /\ outcome' = "none"

AcceptFreeze ==
    /\ Accepted("freeze")
    /\ \/ app' = WithFreeze(app, Tricks, dialog.id, TRUE, dialog.value) /\ outcome' = "done"
       \/ app' = Frozen(app, dialog.id, TRUE, dialog.value) /\ outcome' = "none"
    /\ UNCHANGED memory

\* _create_manual_trainer: the form of a watch that is not frozen.
OpenForm(id) ==
    /\ Counted /\ Free /\ access = "write"
    /\ ~app.watches[id].frozen
    /\ dialog' = [kind |-> "form", id |-> id]
    /\ outcome' = "none"
    /\ UNCHANGED app
    /\ Quiet

\* The form is accepted: the value is read and shown for confirmation.
FillForm(n, draft) ==
    /\ dialog.kind = "form" /\ Guarded
    /\ Complete(draft)
    /\ dialog.id \in DOMAIN app.watches
    /\ Found(app.watches[dialog.id].loc)
    /\ dialog' = [kind |-> "create", id |-> dialog.id, name |-> n, draft |-> draft,
                  current |-> memory[Resolve(app.watches[dialog.id].loc)]]
    /\ outcome' = "none"
    /\ UNCHANGED app
    /\ Quiet /\ UNCHANGED calls

\* Confirmed: the value is tried unless memory held it when it was read.  The
\* trick is not stored when the try fails after its write.
AcceptCreate ==
    /\ dialog.kind = "create" /\ Guarded
    /\ dialog.id \in DOMAIN app.watches
    /\ LET loc == app.watches[dialog.id].loc
            value == dialog.draft.enabled
       IN  \/ /\ dialog.current = value
              /\ dialog' = [dialog EXCEPT !.kind = "store"]
              /\ UNCHANGED <<memory, app>>
           \/ /\ dialog.current # value
              /\ CanWrite(loc)
              /\ memory' = [memory EXCEPT ![Resolve(loc)] = value]
              /\ \/ /\ app' = WithWritten(app, dialog.id, value)
                    /\ dialog' = [dialog EXCEPT !.kind = "store"]
                 \/ /\ app' \in WrittenInPart(app, dialog.id, value)
                    /\ Close
    /\ outcome' = "none"
    /\ UNCHANGED <<proc, access, created, file, temp, saving, workspace, tested, calls>>

StoreTrick ==
    /\ dialog.kind = "store" /\ proc.alive
    /\ BeginSaveTrick(dialog.id, dialog.name, dialog.draft)
    /\ Close
    /\ outcome' = "none"
    /\ UNCHANGED <<proc, memory, access, app, created, workspace, tested, calls>>

\* Rejected, or refused by a guard of the calls that would follow.
GiveUp ==
    /\ dialog # NoDialog
    /\ Close
    /\ outcome' = "none"
    /\ UNCHANGED app
    /\ Quiet /\ UNCHANGED calls

-----------------------------------------------------------------------------
(* Workspaces and restarts.                                                *)

\* The file is written beside the old one and put in its place in one step.
StoreWorkspace(watches) == workspace' = watches

SaveWorkspace ==
    /\ Counted /\ Guarded
    /\ StoreWorkspace(app.watches)
    /\ outcome' = "none"
    /\ UNCHANGED <<proc, memory, access, app, created, file, temp, saving, dialog, tested>>

\* The runtime watches of the tricks are kept, and nothing is listed.
LoadWorkspace ==
    /\ Guarded
    /\ workspace # NoFile
    /\ OnWatches(Replaced(app, workspace))
    /\ UNCHANGED <<memory, created, calls>>

\* The application dies, at any point of a save, and is started again.
Crash ==
    /\ access' = "none"
    /\ app' = [watches |-> Empty, runtime |-> Empty, active |-> {}]
    /\ saving' = NoSave
    /\ dialog' = NoDialog
    /\ outcome' = "none"
    /\ UNCHANGED <<proc, memory, created, file, temp, workspace, tested, calls>>

-----------------------------------------------------------------------------
\* Calls the user or the agent may make at any time, each counted.
Ask ==
    \/ \E spec \in Specs : AddWatch(spec)
    \/ \E id \in DOMAIN app.watches :
        \/ RemoveWatch(id)
        \/ \E value \in Value : SetWatchValue(id, value) \/ UpdateWatch(id, value)
        \/ \E frozen \in BOOLEAN, value \in Value \cup {NoValue} :
                SetFreeze(id, frozen, value)
        \/ \E n \in Names, draft \in Drafts : SaveTrick(id, n, draft)
        \/ \E value \in Value : OpenWrite(id, value) \/ OpenFreeze(id, value)
        \/ OpenForm(id)
    \/ \E n \in DOMAIN Tricks, enabled \in Value, disabled \in Value \cup {NoValue} :
            EditValues(n, enabled, disabled)
    \/ SaveWorkspace

Use ==
    \/ \E mode \in {"read", "write"} : Attach(mode)
    \/ Detach
    \/ \E n \in DOMAIN Tricks, on \in BOOLEAN : OpenToggle(n, on)
    \/ \E n \in DOMAIN Tricks : Unfreeze(n)
    \/ AcceptToggle
    \/ AcceptWrite
    \/ AcceptFreeze
    \/ \E n \in Names, draft \in Drafts : FillForm(n, draft)
    \/ AcceptCreate
    \/ GiveUp
    \/ LoadWorkspace

Run ==
    \/ StartProcess
    \/ ProcessExits
    \/ \E a \in Address, v \in Value : ProgramWrites(a, v)
    \/ \E id \in DOMAIN app.watches : FreezerTick(id)
    \/ ProcessGone
    \/ StoreTrick
    \/ WriteDone
    \/ ReplaceFile
    \/ SaveFails
    \/ Crash

Next ==
    \/ Ask
    \/ Use
    \/ Run

Spec == Init /\ [][Next]_vars

-----------------------------------------------------------------------------
(* Properties.                                                             *)

\* The watch a trick is switched through is on the cell the catalogue names,
\* although one was saved with the address of the watch and the other may have
\* been made from the file, replaced by a workspace, or kept over a detach.
RuntimeWatchSameCell ==
    access # "none" =>
        \A n \in DOMAIN app.runtime :
            app.runtime[n] \in DOMAIN app.watches =>
                Resolve(app.watches[app.runtime[n]].loc) = Resolve(Tricks[n].loc)

\* A trick tested on a cell of the module names that cell in every later start
\* of the executable, wherever it is loaded, provided its modules could be listed
\* when it was saved: else the address itself is what the catalogue keeps.
TrickHitsItsCell ==
    \A n \in DOMAIN Tricks :
        LET cell == tested[n].cell
        IN  Tricks[n].loc.mode # "pointer_chain" /\ cell.module /\ tested[n].listed =>
                Resolve(Tricks[n].loc) = proc.base + cell.at

\* A crash or an error in the middle of a save never leaves a catalogue that
\* cannot be read.
CatalogNeverTorn == file # Torn

\* What a confirmed switch, write or freeze does is what the dialog showed,
\* whatever the agent, the scheduler and the target did while it was open: its
\* value, at the address shown or, of a location of the module, where that cell
\* is now, although the target may have been started and attached again.  Only a
\* pointer chain is followed again.
ConfirmedAsShown ==
    [][outcome' = "done" /\ dialog # NoDialog =>
        LET toggle == dialog.kind = "toggle"
            w == app'.watches[IF toggle THEN app'.runtime[dialog.name] ELSE dialog.id]
            frozen == IF toggle THEN Tricks[dialog.name].mode = "freeze"
                      ELSE dialog.kind = "freeze"
        IN  /\ w.desired = dialog.value
            /\ IF frozen THEN w.frozen ELSE memory'[Resolve(w.loc)] = dialog.value
            /\ toggle => (dialog.name \in app'.active <=> dialog.on)
            /\ w.loc.mode = "absolute" => Resolve(w.loc) = dialog.address
            /\ w.loc.mode = "module_offset" =>
                Resolve(w.loc) + dialog.base = dialog.address + proc.base]_vars

\* A switch that fails, even after its freeze was stored or its value written,
\* reaches no further than its own cell and runtime watch, with the value asked
\* for, and marks a trick only if it is in effect.
FailedSwitchContained ==
    [][outcome' = "refused" =>
        \E n \in DOMAIN Tricks, on \in BOOLEAN :
            LET id == RuntimeId(n)
                w == WithRuntime(n).watches[id]
            IN  /\ \A a \in Address : memory'[a] # memory[a] =>
                        a = Resolve(Tricks[n].loc) /\ memory'[a] = Target(n, on)
                /\ \A i \in (DOMAIN app.watches \cup DOMAIN app'.watches) \ {id} :
                        /\ i \in DOMAIN app.watches \cap DOMAIN app'.watches
                        /\ app'.watches[i] = app.watches[i]
                /\ id \in DOMAIN app'.watches =>
                        /\ app'.watches[id].loc = w.loc
                        /\ app'.watches[id].frozen \in {w.frozen, on}
                        /\ app'.watches[id].desired \in {w.desired, Target(n, on)}
                /\ \A m \in app'.active \ app.active :
                        IF Tricks[m].mode = "freeze" THEN IsActive(app', Tricks, m)
                        ELSE memory'[Resolve(Tricks[m].loc)] = Tricks[m].enabled]_vars

\* What the docstring of watch_address and the documentation promise of each
\* confirmation: the address that is written or frozen is the one shown, of
\* whatever is not found by following a chain again.
ExactConfirmation ==
    [][outcome' = "done" /\ dialog # NoDialog =>
        LET id == IF dialog.kind = "toggle" THEN app'.runtime[dialog.name] ELSE dialog.id
            loc == app'.watches[id].loc
        IN  loc.mode # "pointer_chain" => Resolve(loc) = dialog.address]_vars
=============================================================================
