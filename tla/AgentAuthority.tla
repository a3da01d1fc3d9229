--------------------------- MODULE AgentAuthority ---------------------------
(***************************************************************************)
(* What the assistant may do, and to which process.  A turn runs in a      *)
(* worker thread (AgentTurnJob); each tool call it makes is posted to the  *)
(* GUI thread, where AgentPolicy decides: denied, executed, or shown on a  *)
(* confirmation card.  Meanwhile the user and the controller attach,       *)
(* detach, lose the process, change the mode and the provider.             *)
(*                                                                         *)
(* A process stands for its identity (pid and creation time).  Scans and   *)
(* watches are kept only as far as FlowMachine, whose state the policy     *)
(* consults, depends on them.  A provider's answer carries at most one     *)
(* call.                                                                   *)
(***************************************************************************)
EXTENDS Naturals

CONSTANTS
    Process,     \* processes that can be attached
    NoProcess,   \* no process
    WriteLimit,  \* AgentPolicy.write_limit
    MaxRounds,   \* _MAX_TOOL_ROUNDS
    MaxAttach    \* bound: attachments ever made

ASSUME ParamAssumption ==
    /\ NoProcess \notin Process
    /\ WriteLimit \in Nat
    /\ MaxRounds \in Nat \ {0}
    /\ MaxAttach \in Nat \ {0}

VARIABLES
    target,     \* the open process and which attachment it is
    flow,       \* FlowMachine.state
    scan,       \* state of the controller's scan session
    watched,    \* whether the watch table has entries
    mode,       \* AgentPolicy.mode
    bound,      \* AgentPolicy.bound_identity
    used,       \* AgentPolicy.writes_used
    provider,   \* whether a provider is configured
    grant,      \* AgentOrchestrator._autonomous_identity
    consent,    \* AutonomousConsentDialog: the process it names, and whether it is open
    turn,       \* the agent worker: its phase, its rounds, its answer in the event queue
    call,       \* the worker's ToolInvocation
    busy,       \* AgentOrchestrator._busy
    unasked     \* history: mutations executed without a card since the last consent

world == <<target, flow, scan, watched>>
authority == <<mode, bound, grant>>
agent == <<turn, call>>
vars == <<world, authority, used, provider, consent, agent, busy, unasked>>

Mode == {"off", "guided", "autonomous"}
FlowState == {"no_process", "attached", "scanning", "candidates",
              "awaiting_change", "narrowed", "watching"}
ScanState == {"none", "scanning", "ready", "stopped"}

-----------------------------------------------------------------------------
(* The published tools, grouped by what the policy and the flow can tell   *)
(* apart: "read_address" also stands for the other queries of an attached  *)
(* process, "write_watch" for freeze_watch, which needs no write handle.    *)

AttachedStates == FlowState \ {"no_process", "scanning"}
ResultStates == AttachedStates \ {"attached"}

Tool(mutating, process, states, confirm) ==
    [mutating |-> mutating, process |-> process, states |-> states,
     confirm |-> confirm]

\* attach_process counts as mutating only when it asks for write access.
ScanTools ==
    [list_processes |-> Tool(FALSE, FALSE, FlowState, FALSE),
     attach_read    |-> Tool(FALSE, FALSE, {"no_process"}, FALSE),
     attach_write   |-> Tool(TRUE,  FALSE, {"no_process"}, FALSE),
     detach_process |-> Tool(FALSE, TRUE, FlowState \ {"no_process"}, FALSE),
     start_scan     |-> Tool(FALSE, TRUE, AttachedStates, FALSE),
     refine_scan    |-> Tool(FALSE, TRUE, ResultStates, FALSE),
     cancel_scan    |-> Tool(FALSE, TRUE, {"scanning"}, FALSE),
     read_address   |-> Tool(FALSE, TRUE, AttachedStates, FALSE)]

\* What writes is mutating, and so is a workspace, whose watches may be frozen;
\* only saving a trick is always confirmed.
WatchTools ==
    [add_watch      |-> Tool(FALSE, TRUE, ResultStates, FALSE),
     remove_watch   |-> Tool(FALSE, TRUE, AttachedStates, FALSE),
     write_watch    |-> Tool(TRUE,  TRUE, AttachedStates, FALSE),
     unfreeze_watch |-> Tool(FALSE, TRUE, AttachedStates, FALSE),
     load_workspace |-> Tool(TRUE,  TRUE, AttachedStates, FALSE),
     save_trick     |-> Tool(TRUE,  TRUE, AttachedStates, TRUE)]

ToolName == DOMAIN ScanTools \cup DOMAIN WatchTools
Tools ==
    [name \in ToolName |->
        IF name \in DOMAIN ScanTools THEN ScanTools[name] ELSE WatchTools[name]]
AttachTools == {"attach_read", "attach_write"}

\* pid: the process an attach call names; asked: the attachment in which the
\* call's card was shown.
Call == [phase : {"none", "posted", "card"}, tool : ToolName,
         pid : Process \cup {NoProcess}, asked : 0..MaxAttach]
NoCall == [phase |-> "none", tool |-> "list_processes", pid |-> NoProcess, asked |-> 0]

Turn == [phase : {"none", "thinking", "calling", "finished"},
         rounds : 0..MaxRounds, answer : BOOLEAN]

TypeOK ==
    /\ target \in [process : Process \cup {NoProcess}, epoch : 0..MaxAttach]
    /\ flow \in FlowState
    /\ scan \in ScanState
    /\ watched \in BOOLEAN
    /\ mode \in Mode
    /\ bound \in Process \cup {NoProcess}
    /\ used \in 0..WriteLimit
    /\ provider \in BOOLEAN
    /\ grant \in Process \cup {NoProcess}
    /\ consent \in [open : BOOLEAN, process : Process \cup {NoProcess}]
    /\ turn \in Turn
    /\ call \in Call
    /\ busy \in BOOLEAN
    /\ unasked \in Nat

Init ==
    /\ target = [process |-> NoProcess, epoch |-> 0]
    /\ flow = "no_process"
    /\ scan = "none"
    /\ watched = FALSE
    /\ provider \in BOOLEAN
    /\ mode = IF provider THEN "guided" ELSE "off"
    /\ bound = NoProcess
    /\ used = 0
    /\ grant = NoProcess
    /\ consent = [open |-> FALSE, process |-> NoProcess]
    /\ turn = [phase |-> "none", rounds |-> 0, answer |-> FALSE]
    /\ call = NoCall
    /\ busy = FALSE
    /\ unasked = 0

-----------------------------------------------------------------------------
(* Attachment: what the controller does, and what the slots of its signals *)
(* do in the same call.                                                    *)

Attached == target.process # NoProcess

\* _process_authorization_ended: set_guided_mode ends an autonomous grant.
Guided(m) == IF m = "autonomous" THEN "guided" ELSE m

\* Mutant: the orchestrator does not hear of the detachment.
DetachUnheard ==
    /\ target' = [target EXCEPT !.process = NoProcess]
    /\ flow' = "no_process"
    /\ scan' = "none"
    /\ bound' = NoProcess
    /\ UNCHANGED <<mode, grant>>

\* _detach_internal, and the slots of process_lost and detached.
DetachInternal ==
    /\ target' = [target EXCEPT !.process = NoProcess]
    /\ flow' = "no_process"
    /\ scan' = "none"
    /\ mode' = Guided(mode)
    /\ bound' = NoProcess
    /\ grant' = NoProcess

\* attach: a process still open is detached first; _on_security_attached ends a
\* grant for another process.
AttachTo(p) ==
    /\ target.epoch < MaxAttach
    /\ target' = [process |-> p, epoch |-> target.epoch + 1]
    /\ flow' = "attached"
    /\ scan' = "none"
    /\ bound' = p
    /\ LET kept == ~Attached /\ grant \in {NoProcess, p}
       IN  /\ mode' = IF kept THEN mode ELSE Guided(mode)
           /\ grant' = IF kept THEN grant ELSE NoProcess

\* _finish_invocation: the worker goes on with the result.
Finish ==
    /\ call' = NoCall
    /\ turn' = [turn EXCEPT !.phase = "thinking"]

\* Mutant: the card outlives the attachment.
KeepCard == UNCHANGED agent

\* A process that goes away rejects the card on screen.
RejectCard == IF call.phase = "card" THEN Finish ELSE UNCHANGED agent

-----------------------------------------------------------------------------
(* AgentPolicy.evaluate.                                                   *)

BoundToTarget == Attached /\ bound = target.process

NeedsCard(tool) == tool.confirm \/ (tool.mutating /\ mode = "guided")

\* Mutant: off by one.
WithinQuotaPlusOne == used <= WriteLimit

WithinQuota == used < WriteLimit

ChangesProcess == AttachTools \cup {"detach_process"}

\* A mutation that needs no card is held by the quota, not by the flow state.
Denied(name) ==
    LET tool == Tools[name]
    IN  \/ mode = "off"
        \/ mode = "autonomous" /\ name \in ChangesProcess
        \/ mode = "autonomous" /\ ~BoundToTarget
        \/ tool.process /\ ~Attached
        \/ ~NeedsCard(tool) /\ tool.mutating /\ ~WithinQuota
        \/ ~NeedsCard(tool) /\ ~tool.mutating /\ flow \notin tool.states

\* A grant found bound to another process is revoked on the spot.
Revoked(name) ==
    /\ mode = "autonomous"
    /\ ~BoundToTarget
    /\ name \notin ChangesProcess
    /\ Tools[name].process => Attached

-----------------------------------------------------------------------------
(* What the tool handlers do to the world, in the GUI thread.              *)

\* Mutant: the bound identity is not checked.
AgentAttachAny ==
    /\ call.tool \in AttachTools
    /\ AttachTo(call.pid)
    /\ UNCHANGED watched

\* AppController.attach refuses the agent a process other than the bound one.
AgentAttach ==
    /\ call.tool \in AttachTools
    /\ bound \in {NoProcess, call.pid}
    /\ AttachTo(call.pid)
    /\ UNCHANGED watched

\* detach_process, any other call that finds the process dead, or an attach that
\* closes the process and then fails to open it again.
AgentDetach ==
    /\ Attached
    /\ Tools[call.tool].process \/ call.pid = bound
    /\ DetachInternal
    /\ UNCHANGED watched

StartScan ==
    /\ Attached
    /\ scan # "scanning"
    /\ scan' = "scanning"
    /\ flow' = "scanning"
    /\ UNCHANGED <<target, watched, authority>>

AgentScan ==
    /\ call.tool \in {"start_scan", "refine_scan"}
    /\ call.tool = "refine_scan" => scan = "ready"
    /\ StartScan

\* Every change of the watch table notifies FlowMachine.on_watches_changed.
ChangeWatches(left) ==
    /\ Attached
    /\ watched' = left
    /\ flow' = IF left THEN "watching" ELSE flow
    /\ UNCHANGED <<target, scan, authority>>

\* A trick that is saved to freeze its watch changes the table as freezing it does.
AgentWatch ==
    /\ call.tool \in DOMAIN WatchTools
    /\ call.tool \in {"add_watch", "load_workspace"} \/ watched
    /\ \E left \in BOOLEAN :
           /\ call.tool \notin {"remove_watch", "load_workspace"} => left
           /\ ChangeWatches(left)

\* Errors, queries, requests to cancel and tricks that are saved without freezing
\* their watch change nothing here.
NoEffect == UNCHANGED <<world, authority>>

Execute ==
    /\ NoEffect \/ AgentAttach \/ AgentDetach \/ AgentScan \/ AgentWatch
    /\ Finish

-----------------------------------------------------------------------------
(* GUI thread: handle_tool_invocation and the confirmation cards.          *)

Received == call.phase = "posted"

Refuse ==
    /\ Received
    /\ Denied(call.tool)
    /\ IF Revoked(call.tool)
       THEN mode' = "guided" /\ bound' = NoProcess /\ grant' = NoProcess
       ELSE UNCHANGED authority
    /\ Finish
    /\ UNCHANGED <<world, used, provider, consent, busy, unasked>>

Allow ==
    /\ Received
    /\ ~Denied(call.tool)
    /\ ~NeedsCard(Tools[call.tool])
    /\ LET cost == IF Tools[call.tool].mutating THEN 1 ELSE 0
       IN  used' = used + cost /\ unasked' = unasked + cost
    /\ Execute
    /\ UNCHANGED <<provider, consent, busy>>

ShowCard ==
    /\ Received
    /\ ~Denied(call.tool)
    /\ NeedsCard(Tools[call.tool])
    /\ call' = [call EXCEPT !.phase = "card", !.asked = target.epoch]
    /\ UNCHANGED <<world, authority, used, provider, consent, turn, busy, unasked>>

\* The consent dialog is modal: while it is open no card can be clicked.
UserFree == ~consent.open

\* A confirmed call runs as it is, without another look at the policy.
Confirm ==
    /\ UserFree
    /\ call.phase = "card"
    /\ Execute
    /\ UNCHANGED <<used, provider, consent, busy, unasked>>

\* Mutant: the card goes but the worker is not told.
DismissSilently ==
    /\ call.phase = "card"
    /\ call' = NoCall
    /\ UNCHANGED <<world, authority, used, provider, consent, turn, busy, unasked>>

\* The user rejects the card, or its timer runs out.
Dismiss ==
    /\ call.phase = "card"
    /\ Finish
    /\ UNCHANGED <<world, authority, used, provider, consent, busy, unasked>>

-----------------------------------------------------------------------------
(* GUI thread: the user and the controller's other events.                 *)

UserAttach ==
    /\ UserFree
    /\ \E p \in Process : AttachTo(p)
    /\ IF Attached THEN RejectCard ELSE UNCHANGED agent
    /\ UNCHANGED <<watched, used, provider, consent, busy, unasked>>

\* The user detaches, or the process is found dead.
ProcessGone ==
    /\ Attached
    /\ DetachInternal
    /\ RejectCard
    /\ UNCHANGED <<watched, used, provider, consent, busy, unasked>>

UserScan ==
    /\ UserFree
    /\ StartScan
    /\ UNCHANGED <<used, provider, consent, agent, busy, unasked>>

UserResetScan ==
    /\ UserFree
    /\ scan = "ready"
    /\ scan' = "none"
    /\ UNCHANGED <<target, flow, watched, authority, used, provider, consent,
                   agent, busy, unasked>>

\* _on_scan_completed; on_scan_finished looks at the number of candidates.
ScanCompletes ==
    /\ scan = "scanning"
    /\ scan' = "ready"
    /\ flow' \in {"narrowed", "candidates"}
    /\ UNCHANGED <<target, watched, authority, used, provider, consent, agent,
                   busy, unasked>>

\* _on_scan_failed and _on_scan_cancelled: FlowMachine hears of neither.
ScanStops ==
    /\ scan = "scanning"
    /\ scan' = "stopped"
    /\ UNCHANGED <<target, flow, watched, authority, used, provider, consent,
                   agent, busy, unasked>>

UserWatch ==
    /\ UserFree
    /\ \E left \in BOOLEAN : ChangeWatches(left)
    /\ UNCHANGED <<used, provider, consent, agent, busy, unasked>>

ConfigureProvider ==
    /\ UserFree
    /\ ~busy
    /\ provider' \in BOOLEAN
    /\ mode' = IF provider' THEN "guided" ELSE "off"
    /\ used' = 0
    /\ grant' = NoProcess
    /\ UNCHANGED <<world, bound, consent, agent, busy, unasked>>

SetGuidedMode ==
    /\ UserFree
    /\ mode = "autonomous"
    /\ mode' = "guided"
    /\ grant' = NoProcess
    /\ UNCHANGED <<world, bound, used, provider, consent, agent, busy, unasked>>

OpenConsent ==
    /\ UserFree
    /\ mode = "guided"
    /\ Attached
    /\ consent' = [open |-> TRUE, process |-> target.process]
    /\ UNCHANGED <<world, authority, used, provider, agent, busy, unasked>>

\* activate_autonomous_mode takes the identity attached by now.
AcceptConsent ==
    /\ consent.open
    /\ consent' = [consent EXCEPT !.open = FALSE]
    /\ IF provider /\ Attached
       THEN /\ mode' = "autonomous"
            /\ bound' = target.process
            /\ grant' = target.process
            /\ used' = 0
            /\ unasked' = 0
       ELSE UNCHANGED <<authority, used, unasked>>
    /\ UNCHANGED <<world, provider, agent, busy>>

RefuseConsent ==
    /\ consent.open
    /\ consent' = [consent EXCEPT !.open = FALSE]
    /\ UNCHANGED <<world, authority, used, provider, agent, busy, unasked>>

-----------------------------------------------------------------------------
(* A turn: submit, the worker thread, the answer.                          *)

Submit ==
    /\ UserFree
    /\ provider /\ mode # "off"
    /\ ~busy
    /\ turn.phase = "none"
    /\ busy' = TRUE
    /\ turn' = [phase |-> "thinking", rounds |-> 0, answer |-> FALSE]
    /\ UNCHANGED <<world, authority, used, provider, consent, call, unasked>>

\* Mutant: the rounds of a turn are not limited.
CallToolUnlimited ==
    /\ turn.phase = "thinking"
    /\ turn' = [turn EXCEPT !.phase = "calling", !.rounds = @ + 1]
    /\ call' = [NoCall EXCEPT !.phase = "posted"]
    /\ UNCHANGED <<world, authority, used, provider, consent, busy, unasked>>

\* The provider asks for a tool; request_tool posts it and waits.
CallTool ==
    /\ turn.phase = "thinking"
    /\ turn.rounds < MaxRounds
    /\ turn' = [turn EXCEPT !.phase = "calling", !.rounds = @ + 1]
    /\ \E name \in ToolName :
           \E p \in IF name \in AttachTools THEN Process ELSE {NoProcess} :
               call' = [phase |-> "posted", tool |-> name, pid |-> p, asked |-> 0]
    /\ UNCHANGED <<world, authority, used, provider, consent, busy, unasked>>

EndTurn == turn' = [turn EXCEPT !.phase = "finished", !.answer = TRUE]

\* mark_awaiting_change, from the worker thread.
Reply ==
    /\ turn.phase = "thinking"
    /\ turn.rounds < MaxRounds
    /\ flow' = IF flow = "candidates" THEN "awaiting_change" ELSE flow
    /\ EndTurn
    /\ UNCHANGED <<target, scan, watched, authority, used, provider, consent,
                   call, busy, unasked>>

\* The provider fails, or the rounds are spent.
FailTurn ==
    /\ turn.phase = "thinking"
    /\ EndTurn
    /\ UNCHANGED <<world, authority, used, provider, consent, call, busy, unasked>>

ThreadEnd ==
    /\ turn.phase = "finished"
    /\ turn' = [turn EXCEPT !.phase = "none"]
    /\ UNCHANGED <<world, authority, used, provider, consent, call, busy, unasked>>

\* _on_agent_event.
OnAnswer ==
    /\ turn.answer
    /\ turn' = [turn EXCEPT !.answer = FALSE]
    /\ busy' = FALSE
    /\ UNCHANGED <<world, authority, used, provider, consent, call, unasked>>

-----------------------------------------------------------------------------

User ==
    \/ UserAttach
    \/ UserScan
    \/ UserResetScan
    \/ UserWatch
    \/ ConfigureProvider
    \/ SetGuidedMode
    \/ OpenConsent
    \/ AcceptConsent
    \/ RefuseConsent
    \/ Submit
    \/ Confirm

Worker == CallTool \/ Reply \/ FailTurn \/ ThreadEnd
HandleCall == Refuse \/ Allow \/ ShowCard
ScanEnds == ScanCompletes \/ ScanStops

Next == User \/ ProcessGone \/ HandleCall \/ Dismiss \/ Worker \/ ScanEnds \/ OnAnswer

\* The worker runs (a provider's answer is awaited with a timeout), the event
\* loop turns, the card's timer fires and a scan ends; the user owes nothing.
Fairness ==
    /\ WF_vars(Worker)
    /\ WF_vars(HandleCall)
    /\ WF_vars(Dismiss)
    /\ WF_vars(ScanEnds)
    /\ WF_vars(OnAnswer)

Spec == Init /\ [][Next]_vars /\ Fairness

-----------------------------------------------------------------------------
(* Properties.                                                             *)

\* The identity the policy is bound to is the attached one, and an autonomous
\* mode stands on a grant for it, through every way of attaching, detaching and
\* losing a process ("Desactivar el modo o desacoplar revoca la concesion").
GrantFollowsTarget ==
    /\ Attached => bound = target.process
    /\ mode = "autonomous" => Attached /\ grant = target.process

\* A card on screen for a call on a process belongs to the present attachment,
\* so what the user confirms is what the call was shown for ("Una confirmacion no
\* puede reutilizarse para otra llamada ni para otro proceso").
CardOfPresentProcess ==
    call.phase = "card" /\ Tools[call.tool].process
        => Attached /\ call.asked = target.epoch

\* One consent buys at most WriteLimit mutations without a card, whatever
\* becomes of the mode, the process and the provider meanwhile.
ConsentBuysLimit == unasked <= WriteLimit

\* No call of the agent puts another process in the place of the attached one.
AgentKeepsProcess ==
    [][(Allow \/ Confirm) /\ Attached
         => target'.process \in {target.process, NoProcess}]_vars

\* A turn ends, whatever cards nobody answers and processes go away in it.
TurnEnds == busy ~> ~busy

\* The process the autonomous mode is granted for is the one the consent dialog
\* named ("La autorizacion queda vinculada a una unica identidad de proceso").
GrantedAsConsented == mode = "autonomous" => grant = consent.process

\* FlowMachine, the "authoritative workflow derived from controller signals",
\* leaves SCANNING once the scan is over.
FlowLeavesScanning == flow = "scanning" ~> flow # "scanning"
=============================================================================
