------------------------ MODULE AgentAuthorityProofs ------------------------
(***************************************************************************)
(* Proofs about AgentAuthority, for any processes, quota, rounds of a turn *)
(* and attachments.                                                        *)
(***************************************************************************)
EXTENDS AgentAuthority, TLAPS

\* While a grant lasts, every mutation without a card is charged to the quota.
\* ConsentBuysLimit alone is not inductive: nothing else ties it to the counter
\* that the policy looks at.
UnaskedIsCharged == mode = "autonomous" => unasked <= used

\* A call to attach names a process.
AttachNamesProcess == call.tool \in AttachTools => call.pid \in Process

IInv ==
    /\ TypeOK
    /\ AttachNamesProcess
    /\ GrantFollowsTarget
    /\ CardOfPresentProcess
    /\ ConsentBuysLimit
    /\ UnaskedIsCharged

\* What a change of the attachment or of the watches and scans leaves true.
AuthorityOK ==
    /\ target \in [process : Process \cup {NoProcess}, epoch : 0..MaxAttach]
    /\ flow \in FlowState
    /\ scan \in ScanState
    /\ watched \in BOOLEAN
    /\ mode \in Mode
    /\ bound \in Process \cup {NoProcess}
    /\ grant \in Process \cup {NoProcess}
    /\ GrantFollowsTarget

-----------------------------------------------------------------------------

\* A finished call is no call on a process.
LEMMA NoCallTyped ==
    NoCall \in Call /\ NoCall.phase = "none" /\ NoCall.tool \notin AttachTools
<1>1. "list_processes" \in ToolName
  BY DEF ToolName, ScanTools
<1> QED
  BY <1>1, ParamAssumption DEF NoCall, Call, AttachTools

\* The invariant holds at the start.
LEMMA InitIInv == Init => IInv
<1> SUFFICES ASSUME Init PROVE IInv
  OBVIOUS
<1> USE ParamAssumption DEF Init
<1>1. call \in Call /\ call.phase = "none" /\ AttachNamesProcess
  BY NoCallTyped DEF AttachNamesProcess
<1>2. turn \in Turn
  BY DEF Turn
<1>3. /\ target \in [process : Process \cup {NoProcess}, epoch : 0..MaxAttach]
      /\ consent \in [open : BOOLEAN, process : Process \cup {NoProcess}]
  OBVIOUS
<1>4. mode \in {"guided", "off"} /\ used \in 0..WriteLimit /\ unasked \in Nat
  OBVIOUS
<1>5. TypeOK
  BY <1>1, <1>2, <1>3, <1>4 DEF TypeOK, FlowState, ScanState, Mode
<1> QED
  BY <1>1, <1>4, <1>5 DEF IInv, GrantFollowsTarget, Attached, CardOfPresentProcess,
                    ConsentBuysLimit, UnaskedIsCharged

\* Closing the process ends the grant with it.
LEMMA DetachKeeps ==
    ASSUME AuthorityOK, DetachInternal, UNCHANGED watched
    PROVE  /\ AuthorityOK'
           /\ mode' = "autonomous" => mode = "autonomous"
<1> USE ParamAssumption DEF DetachInternal
<1>1. target' \in [process : Process \cup {NoProcess}, epoch : 0..MaxAttach]
  BY DEF AuthorityOK
<1>2. mode' \in Mode \ {"autonomous"}
  BY DEF AuthorityOK, Guided, Mode
<1>3. target'.process = NoProcess
  BY DEF AuthorityOK
<1>4. GrantFollowsTarget'
  BY <1>2, <1>3 DEF GrantFollowsTarget, Attached
<1> QED
  BY <1>1, <1>2, <1>4 DEF AuthorityOK, FlowState, ScanState

\* Opening a process binds the policy to it; a grant does not survive it.
LEMMA AttachKeeps ==
    ASSUME AuthorityOK, NEW p \in Process, AttachTo(p),
           UNCHANGED watched
    PROVE  /\ AuthorityOK'
           /\ mode' = "autonomous" => mode = "autonomous"
<1> USE ParamAssumption DEF AttachTo
<1>1. target' \in [process : Process \cup {NoProcess}, epoch : 0..MaxAttach]
  <2>1. target.epoch + 1 \in 0..MaxAttach
    BY DEF AuthorityOK
  <2> QED
    BY <2>1
<1>2. mode' \in Mode \ {"autonomous"}
  <2>1. mode = "autonomous" => Attached
    BY DEF AuthorityOK, GrantFollowsTarget
  <2> QED
    BY <2>1 DEF AuthorityOK, Guided, Mode
<1>3. target'.process = p /\ bound' = p
  OBVIOUS
<1>4. GrantFollowsTarget'
  BY <1>2, <1>3 DEF GrantFollowsTarget
<1>5. grant' \in Process \cup {NoProcess}
  BY DEF AuthorityOK
<1> QED
  BY <1>1, <1>2, <1>4, <1>5 DEF AuthorityOK, FlowState, ScanState

\* Scans and watches touch neither the target nor the authority.
LEMMA WorldKeeps ==
    ASSUME AuthorityOK, flow' \in FlowState, scan' \in ScanState, watched' \in BOOLEAN,
           UNCHANGED <<target, authority>>
    PROVE  /\ AuthorityOK'
           /\ mode' = "autonomous" => mode = "autonomous"
  BY DEF AuthorityOK, authority, GrantFollowsTarget, Attached

\* A call that is done leaves no card, and its worker goes on.
LEMMA FinishKeeps ==
    ASSUME TypeOK, Finish
    PROVE  call' \in Call /\ turn' \in Turn /\ CardOfPresentProcess' /\ AttachNamesProcess'
<1>1. call' \in Call /\ call'.phase = "none" /\ AttachNamesProcess'
  BY NoCallTyped DEF Finish, AttachNamesProcess
<1>2. turn' \in Turn
  BY DEF Finish, TypeOK, Turn
<1> QED
  BY <1>1, <1>2 DEF CardOfPresentProcess

\* Whatever handler a call runs, the authority stays in order and never grows.
LEMMA ExecuteKeeps ==
    ASSUME IInv, Execute
    PROVE  /\ AuthorityOK'
           /\ mode' = "autonomous" => mode = "autonomous"
           /\ call' \in Call /\ turn' \in Turn
           /\ CardOfPresentProcess' /\ AttachNamesProcess'
<1>1. AuthorityOK
  BY DEF IInv, TypeOK, AuthorityOK
<1>2. /\ call' \in Call /\ turn' \in Turn
      /\ CardOfPresentProcess' /\ AttachNamesProcess'
  BY FinishKeeps DEF IInv, Execute
<1>3. CASE NoEffect
  BY <1>1, <1>2, <1>3, WorldKeeps DEF AuthorityOK, NoEffect, world
<1>4. CASE AgentAttach
  <2>1. call.pid \in Process
    BY <1>4 DEF AgentAttach, IInv, AttachNamesProcess
  <2> QED
    BY <1>1, <1>2, <1>4, <2>1, AttachKeeps DEF AgentAttach
<1>5. CASE AgentDetach
  BY <1>1, <1>2, <1>5, DetachKeeps DEF AgentDetach
<1>6. CASE AgentScan
  BY <1>1, <1>2, <1>6, WorldKeeps DEF AuthorityOK, AgentScan, StartScan, FlowState, ScanState
<1>7. CASE AgentWatch
  BY <1>1, <1>2, <1>7, WorldKeeps DEF AuthorityOK, AgentWatch, ChangeWatches, FlowState
<1> QED
  BY <1>3, <1>4, <1>5, <1>6, <1>7 DEF Execute

\* Steps that touch only the turn, the consent and the card-less call.
LEMMA AgentKeeps ==
    ASSUME IInv, UNCHANGED <<target, mode, bound, grant, used, unasked>>,
           flow' \in FlowState, scan' \in ScanState, watched' \in BOOLEAN,
           provider' \in BOOLEAN, busy' \in BOOLEAN,
           consent' \in [open : BOOLEAN, process : Process \cup {NoProcess}],
           turn' \in Turn, call' \in Call, AttachNamesProcess', CardOfPresentProcess'
    PROVE  IInv'
  BY DEF IInv, TypeOK, GrantFollowsTarget, Attached, ConsentBuysLimit, UnaskedIsCharged

\* Steps of the user and of the controller that move the authority but no quota.
LEMMA AuthorityKeeps ==
    ASSUME IInv, AuthorityOK', mode' = "autonomous" => mode = "autonomous",
           UNCHANGED <<used, provider, consent, busy, unasked>>,
           turn' \in Turn, call' \in Call, AttachNamesProcess', CardOfPresentProcess'
    PROVE  IInv'
  BY DEF IInv, TypeOK, AuthorityOK, ConsentBuysLimit, UnaskedIsCharged

\* Every step keeps it, one case for each operation.
LEMMA NextIInv == IInv /\ [Next]_vars => IInv'
<1> SUFFICES ASSUME IInv, [Next]_vars PROVE IInv'
  OBVIOUS
<1> USE ParamAssumption
<1>a. /\ TypeOK /\ AttachNamesProcess /\ GrantFollowsTarget /\ CardOfPresentProcess
      /\ AuthorityOK
  BY DEF IInv, TypeOK, AuthorityOK
<1>b. UNCHANGED call => call' \in Call /\ AttachNamesProcess'
  BY <1>a DEF TypeOK, AttachNamesProcess
<1>c. UNCHANGED <<call, target>> => CardOfPresentProcess'
  BY <1>a DEF CardOfPresentProcess, Attached
<1>1. CASE UserAttach
  <2>1. PICK p \in Process : AttachTo(p)
    BY <1>1 DEF UserAttach
  <2>2. AuthorityOK' /\ (mode' = "autonomous" => mode = "autonomous")
    BY <1>a, <1>1, <2>1, AttachKeeps DEF UserAttach
  <2>3. /\ call' \in Call /\ turn' \in Turn
        /\ AttachNamesProcess' /\ CardOfPresentProcess'
    <3>1. CASE Finish
      BY <1>a, <3>1, FinishKeeps
    <3>2. CASE UNCHANGED agent /\ (call.phase = "card" => ~Attached)
      <4>1. call.phase = "card" => ~Tools[call.tool].process
        BY <1>a, <3>2 DEF CardOfPresentProcess
      <4> QED
        BY <1>a, <1>b, <3>2, <4>1 DEF agent, TypeOK, CardOfPresentProcess
    <3> QED
      BY <1>1, <3>1, <3>2 DEF UserAttach, RejectCard
  <2> QED
    BY <1>1, <2>2, <2>3, AuthorityKeeps DEF UserAttach
<1>2. CASE ProcessGone
  <2>1. AuthorityOK' /\ (mode' = "autonomous" => mode = "autonomous")
    BY <1>a, <1>2, DetachKeeps DEF ProcessGone
  <2>2. /\ call' \in Call /\ turn' \in Turn
        /\ AttachNamesProcess' /\ CardOfPresentProcess'
    <3>1. CASE Finish
      BY <1>a, <3>1, FinishKeeps
    <3>2. CASE UNCHANGED agent /\ call.phase # "card"
      BY <1>a, <1>b, <3>2 DEF agent, TypeOK, CardOfPresentProcess
    <3> QED
      BY <1>2, <3>1, <3>2 DEF ProcessGone, RejectCard
  <2> QED
    BY <1>2, <2>1, <2>2, AuthorityKeeps DEF ProcessGone
<1>3. CASE UserScan \/ UserResetScan \/ UserWatch \/ ScanCompletes \/ ScanStops
  <2>1. /\ flow' \in FlowState /\ scan' \in ScanState /\ watched' \in BOOLEAN
        /\ UNCHANGED <<target, authority, used, provider, consent, agent, busy, unasked>>
    BY <1>a, <1>3 DEF TypeOK, UserScan, StartScan, UserResetScan, UserWatch, ChangeWatches,
                      ScanCompletes, ScanStops, FlowState, ScanState
  <2> QED
    BY <1>a, <1>b, <1>c, <2>1, AgentKeeps DEF TypeOK, agent, authority
<1>4. CASE ConfigureProvider
  <2>1. mode' \in Mode \ {"autonomous"}
    BY <1>4 DEF ConfigureProvider, Mode
  <2>2. GrantFollowsTarget'
    BY <1>a, <1>4, <2>1 DEF ConfigureProvider, world, GrantFollowsTarget, Attached
  <2> QED
    BY <1>a, <1>b, <1>c, <1>4, <2>1, <2>2
       DEF ConfigureProvider, world, agent, IInv, TypeOK, ConsentBuysLimit, UnaskedIsCharged
<1>5. CASE SetGuidedMode
  <2>1. GrantFollowsTarget'
    BY <1>a, <1>5 DEF SetGuidedMode, world, GrantFollowsTarget, Attached
  <2> QED
    BY <1>a, <1>b, <1>c, <1>5, <2>1
       DEF SetGuidedMode, world, agent, Mode, IInv, TypeOK, ConsentBuysLimit, UnaskedIsCharged
<1>6. CASE OpenConsent \/ RefuseConsent
  <2>1. consent' \in [open : BOOLEAN, process : Process \cup {NoProcess}]
    <3>1. /\ target.process \in Process \cup {NoProcess}
          /\ consent \in [open : BOOLEAN, process : Process \cup {NoProcess}]
      BY <1>a DEF TypeOK
    <3>2. CASE OpenConsent
      BY <3>1, <3>2 DEF OpenConsent
    <3>3. CASE RefuseConsent
      BY <3>1, <3>3 DEF RefuseConsent
    <3> QED
      BY <1>6, <3>2, <3>3
  <2> QED
    BY <1>a, <1>b, <1>c, <1>6, <2>1, AgentKeeps
       DEF OpenConsent, RefuseConsent, world, authority, agent, TypeOK
<1>7. CASE AcceptConsent
  <2>1. consent' \in [open : BOOLEAN, process : Process \cup {NoProcess}]
    BY <1>a, <1>7 DEF AcceptConsent, TypeOK
  <2>2. CASE provider /\ Attached
    <3>1. /\ mode' = "autonomous" /\ bound' = target.process /\ grant' = target.process
          /\ used' = 0 /\ unasked' = 0
          /\ UNCHANGED <<world, provider, agent, busy>>
      BY <1>7, <2>2 DEF AcceptConsent
    <3>2. GrantFollowsTarget' /\ ConsentBuysLimit' /\ UnaskedIsCharged'
      BY <2>2, <3>1 DEF world, GrantFollowsTarget, Attached, ConsentBuysLimit, UnaskedIsCharged
    <3>3. target.process \in Process \cup {NoProcess}
      BY <1>a DEF TypeOK
    <3> QED
      BY <1>a, <1>b, <1>c, <2>1, <3>1, <3>2, <3>3 DEF world, agent, Mode, IInv, TypeOK
  <2>3. CASE ~(provider /\ Attached)
    BY <1>a, <1>b, <1>c, <1>7, <2>1, <2>3, AgentKeeps
       DEF AcceptConsent, world, authority, agent, TypeOK
  <2> QED
    BY <2>2, <2>3
<1>8. CASE Submit \/ Reply \/ FailTurn \/ ThreadEnd \/ OnAnswer
  <2>1. turn' \in Turn
    <3>1. turn \in Turn
      BY <1>a DEF TypeOK
    <3>2. CASE Submit
      BY <3>2, ParamAssumption DEF Submit, Turn
    <3>3. CASE Reply \/ FailTurn
      BY <3>1, <3>3 DEF Reply, FailTurn, EndTurn, Turn
    <3>4. CASE ThreadEnd
      BY <3>1, <3>4 DEF ThreadEnd, Turn
    <3>5. CASE OnAnswer
      BY <3>1, <3>5 DEF OnAnswer, Turn
    <3> QED
      BY <1>8, <3>2, <3>3, <3>4, <3>5
  <2>2. /\ flow' \in FlowState /\ busy' \in BOOLEAN
        /\ UNCHANGED <<target, scan, watched, authority, used, provider, consent, call, unasked>>
    BY <1>a, <1>8 DEF Submit, Reply, FailTurn, ThreadEnd, OnAnswer, TypeOK, world, FlowState
  <2> QED
    BY <1>a, <1>b, <1>c, <2>1, <2>2, AgentKeeps DEF TypeOK, authority
<1>9. CASE CallTool
  <2>1. PICK name \in ToolName :
            \E p \in IF name \in AttachTools THEN Process ELSE {NoProcess} :
                call' = [phase |-> "posted", tool |-> name, pid |-> p, asked |-> 0]
    BY <1>9 DEF CallTool
  <2>2. call' \in Call /\ AttachNamesProcess' /\ CardOfPresentProcess'
    BY <2>1 DEF Call, AttachNamesProcess, CardOfPresentProcess
  <2>3. turn' \in Turn
    <3>1. turn \in Turn
      BY <1>a DEF TypeOK
    <3>2. turn.rounds + 1 \in 0..MaxRounds
      BY <1>9, <3>1, ParamAssumption DEF CallTool, Turn
    <3>3. turn' = [turn EXCEPT !.phase = "calling", !.rounds = turn.rounds + 1]
      BY <1>9 DEF CallTool
    <3> QED
      BY <3>1, <3>2, <3>3 DEF Turn
  <2> QED
    BY <1>a, <1>9, <2>2, <2>3, AgentKeeps DEF CallTool, world, authority, TypeOK
<1>10. CASE Confirm
  BY <1>10, ExecuteKeeps, AuthorityKeeps DEF Confirm
<1>11. CASE Dismiss
  BY <1>a, <1>11, FinishKeeps, AgentKeeps DEF Dismiss, world, authority, TypeOK
<1>12. CASE Refuse
  <2>1. CASE Revoked(call.tool)
    <3>1. FALSE
      BY <1>a, <2>1 DEF Revoked, BoundToTarget, GrantFollowsTarget
    <3> QED
      BY <3>1
  <2>2. CASE ~Revoked(call.tool)
    BY <1>a, <1>12, <2>2, FinishKeeps, AgentKeeps DEF Refuse, world, authority, TypeOK
  <2> QED
    BY <2>1, <2>2
<1>13. CASE ShowCard
  <2>1. call' \in Call
    BY <1>a, <1>13 DEF ShowCard, TypeOK, Call
  <2>2. /\ call'.tool = call.tool /\ call'.pid = call.pid
        /\ call'.asked = target.epoch
    BY <1>a, <1>13 DEF ShowCard, TypeOK, Call
  <2>3. Tools[call.tool].process => Attached
    BY <1>13 DEF ShowCard, Denied
  <2>4. AttachNamesProcess' /\ CardOfPresentProcess'
    BY <1>a, <1>13, <2>2, <2>3
       DEF ShowCard, world, AttachNamesProcess, CardOfPresentProcess, Attached
  <2> QED
    BY <1>a, <1>13, <2>1, <2>4, AgentKeeps DEF ShowCard, world, authority, TypeOK
<1>14. CASE Allow
  <2> DEFINE cost == IF Tools[call.tool].mutating THEN 1 ELSE 0
  <2>1. /\ used' = used + cost /\ unasked' = unasked + cost
        /\ UNCHANGED <<provider, consent, busy>>
    BY <1>14 DEF Allow
  <2>2. /\ AuthorityOK' /\ (mode' = "autonomous" => mode = "autonomous")
        /\ call' \in Call /\ turn' \in Turn
        /\ CardOfPresentProcess' /\ AttachNamesProcess'
    BY <1>14, ExecuteKeeps DEF Allow
  <2>3. Tools[call.tool].mutating => mode = "autonomous" /\ used < WriteLimit
    BY <1>a, <1>14 DEF Allow, Denied, NeedsCard, WithinQuota, TypeOK, Mode
  <2>4. /\ used' \in 0..WriteLimit /\ unasked' \in Nat
        /\ ConsentBuysLimit' /\ UnaskedIsCharged'
    BY <1>a, <2>1, <2>2, <2>3 DEF IInv, TypeOK, ConsentBuysLimit, UnaskedIsCharged
  <2> QED
    BY <1>a, <2>1, <2>2, <2>4 DEF IInv, TypeOK, AuthorityOK
<1>15. CASE UNCHANGED vars
  BY <1>a, <1>b, <1>c, <1>15, AgentKeeps DEF vars, world, authority, agent, TypeOK
<1> QED
  BY <1>1, <1>2, <1>3, <1>4, <1>5, <1>6, <1>7, <1>8, <1>9, <1>10, <1>11, <1>12, <1>13,
     <1>14, <1>15 DEF Next, User, HandleCall, Worker, ScanEnds

-----------------------------------------------------------------------------

\* Hence every behaviour has it throughout.
LEMMA SpecIInv == Spec => []IInv
  BY InitIInv, NextIInv, PTL DEF Spec

\* The variables keep their types, whatever the quota and the processes.
THEOREM TypeCorrect == Spec => []TypeOK
<1>1. IInv => TypeOK
  BY DEF IInv
<1> QED
  BY <1>1, SpecIInv, PTL

\* The bound identity and the grant follow the attached process.
THEOREM GrantNeverStrays == Spec => []GrantFollowsTarget
<1>1. IInv => GrantFollowsTarget
  BY DEF IInv
<1> QED
  BY <1>1, SpecIInv, PTL

\* A card for a call on a process is never on screen under another attachment.
THEOREM CardsArePresent == Spec => []CardOfPresentProcess
<1>1. IInv => CardOfPresentProcess
  BY DEF IInv
<1> QED
  BY <1>1, SpecIInv, PTL

\* The quota bounds the mutations without a card between two consents.
THEOREM QuotaHolds == Spec => []ConsentBuysLimit
<1>1. IInv => ConsentBuysLimit
  BY DEF IInv
<1> QED
  BY <1>1, SpecIInv, PTL

\* The agent can close the attached process but not put another in its place.
THEOREM AgentNeverSwitches == Spec => AgentKeepsProcess
<1>1. IInv /\ [Next]_vars =>
          [(Allow \/ Confirm) /\ Attached
             => target'.process \in {target.process, NoProcess}]_vars
  <2> SUFFICES ASSUME IInv, Execute, Attached
               PROVE  target'.process \in {target.process, NoProcess}
    BY DEF Allow, Confirm
  <2>1. bound = target.process /\ bound # NoProcess
    BY DEF IInv, GrantFollowsTarget, Attached
  <2>2. CASE UNCHANGED target
    BY <2>2
  <2>3. CASE AgentAttach
    BY <2>1, <2>3 DEF AgentAttach, AttachTo
  <2>4. CASE AgentDetach
    BY <2>4 DEF AgentDetach, DetachInternal, IInv, TypeOK
  <2> QED
    BY <2>2, <2>3, <2>4 DEF Execute, NoEffect, world, AgentScan, StartScan, AgentWatch,
                            ChangeWatches
<1> QED
  BY <1>1, SpecIInv, PTL DEF Spec, AgentKeepsProcess
=============================================================================
