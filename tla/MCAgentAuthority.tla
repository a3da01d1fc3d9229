-------------------------- MODULE MCAgentAuthority --------------------------
(* Two processes; the quota and the bounds are given in the cfgs. *)
EXTENDS AgentAuthority

CONSTANTS p1, p2

MCProcess == {p1, p2}
=============================================================================
