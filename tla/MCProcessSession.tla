-------------------------- MODULE MCProcessSession --------------------------
(* One process number, given to one process after another.                 *)
EXTENDS ProcessSession

MCPids == {1}
MCKinds == {"user", "protected"}
=============================================================================
