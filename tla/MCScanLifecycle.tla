-------------------------- MODULE MCScanLifecycle --------------------------
(* Model-checking instance of ScanLifecycle: the bounds are given in the cfgs. *)
EXTENDS ScanLifecycle
=============================================================================
