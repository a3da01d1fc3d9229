--------------------------- MODULE MCScanResults ---------------------------
(* Two candidates on pages of one, two sessions, one refinement in each. *)
EXTENDS ScanResults

MCAddress == {4, 8}
MCOrders == {<<FALSE, FALSE>>, <<TRUE, TRUE>>}
=============================================================================
