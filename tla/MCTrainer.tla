----------------------------- MODULE MCTrainer -----------------------------
(* Two cells, one of them the module's wherever it is loaded; one trick.   *)
EXTENDS Trainer

MCAddress == {1, 2}
MCBase == {1, 2}
MCSpecs == {[mode |-> "absolute", at |-> 2],
            [mode |-> "pointer_chain", at |-> 0]}
MCDrafts == {[mode |-> "freeze", enabled |-> 1, disabled |-> NoValue],
             [mode |-> "write_pair", enabled |-> 1, disabled |-> 0]}
=============================================================================
