----------------------------- MODULE AuditTrail -----------------------------
(* What an audit log promises a reader: records stand in the order in      *)
(* which they were made, none is changed or taken out, what is forgotten   *)
(* is forgotten from the oldest on, and the newest ones are always there.  *)
EXTENDS Naturals, Sequences

CONSTANTS
    Entries,  \* what can be recorded
    Batch,    \* how many records one operation can make
    Keep      \* how many records are never forgotten

VARIABLE log

Init == log = <<>>

\* The oldest are dropped and up to Batch new ones follow what is left.
Next ==
    \E dropped \in 0..Len(log) :
        LET kept == Len(log) - dropped
        IN  /\ log' \in Seq(Entries)
            /\ Len(log') \in kept..(kept + Batch)
            /\ \A i \in 1..kept : log'[i] = log[dropped + i]
            /\ dropped > 0 => Len(log') >= Keep

Spec == Init /\ [][Next]_log
=============================================================================
