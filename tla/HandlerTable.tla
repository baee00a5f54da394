----------------------------- MODULE HandlerTable -----------------------------
(***************************************************************************)
(* What xlink_register_msg_handler and xlink_unregister_msg_handler        *)
(* promise: a table of handlers in the order of registration, each once.   *)
(***************************************************************************)
EXTENDS Sequences, SequencesExt

CONSTANT Handlers

VARIABLE table

Init == table = <<>>

Register(h) ==
    /\ h \notin ToSet(table)
    /\ table' = Append(table, h)

Unregister(h) ==
    \E k \in DOMAIN table : table[k] = h /\ table' = RemoveAt(table, k)

\* xlink_context_delete
Clear == table' = <<>>

Next == Clear \/ \E h \in Handlers : Register(h) \/ Unregister(h)

Spec == Init /\ [][Next]_table
================================================================================
