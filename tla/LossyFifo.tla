------------------------------ MODULE LossyFifo ------------------------------
(***************************************************************************)
(* What the UART driver promises in each direction: a queue that may lose  *)
(* items, but neither reorders them, nor repeats them, nor makes them up.  *)
(* Items are numbered as they are put.                                     *)
(***************************************************************************)
EXTENDS Integers, Sequences

VARIABLES
    put,     \* items put so far
    queue,   \* items inside
    got      \* items taken out

vars == <<put, queue, got>>

Init == put = 0 /\ queue = <<>> /\ got = <<>>

\* s is t without some of its items, of which no two are the same.
Kept(s, t) ==
    \A i, j \in DOMAIN s :
        i <= j => \E k, m \in DOMAIN t : s[i] = t[k] /\ s[j] = t[m] /\ (i < j => k < m)

\* Putting an item may cost others, or the item itself.
Put ==
    /\ put' = put + 1
    /\ Kept(queue', Append(queue, put'))
    /\ UNCHANGED got

Lose ==
    /\ Kept(queue', queue)
    /\ UNCHANGED <<put, got>>

Get ==
    /\ \E n \in 1..Len(queue) :
        /\ got' = got \o SubSeq(queue, 1, n)
        /\ queue' = SubSeq(queue, n + 1, Len(queue))
    /\ UNCHANGED put

Next == Put \/ Lose \/ Get

Spec == Init /\ [][Next]_vars
================================================================================
