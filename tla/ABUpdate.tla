-------------------------------- MODULE ABUpdate --------------------------------
(***************************************************************************)
(* What A/B updating promises, without messages, pages or words: one slot  *)
(* is rewritten while the other keeps a good build, the boot preference    *)
(* moves only to a slot that was written completely, and only a good build *)
(* is started.                                                             *)
(***************************************************************************)
CONSTANTS Images, GoodImages

VARIABLES
    slot,      \* the firmware that a slot holds, or Partial
    prefer,    \* the slot the bootloader tries first
    running    \* the slot whose code runs, or None

vars == <<slot, prefer, running>>

Slots == {"A", "B"}
Other(s) == IF s = "A" THEN "B" ELSE "A"
Partial == "partial"
None == "none"

Good(s) == slot[s] \in GoodImages

Init ==
    /\ \E v \in GoodImages : slot = [s \in Slots |-> v]
    /\ prefer = "A"
    /\ running = None

\* The device may stop, by a power failure or a restart, in any step.
MayStop == running' \in {running, None}

Damage(s) ==
    /\ Good(Other(s))
    /\ slot' = [slot EXCEPT ![s] = Partial]
    /\ MayStop
    /\ UNCHANGED prefer

Store(s) ==
    /\ slot[s] = Partial
    /\ \E v \in Images : slot' = [slot EXCEPT ![s] = v]
    /\ UNCHANGED <<prefer, running>>

Prefer(s) ==
    /\ slot[s] # Partial
    /\ prefer' = s
    /\ MayStop
    /\ UNCHANGED slot

Stop == running' = None /\ UNCHANGED <<slot, prefer>>

Boot(s) ==
    /\ running = None
    /\ Good(s)
    /\ prefer = s \/ ~Good(Other(s))
    /\ running' = s
    /\ UNCHANGED <<slot, prefer>>

Next == Stop \/ \E s \in Slots : Damage(s) \/ Store(s) \/ Prefer(s) \/ Boot(s)

Spec == Init /\ [][Next]_vars
================================================================================
