--------------------------- MODULE UpgradeInvariant ---------------------------
(***************************************************************************)
(* The inductive invariants behind the theorems of UpgradeProofs.  TInv    *)
(* holds of every system; IInv, which gives SomeSlotIntact and             *)
(* RunsGoodCode, of a tool that is not started again while an older        *)
(* request is waiting, on a flash that does not fail or fails as FaultSpec *)
(* says.                                                                   *)
(***************************************************************************)
EXTENDS UpgradeSystem, Functions

\* A handler in the middle of its work has its request at the head of toDev,
\* and the session that the request opened or belongs to.
HandlerHasRequest ==
    op # "idle" =>
        /\ toDev # <<>>
        /\ sess \in Parts
        /\ Head(toDev).type = (IF op = "erase" THEN "Start" ELSE "Chunk")

\* A reset clears the session, and only a slot runs.
ResetClears ==
    /\ mode = "off" => sess = None /\ op = "idle"
    /\ mode = "run" => running \in Slots

\* The main thread of the tool knows what it writes and where.
ToolKnowsWhat ==
    /\ hpc # "idle" => himage \in Images
    /\ hpc \in {"start", "chunk", "final"} => target \in Slots /\ hpart \in {target, "BOOT"}

TInv == TypeOK /\ HandlerHasRequest /\ ResetClears /\ ToolKnowsWhat

--------------------------------------------------------------------------------
\* A session in the running slot is still erasing it, and will never end.
OwnSessionErases == mode = "run" /\ sess = running => op = "erase"

\* Nothing of an earlier run is left in the tool.
ToolStartsAfresh == hpc = "idle" => base = None /\ ~acked

\* While the tool only asks, the device has nothing else to do, and what it
\* was told, or is about to be told, is a slot that holds a good build.
AskingIsHarmless ==
    hpc \in {"infoA", "infoB"} =>
        /\ mode = "run" => op = "idle" /\ \A m \in Range(toDev) : m.type = "GetInfo"
        /\ \A m \in Range(toHost) : m.type = "Info"
        /\ hpc = "infoA" => \A m \in Range(toHost) : Intact(flash, m.base)
        /\ hpc = "infoA" /\ acked => base # None
        /\ hpc = "infoB" /\ ~failed => base # None
        /\ base # None => Intact(flash, base)

\* Whatever the device still has to do leaves the slot other than t alone,
\* and that slot holds a good build.
Confined(t) ==
    /\ Intact(flash, Other(t))
    /\ mode = "run" =>
        /\ \A m \in Range(toDev) :
            /\ m.type = "Start" => m.part # Other(t)
            /\ m.type = "Chunk" => sess # Other(t)
        /\ op # "idle" => sess # Other(t)

\* While the tool writes, the slot to be spared is the one that is not its
\* target; an older session there is over before the first chunk is sent.
WritingIsConfined ==
    hpc \in {"start", "chunk", "final"} =>
        /\ Confined(target)
        /\ mode = "run" /\ sess = Other(target) =>
            hpc = "start" /\ ~acked /\ (\A m \in Range(toHost) : m.type # "Started")

IInv ==
    /\ TInv
    /\ OwnSessionErases
    /\ RunsGoodCode
    /\ ToolStartsAfresh
    /\ AskingIsHarmless
    /\ WritingIsConfined
    /\ \E t \in Slots : Confined(t)
================================================================================
