--------------------------- MODULE MCXlinkRegistry ---------------------------
(* Three handlers for two messages, and three cells that are used again.      *)
EXTENDS XlinkRegistry, TLC

CONSTANTS infoA, infoB, start, Info, Start

MCHandlers == {infoA, infoB, start}
MCMessages == {Info, Start}
MCMsgOf == [h \in MCHandlers |-> IF h = start THEN Start ELSE Info]

\* The two handlers of the same message are alike.
MCSymmetry == Permutations({infoA, infoB})
================================================================================
