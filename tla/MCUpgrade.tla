------------------------------- MODULE MCUpgrade -------------------------------
(* A device of two application slots of two pages, three firmware files.    *)
EXTENDS StorageInvariant

CONSTANTS v0, v1, bad

MCImages == {v0, v1, bad}
MCGoodImages == {v0, v1}
================================================================================
