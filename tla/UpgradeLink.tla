------------------------------ MODULE UpgradeLink ------------------------------
(***************************************************************************)
(* The serial line between the upgrade tool (upgrade.cpp) and the          *)
(* application on the device (src/upgrade.c), and the messages of          *)
(* xlink_messagedef/upgrade.json.  A channel carries frames in order; a    *)
(* frame that arrives passed its CRC, a damaged one is lost.               *)
(***************************************************************************)
EXTENDS Partition, Sequences

VARIABLES
    toDev,   \* frames for the device; its head stays until its handler returns
    toHost   \* frames for the tool

linkVars == <<toDev, toHost>>

(***************************************************************************)
(* check_crc32 (device) and crc16 (tool) are the CRC-16 of the chunk data  *)
(* in the order it was received or acknowledged.  The sequence of the      *)
(* chunks stands for it: two sequences are told apart, collisions of the   *)
(* 16-bit CRC are left out.  BootCrc is the 0 of a device that was reset,  *)
(* which is no CRC of chunks (XLINK_INIT_CRC16 is 0xFFFF).                 *)
(***************************************************************************)
Crcs == Seq((Payloads \cup {None}) \X Nat)
BootCrc == <<<<None, 0>>>>

GetInfo(s) == [type |-> "GetInfo", part |-> s]
Start(p) == [type |-> "Start", part |-> p]
Chunk(p, k, w) == [type |-> "Chunk", offset |-> k, len |-> ChunkLen(p, k), data |-> w]
Finalize(c) == [type |-> "Finalize", crc |-> c]
Restart == [type |-> "Restart"]

Requests ==
    [type : {"GetInfo"}, part : Slots]
        \cup [type : {"Start"}, part : Parts]
        \cup [type : {"Chunk"}, offset : Nat, len : Nat \ {0}, data : Payloads]
        \cup [type : {"Finalize"}, crc : Crcs]
        \cup [type : {"Restart"}]

\* Info carries current_base_address, the vector table of the code that runs.
Info(s) == [type |-> "Info", base |-> s]
Started == [type |-> "Started"]
Chunked(ok) == [type |-> "Chunked", ok |-> ok]
Finalized(ok) == [type |-> "Finalized", ok |-> ok]

Replies ==
    [type : {"Info"}, base : Slots]
        \cup [type : {"Started"}]
        \cup [type : {"Chunked"}, ok : BOOLEAN]
        \cup [type : {"Finalized"}, ok : BOOLEAN]

LinkInit == toDev = <<>> /\ toHost = <<>>
LinkTypeOK == toDev \in Seq(Requests) /\ toHost \in Seq(Replies)

Request(m) == toDev' = Append(toDev, m)
Reply(m) == toHost' = Append(toHost, m)

\* A frame is lost: damaged on the line, dropped by a full receive pool, or
\* never sent because the transmit pool was empty.
LoseRequest ==
    /\ toDev # <<>>
    /\ toDev' = Tail(toDev)
    /\ UNCHANGED toHost

LoseReply ==
    /\ toHost # <<>>
    /\ toHost' = Tail(toHost)
    /\ UNCHANGED toDev
================================================================================
