------------------------------ MODULE UpgradeHost ------------------------------
(***************************************************************************)
(* The upgrade tool (upgrade.cpp).  The main thread sends a request and    *)
(* polls until the answer was seen or the wait is over; the receive thread *)
(* hands each frame to the handler registered for its message, if there is *)
(* one.  A run of the tool asks for the firmware information of both       *)
(* slots, writes a firmware file to the slot that is not running, writes   *)
(* BOOTFROM, asks for a restart and exits.                                 *)
(***************************************************************************)
EXTENDS UpgradeLink

CONSTANT MaxRuns   \* how often the tool is started

ASSUME RunsAssumption == MaxRuns \in Nat

VARIABLES
    hpc,      \* the answer the main thread waits for; "idle": no tool runs
    himage,   \* the firmware file
    base,     \* app_a_info.current_base_address; None while it is 0
    failed,   \* ret of main after the first query
    target,   \* target_partition
    hpart,    \* the partition that perform_upgrade is sending
    hoff,     \* offset of the chunk that was sent last
    hcrc,     \* crc16
    acked,    \* the handler of the awaited answer saw a good one
    runs      \* runs of the tool so far

hostVars == <<hpc, himage, base, failed, target, hpart, hoff, hcrc, acked, runs>>
session == <<target, hpart, hoff, hcrc>>

HostTypeOK ==
    /\ hpc \in {"idle", "infoA", "infoB", "start", "chunk", "final"}
    /\ himage \in Images \cup {None}
    /\ base \in Slots \cup {None}
    /\ failed \in BOOLEAN
    /\ target \in Slots \cup {None}
    /\ hpart \in Parts \cup {None}
    /\ hoff \in Nat
    /\ hcrc \in Crcs
    /\ acked \in BOOLEAN
    /\ runs \in 0..MaxRuns

HostInit ==
    /\ hpc = "idle" /\ himage = None /\ base = None /\ failed = FALSE
    /\ target = None /\ hpart = None /\ hoff = 0 /\ hcrc = <<>>
    /\ acked = FALSE /\ runs = 0

--------------------------------------------------------------------------------
\* main up to the first get_mcu_firmware_version.
RunTool(v) ==
    /\ hpc = "idle" /\ runs < MaxRuns
    /\ runs' = runs + 1
    /\ himage' = v
    /\ hpc' = "infoA"
    /\ Request(GetInfo("A"))
    /\ UNCHANGED <<base, failed, session, acked, toHost>>

\* main returns: the context and its memory are gone.
ToolExits ==
    /\ hpc' = "idle" /\ himage' = None /\ base' = None /\ failed' = FALSE
    /\ target' = None /\ hpart' = None /\ hoff' = 0 /\ hcrc' = <<>>
    /\ acked' = FALSE
    /\ UNCHANGED runs

--------------------------------------------------------------------------------
\* The receive thread.  A refusal is printed and leaves the main thread
\* waiting; an answer nobody has registered for is dropped.
AcceptsRefusal(m) ==   \* as if "accepted" and "success" were not looked at
    \/ m.type = "Info" /\ hpc \in {"infoA", "infoB"}
    \/ m.type = "Started" /\ hpc = "start"
    \/ m.type = "Chunked" /\ hpc = "chunk"
    \/ m.type = "Finalized" /\ hpc = "final"

Accepts(m) ==
    \/ m.type = "Info" /\ hpc \in {"infoA", "infoB"}
    \/ m.type = "Started" /\ hpc = "start"
    \/ m.type = "Chunked" /\ hpc = "chunk" /\ m.ok
    \/ m.type = "Finalized" /\ hpc = "final" /\ m.ok

ReceiveReply ==
    /\ toHost # <<>>
    /\ LET m == Head(toHost)
       IN  /\ acked' = (acked \/ Accepts(m))
           /\ base' = IF hpc = "infoA" /\ Accepts(m) THEN m.base ELSE base
    /\ toHost' = Tail(toHost)
    /\ UNCHANGED <<hpc, himage, failed, session, runs, toDev>>

--------------------------------------------------------------------------------
\* The main thread.  Both queries are made even if the first one failed.
QuerySlotB(ok) ==
    /\ hpc' = "infoB"
    /\ failed' = ~ok
    /\ acked' = FALSE
    /\ Request(GetInfo("B"))
    /\ UNCHANGED <<himage, base, session, runs, toHost>>

InfoADone == hpc = "infoA" /\ acked /\ QuerySlotB(TRUE)

\* send_start_upgrade
StartPartition(p) ==
    /\ hpc' = "start"
    /\ hpart' = p
    /\ hoff' = 0
    /\ hcrc' = <<>>
    /\ acked' = FALSE
    /\ Request(Start(p))
    /\ UNCHANGED <<himage, base, failed, runs, toHost>>

PickTargetRunning(runningBase) == IF runningBase = "A" THEN "A" ELSE "B"
PickTarget(runningBase) == IF runningBase = "A" THEN "B" ELSE "A"

\* As if the second query's result replaced the first one's.
InfoBDoneForgets ==
    /\ hpc = "infoB" /\ acked
    /\ target' = PickTarget(base)
    /\ StartPartition(target')

InfoBDone ==
    /\ hpc = "infoB" /\ acked /\ ~failed
    /\ target' = PickTarget(base)
    /\ StartPartition(target')

GiveUpAfterInfo ==
    /\ hpc = "infoB" /\ acked /\ failed
    /\ ToolExits
    /\ UNCHANGED linkVars

Payload == IF hpart = "BOOT" THEN target ELSE himage

\* send_firmware_chunk
SendChunk(k) ==
    /\ hpc' = "chunk"
    /\ hoff' = k
    /\ acked' = FALSE
    /\ Request(Chunk(hpart, k, Payload))
    /\ UNCHANGED <<himage, base, failed, target, hpart, runs, toHost>>

StartDone ==
    /\ hpc = "start" /\ acked
    /\ SendChunk(0)
    /\ UNCHANGED hcrc

\* As if the loop ended one chunk early.
ChunkDoneEarly ==
    /\ hpc = "chunk" /\ acked
    /\ hcrc' = Append(hcrc, <<Payload, hoff>>)
    /\ IF hoff + 2 \in Offsets(hpart)
       THEN SendChunk(hoff + 1)
       ELSE /\ hpc' = "final"
            /\ acked' = FALSE
            /\ Request(Finalize(hcrc'))
            /\ UNCHANGED <<himage, base, failed, target, hpart, hoff, runs, toHost>>

ChunkDone ==
    /\ hpc = "chunk" /\ acked
    /\ hcrc' = Append(hcrc, <<Payload, hoff>>)
    /\ IF hoff + 1 \in Offsets(hpart)
       THEN SendChunk(hoff + 1)
       ELSE \* send_finalize_upgrade
            /\ hpc' = "final"
            /\ acked' = FALSE
            /\ Request(Finalize(hcrc'))
            /\ UNCHANGED <<himage, base, failed, target, hpart, hoff, runs, toHost>>

SlotDone ==
    /\ hpc = "final" /\ acked /\ hpart # "BOOT"
    /\ StartPartition("BOOT")
    /\ UNCHANGED target

\* The restart request is queued and tcflush(TCIOFLUSH) follows at once: what
\* has not left the host's buffer by then is discarded.
BootFromDone ==
    /\ hpc = "final" /\ acked /\ hpart = "BOOT"
    /\ \/ Request(Restart)
       \/ UNCHANGED toDev
    /\ ToolExits
    /\ UNCHANGED toHost

\* As if the wait of send_finalize_upgrade had no end.
TimedOutNotFinal ==
    /\ hpc \notin {"idle", "final"} /\ ~acked
    /\ IF hpc = "infoA"
       THEN QuerySlotB(FALSE)
       ELSE ToolExits /\ UNCHANGED linkVars

\* wait_time ran out.
TimedOut ==
    /\ hpc # "idle" /\ ~acked
    /\ IF hpc = "infoA"
       THEN QuerySlotB(FALSE)
       ELSE ToolExits /\ UNCHANGED linkVars

\* _close, on SIGINT, or the end of a run with --show.
Interrupt ==
    /\ hpc # "idle"
    /\ ToolExits
    /\ UNCHANGED linkVars

HostStep ==
    \/ ReceiveReply
    \/ InfoADone \/ InfoBDone \/ GiveUpAfterInfo
    \/ StartDone \/ ChunkDone \/ SlotDone \/ BootFromDone
================================================================================
