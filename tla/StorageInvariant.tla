--------------------------- MODULE StorageInvariant ---------------------------
(***************************************************************************)
(* The inductive invariants behind the theorems of StorageProofs and       *)
(* RefinementProofs.  SInv, which gives AcceptedIsStored and               *)
(* CommitAfterStore, follows one partition from                            *)
(* StartFirmwareUpgrade to FinalizeFirmwareUpgrade on both sides of the    *)
(* line; RInv says when BOOTFROM may be rewritten; FirstRunInv says what   *)
(* the first update of a factory device touches, and when.  All are        *)
(* about a flash that does not fail and a tool that is not started again   *)
(* while an older request is waiting.                                      *)
(***************************************************************************)
EXTENDS UpgradeInvariant

Writing == hpc \in {"start", "chunk", "final"}

\* The request that the tool sent last.
Awaited ==
    CASE hpc = "infoA" -> GetInfo("A")
      [] hpc = "infoB" -> GetInfo("B")
      [] hpc = "start" -> Start(hpart)
      [] hpc = "chunk" -> Chunk(hpart, hoff, Payload)
      [] hpc = "final" -> Finalize(hcrc)

\* Only the first query can have failed without ending the run, and the
\* partition is forgotten when the run ends.
RunIsRegular ==
    /\ failed => hpc = "infoB"
    /\ hpart # None => Writing

\* There is one request at a time: it waits on the device, or its answer is on
\* the line, or the tool has seen the answer, or it is lost.  (What is sent to a
\* device that does not run is never read.)
OneOutstanding ==
    hpc # "idle" /\ ~failed =>
        /\ mode = "run" /\ toDev # <<>> => toDev = <<Awaited>> /\ toHost = <<>> /\ ~acked
        /\ toHost # <<>> => toHost = <<Head(toHost)>> /\ ~acked

\* check_crc32 after the first n chunks of w, and the CRC that the tool has
\* computed when it sends a chunk or the request to finalize.
CrcUpTo(w, n) == [i \in 1..n |-> <<w, i - 1>>]

ToolCountsChunks ==
    /\ hpc = "start" => hcrc = <<>>
    /\ hpc = "chunk" => hoff \in Offsets(hpart) /\ hcrc = CrcUpTo(Payload, hoff)
    /\ hpc = "final" =>
        /\ hoff \in Offsets(hpart) /\ hoff + 1 \notin Offsets(hpart)
        /\ hcrc = CrcUpTo(Payload, hoff + 1)

--------------------------------------------------------------------------------
\* The first n words of partition p are those of w, the others are erased.
Prefix(f, p, w, n) ==
    \A c \in Cells(p) : f[p][c] = IF c <= n THEN WordOf(w, c) ELSE Erased

\* A device that was reset has no session and no CRC of chunks; any other has
\* stored n chunks of what the tool sends, and maybe a part of the next one.
WasReset == sess = None /\ crc = BootCrc

Stored(n) ==
    /\ sess = hpart
    /\ crc = CrcUpTo(Payload, n)
    /\ Prefix(flash, hpart, Payload, IF op = "program" THEN at - 1 ELSE n * ChunkCells)

\* The tool has seen a good answer, or will see it.
Answered == acked \/ (toHost # <<>> /\ Accepts(Head(toHost)))

\* The first pages of the partition are erased.
EraseInv ==
    hpc = "start" /\ mode = "run" /\ op = "erase" =>
        /\ sess = hpart /\ crc = <<>>
        /\ at \in 1..Pages(hpart)
        /\ \A c \in Cells(hpart) : c <= (at - 1) * PageCells => flash[hpart][c] = Erased

\* A chunk is programmed word by word.
ProgramInv ==
    hpc = "chunk" /\ mode = "run" /\ op = "program" =>
        /\ sess = hpart
        /\ at \in (hoff * ChunkCells + 1)..(hoff * ChunkCells + ChunkLen(hpart, hoff))

\* What the device has stored when the request waits, and when it is answered.
Progress ==
    /\ mode = "off" => crc = BootCrc
    /\ hpc = "start" /\ mode = "run" =>
        (Answered => WasReset \/ Stored(0))
    /\ hpc = "chunk" /\ mode = "run" =>
        /\ toDev # <<>> => WasReset \/ Stored(hoff)
        /\ Answered => WasReset \/ Stored(hoff + 1)
    /\ hpc = "final" /\ mode = "run" =>
        (toDev # <<>> => WasReset \/ Stored(hoff + 1))
    /\ hpc = "final" /\ Answered => Holds(flash, hpart, Payload)

SInv ==
    /\ RunIsRegular
    /\ OneOutstanding
    /\ ToolCountsChunks
    /\ EraseInv
    /\ ProgramInv
    /\ Progress
    /\ CommitAfterStore

--------------------------------------------------------------------------------
\* Both slots hold a whole file, good or bad.
BothWhole == \A s \in Slots : \E v \in Images : Holds(flash, s, v)

\* The device has at most one request, or only queries.
ShortQueue == mode = "run" => Len(toDev) <= 1 \/ \A m \in Range(toDev) : m.type = "GetInfo"

\* The partition that is being erased is the one of the request.
EraseIsRequested == op = "erase" => Head(toDev).part = sess

\* BOOTFROM is written, or about to be, only while both slots are whole.
BootFromIsLast ==
    mode = "run" /\ (sess = "BOOT" \/ Start("BOOT") \in Range(toDev)) => BothWhole

BootFromInv == ShortQueue /\ EraseIsRequested /\ BootFromIsLast

RInv == IInv /\ SInv /\ BootFromInv

--------------------------------------------------------------------------------
(* During the first run of the tool.                                        *)

\* APP_A stays as it left the factory, and the tool was told that it runs.
FactorySlotStays ==
    /\ Intact(flash, "A")
    /\ base \in {None, "A"} /\ target \in {None, "B"}
    /\ hpc = "infoA" => \A m \in Range(toHost) : m.base = "A"
    /\ mode = "run" => sess # "A" /\ Start("A") \notin Range(toDev)

\* APP_B is written only while APP_A runs and is preferred.
WrittenWhileSpare ==
    mode = "run" /\ (sess = "B" \/ Start("B") \in Range(toDev)) =>
        running = "A" /\ FirstChoice(flash) = "A"

\* Until the tool turns to BOOTFROM, APP_A is what boots.
FactoryBoots ==
    runs = 0 \/ (hpc # "idle" /\ hpart # "BOOT") =>
        /\ FirstChoice(flash) = "A"
        /\ mode = "run" => running = "A" /\ sess # "BOOT" /\ Start("BOOT") \notin Range(toDev)

FirstRunInv ==
    runs <= 1 =>
        /\ runs = 0 => hpc = "idle"
        /\ mode \in {"off", "run"}
        /\ FactorySlotStays
        /\ WrittenWhileSpare
        /\ FactoryBoots
        /\ FirstChoice(flash) = "B" => \E v \in Images : Holds(flash, "B", v)
================================================================================
