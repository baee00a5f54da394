----------------------------- MODULE UpgradeDevice -----------------------------
(***************************************************************************)
(* The device: the bootloader (src/boot_loader_main.c), the upgrade        *)
(* service of the application (src/upgrade.c) and the flash driver under   *)
(* it (src/onchip_flash_port.c).  xlinkTask runs one handler at a time, to *)
(* its end; a handler that erases or programs takes one step per page or   *)
(* word, because the power may fail between two of them.                   *)
(***************************************************************************)
EXTENDS UpgradeLink

CONSTANT FlashFaults   \* may an erase or a program operation of the FMC fail?

VARIABLES
    flash,     \* content of the partitions
    mode,      \* "off", "run", "hung" (its code was erased), "dead" (no boot)
    running,   \* the slot whose code runs
    sess,      \* partition of start_address and size_bytes; None when they are 0
    crc,       \* check_crc32
    op,        \* what the handler of Head(toDev) is in the middle of
    at         \* next page to erase or next word to program

deviceVars == <<flash, mode, running, sess, crc, op, at>>

DeviceTypeOK ==
    /\ flash \in FlashType
    /\ mode \in {"off", "run", "hung", "dead"}
    /\ running \in Slots \cup {None}
    /\ sess \in Parts \cup {None}
    /\ crc \in Crcs
    /\ op \in {"idle", "erase", "program"}
    /\ at \in Nat

\* app_padding puts one build in both slots and APP_A in BOOTFROM.
FactoryFlash(v) ==
    [p \in Parts |-> [c \in Cells("A") |->
        IF c \in Cells(p) THEN WordOf(IF p = "BOOT" THEN "A" ELSE v, c) ELSE Erased]]

\* What the C start-up code leaves in the RAM of upgrade.c.
ResetRam ==
    /\ sess' = None
    /\ crc' = BootCrc
    /\ op' = "idle"
    /\ at' = 0

PowerOff == mode' = "off" /\ running' = None /\ toDev' = <<>>

DeviceInit ==
    /\ \E v \in GoodImages : flash = FactoryFlash(v)
    /\ mode = "off"
    /\ running = None
    /\ sess = None
    /\ crc = BootCrc
    /\ op = "idle"
    /\ at = 0

--------------------------------------------------------------------------------
\* The bootloader: reset to the first instruction of a slot, or to nowhere.
\* Bytes that arrived before the UART was set up are gone.
Boot ==
    /\ mode = "off"
    /\ running' = BootOutcome(flash)
    /\ mode' = IF running' = None THEN "dead" ELSE "run"
    /\ toDev' = <<>>
    /\ UNCHANGED <<flash, sess, crc, op, at, toHost>>

--------------------------------------------------------------------------------
\* The handlers of upgrade.c.
Handling(type) ==
    /\ mode = "run"
    /\ op = "idle"
    /\ toDev # <<>>
    /\ Head(toDev).type = type

HandlerReturns == toDev' = Tail(toDev)

\* As if the base address were that of the session.
GetFirmwareInfoOfSession ==
    /\ Handling("GetInfo")
    /\ Reply(Info(sess))
    /\ HandlerReturns
    /\ UNCHANGED deviceVars

GetFirmwareInfo ==
    /\ Handling("GetInfo")
    /\ Reply(Info(running))
    /\ HandlerReturns
    /\ UNCHANGED deviceVars

StartFirmwareUpgrade ==
    /\ Handling("Start")
    /\ sess' = Head(toDev).part
    /\ crc' = <<>>
    /\ op' = "erase"
    /\ at' = 1
    /\ UNCHANGED <<flash, mode, running, toDev, toHost>>

\* A chunk that ends past the session's end is refused; every chunk is when
\* there is no session, because size_bytes is 0.
FirmwareChunk ==
    /\ Handling("Chunk")
    /\ LET m == Head(toDev)
           first == m.offset * ChunkCells + 1
           fits == sess # None /\ first + m.len - 1 <= PageCells * Pages(sess)
       IN  \/ /\ fits
              /\ op' = "program"
              /\ at' = first
              /\ UNCHANGED <<toDev, toHost>>
           \/ /\ ~fits
              /\ Reply(Chunked(FALSE))
              /\ HandlerReturns
              /\ UNCHANGED <<op, at>>
    /\ UNCHANGED <<flash, mode, running, sess, crc>>

FinalizeFirmwareUpgrade ==
    /\ Handling("Finalize")
    /\ Reply(Finalized(Head(toDev).crc = crc))
    /\ HandlerReturns
    /\ UNCHANGED deviceVars

RestartDevice ==
    /\ Handling("Restart")
    /\ PowerOff
    /\ ResetRam
    /\ UNCHANGED <<flash, toHost>>

--------------------------------------------------------------------------------
\* fmc_erase_pages, called by StartFirmwareUpgrade, which then accepts
\* whatever came of it.
Wiped(f, p, cells) == [f EXCEPT ![p] = [c \in DOMAIN @ |-> IF c \in cells THEN Erased ELSE @[c]]]

EraseReturns ==
    /\ op' = "idle"
    /\ at' = 0
    /\ Reply(Started)
    /\ HandlerReturns

ErasePage ==
    /\ mode = "run" /\ op = "erase"
    /\ sess = running => at < SlotPages
    /\ flash' = Wiped(flash, sess, PageOf(at))
    /\ IF at < Pages(sess)
       THEN at' = at + 1 /\ UNCHANGED <<op, toDev, toHost>>
       ELSE EraseReturns
    /\ UNCHANGED <<mode, running, sess, crc>>

\* Nothing checks that the session is not the running slot: the erase loop
\* erases the code that runs it.  It may survive some pages, not all of them.
EraseOwnCode ==
    /\ mode = "run" /\ op = "erase"
    /\ sess = running /\ at > InfoPages
    /\ flash' = Wiped(flash, sess, PageOf(at))
    /\ mode' = "hung"
    /\ UNCHANGED <<running, sess, crc, op, at, toDev, toHost>>

\* fmc_page_erase reports an error: the loop breaks, nobody is told.
EraseFault ==
    /\ FlashFaults
    /\ mode = "run" /\ op = "erase"
    /\ EraseReturns
    /\ UNCHANGED <<flash, mode, running, sess, crc>>

--------------------------------------------------------------------------------
\* fmc_program_data, called by FirmwareChunk.  A word that is not erased
\* keeps its value, and so does one whose programming fails: the result of
\* fmc_word_program is not looked at.
Programmed(f, p, c, word) ==
    IF f[p][c] = Erased THEN [f EXCEPT ![p][c] = word] ELSE f

ProgramWord ==
    /\ mode = "run" /\ op = "program"
    /\ LET m == Head(toDev)
           last == (m.offset * ChunkCells) + m.len
       IN  /\ \/ flash' = Programmed(flash, sess, at, WordOf(m.data, at))
              \/ FlashFaults /\ UNCHANGED flash
           /\ IF at < last
              THEN at' = at + 1 /\ UNCHANGED <<crc, op, toDev, toHost>>
              ELSE /\ crc' = Append(crc, <<m.data, m.offset>>)
                   /\ op' = "idle"
                   /\ at' = 0
                   /\ Reply(Chunked(TRUE))
                   /\ HandlerReturns
    /\ UNCHANGED <<mode, running, sess>>

--------------------------------------------------------------------------------
\* The power fails, or an operator cycles it.  A page that was being erased
\* may keep any of its words.
PowerLoss ==
    /\ mode # "off"
    /\ \/ UNCHANGED flash
       \/ /\ mode = "run" /\ op = "erase"
          /\ \E cells \in SUBSET PageOf(at) : flash' = Wiped(flash, sess, cells)
    /\ PowerOff
    /\ ResetRam
    /\ UNCHANGED toHost

DeviceStep ==
    \/ Boot
    \/ GetFirmwareInfo \/ StartFirmwareUpgrade \/ FirmwareChunk
    \/ FinalizeFirmwareUpgrade \/ RestartDevice
    \/ ErasePage \/ EraseOwnCode \/ EraseFault \/ ProgramWord
================================================================================
