------------------------------- MODULE Partition -------------------------------
(***************************************************************************)
(* The flash layout of inc/partition.h and what the bootloader reads of    *)
(* it: check_app_valid, jump_to_app and main of src/boot_loader_main.c.    *)
(*                                                                         *)
(* A cell stands for a 32-bit word of flash.  The two application slots    *)
(* (APP_x_INFO followed by APP_x, which the upgrade tool writes as one     *)
(* partition) and the BOOTFROM record are kept; the bootloader and PARAMS  *)
(* partitions are never written by the system.  A firmware image is one    *)
(* value: a cell holding v holds the word that image v has at that place,  *)
(* so a slot is intact when all of its cells hold the same good image, and *)
(* the CRC of the code tells an intact slot from any other.                *)
(***************************************************************************)
EXTENDS Integers

CONSTANTS
    SlotPages,   \* flash pages of APP_x_INFO and APP_x together
    InfoPages,   \* how many of them are APP_x_INFO
    BootPages,   \* flash pages of BOOTFROM
    PageCells,   \* words in a flash page
    ChunkCells,  \* words in the data of a FirmwareChunk message
    Images,      \* firmware files, each with a complete AppInfo page
    GoodImages   \* those whose code matches the checksum in their AppInfo

Slots == {"A", "B"}
Parts == Slots \cup {"BOOT"}
Erased == "erased"    \* 0xFFFFFFFF
Magic == "magic"      \* PARTITION_MAGIC_NUMBER in BootFromInfo
None == "none"

ASSUME LayoutAssumption ==
    /\ SlotPages \in Nat /\ InfoPages \in Nat /\ BootPages \in Nat
    /\ PageCells \in Nat /\ ChunkCells \in Nat \ {0}
    /\ 1 <= InfoPages /\ InfoPages < SlotPages
    /\ 1 <= BootPages /\ BootPages <= SlotPages
    /\ 2 <= PageCells      \* AppInfo and BootFromInfo fit in a page

ASSUME ImageAssumption ==
    /\ GoodImages \subseteq Images
    /\ GoodImages # {}
    /\ Images \cap (Parts \cup {Erased, Magic, None}) = {}

Other(s) == IF s = "A" THEN "B" ELSE "A"

Pages(p) == IF p \in Slots THEN SlotPages ELSE BootPages
Cells(p) == 1..(PageCells * Pages(p))
PageOf(n) == ((n - 1) * PageCells + 1)..(n * PageCells)   \* n = 1, 2, ...

\* The offsets of the FirmwareChunk messages that carry a partition, and how
\* many words the one at an offset carries.
Offsets(p) == {k \in 0..(PageCells * Pages(p)) : k * ChunkCells < PageCells * Pages(p)}
ChunkLenUnclamped(p, k) == ChunkCells   \* as if the last chunk were not cut
ChunkLen(p, k) ==
    LET left == PageCells * Pages(p) - k * ChunkCells
    IN  IF left > ChunkCells THEN ChunkCells ELSE left

MagicCell == 1   \* magicNumber, the first word of AppInfo and of BootFromInfo
SizeCell == 2    \* AppInfo.size_bytes
ActiveCell == 2  \* BootFromInfo.activeApp

\* What the tool sends for a partition: a firmware file for a slot, the slot
\* to boot from for BOOTFROM.
Payloads == Images \cup Slots
Words == Payloads \cup {Magic, Erased}

\* The word that payload w puts in cell c; BOOTFROM is padded with 0xFF.
WordOf(w, c) ==
    IF w \in Images THEN w
    ELSE IF c = MagicCell THEN Magic
    ELSE IF c = ActiveCell THEN w ELSE Erased

FlashType == [Parts -> [Cells("A") -> Words]]

Holds(flash, p, w) == \A c \in Cells(p) : flash[p][c] = WordOf(w, c)

Intact(flash, s) == \E v \in GoodImages : Holds(flash, s, v)

--------------------------------------------------------------------------------

\* AppInfo has its magic number but size_bytes still reads 0xFFFFFFFF, so
\* crc32_calculate runs from the start of the slot past the end of flash and
\* check_app_valid does not return.
HalfWritten(flash, s) ==
    /\ flash[s][MagicCell] \in Images
    /\ flash[s][SizeCell] = Erased

\* main tries activeApp and then !activeApp: everything but 0 is APP_B first.
FirstChoice(flash) == IF flash["BOOT"][ActiveCell] = "A" THEN "A" ELSE "B"

\* As if main tried !activeApp first, or activeApp only.
BootOutcomeSwapped(flash) ==
    LET first == Other(FirstChoice(flash))
    IN  IF Intact(flash, first) THEN first
        ELSE IF Intact(flash, Other(first)) THEN Other(first) ELSE None

BootOutcomeNoFallback(flash) ==
    IF Intact(flash, FirstChoice(flash)) THEN FirstChoice(flash) ELSE None

\* As if only the magic number of AppInfo were checked.
BootOutcomeNoCrc(flash) ==
    LET first == FirstChoice(flash)
    IN  IF flash[first][MagicCell] \in Images THEN first ELSE Other(first)

\* Where main of the bootloader ends: in the code of a slot, or nowhere (a
\* fault inside check_app_valid, or the endless loop at the end of main).
BootOutcome(flash) ==
    LET first == FirstChoice(flash)
        second == Other(first)
    IN  IF Intact(flash, first) THEN first
        ELSE IF ~HalfWritten(flash, first) /\ Intact(flash, second) THEN second
        ELSE None
================================================================================
