----------------------------- MODULE StorageProofs -----------------------------
(***************************************************************************)
(* Proofs that what the tool saw acknowledged is in flash, and that        *)
(* BOOTFROM names a slot only when the slot is complete.                   *)
(***************************************************************************)
EXTENDS StorageInvariant, UpgradeProofs, SequenceTheorems

--------------------------------------------------------------------------------
(* The chunks of a partition.                                               *)

\* Cells are numbered from 1 to the end of the partition.
LEMMA PartitionSize ==
    ASSUME NEW p \in Parts
    PROVE  /\ Pages(p) \in Nat \ {0}
           /\ PageCells * Pages(p) \in Nat
           /\ Pages(p) <= PageCells * Pages(p)
           /\ Cells(p) \subseteq Nat \ {0}
           /\ Cells(p) \subseteq Cells("A")
           /\ {1, 2} \subseteq Cells(p)
  <1>1. Pages(p) \in Nat \ {0} /\ SlotPages \in Nat /\ Pages(p) <= SlotPages
    BY LayoutAssumption DEF Pages
  <1>2. ASSUME NEW m \in Nat, NEW n \in Nat \ {0}, NEW k \in Nat, n <= k, 2 <= m
        PROVE  m * n \in Nat /\ n <= m * n /\ 2 <= m * n /\ m * n <= m * k
    <2>1. \E d \in Nat : m = 2 + d
      <3>1. m - 2 \in Nat /\ m = 2 + (m - 2)
        BY <1>2
      <3> QED BY <3>1
    <2>2. PICK d \in Nat : m = 2 + d
      BY <2>1
    <2>3. \E e \in Nat : k = n + e
      <3>1. k - n \in Nat /\ k = n + (k - n)
        BY <1>2
      <3> QED BY <3>1
    <2>4. PICK e \in Nat : k = n + e
      BY <2>3
    <2>5. m * n = n + n + d * n /\ m * k = m * n + m * e
      BY <2>2, <2>4
    <2>6. d * n \in Nat /\ m * e \in Nat
      OBVIOUS
    <2> QED BY <2>5, <2>6
  <1>3. PageCells \in Nat /\ 2 <= PageCells
    BY LayoutAssumption
  <1> DEFINE total == PageCells * Pages(p)
             all == PageCells * SlotPages
  <1>4. total \in Nat /\ Pages(p) <= total /\ 2 <= total /\ total <= all
    BY <1>1, <1>2, <1>3
  <1>5. all \in Nat
    BY <1>1, <1>3
  <1>6. Cells(p) = 1..total /\ Cells("A") = 1..all
    BY DEF Cells, Pages, Slots
  <1> HIDE DEF total, all
  <1>7. 1..total \subseteq Nat \ {0} /\ 1..total \subseteq 1..all /\ {1, 2} \subseteq 1..total
    BY <1>4, <1>5
  <1> QED BY <1>1, <1>4, <1>6, <1>7 DEF total

\* The chunk at an offset ends where the next one begins, or at the end of
\* the partition, and then it is the last.
LEMMA ChunkEnds ==
    ASSUME NEW p \in Parts, NEW k \in Offsets(p)
    PROVE  /\ k \in Nat /\ k * ChunkCells \in Nat /\ (k + 1) * ChunkCells \in Nat
           /\ ChunkLen(p, k) \in Nat \ {0}
           /\ k * ChunkCells + ChunkLen(p, k) <= PageCells * Pages(p)
           /\ k * ChunkCells + ChunkLen(p, k) <= (k + 1) * ChunkCells
           /\ \/ k * ChunkCells + ChunkLen(p, k) = (k + 1) * ChunkCells
              \/ k * ChunkCells + ChunkLen(p, k) = PageCells * Pages(p)
           /\ k + 1 \notin Offsets(p) => PageCells * Pages(p) <= (k + 1) * ChunkCells
  <1> DEFINE total == PageCells * Pages(p)
             from == k * ChunkCells
             to == (k + 1) * ChunkCells
             len == ChunkLen(p, k)
  <1>1. ChunkCells \in Nat \ {0}
    BY LayoutAssumption
  <1>2. total \in Nat
    BY PartitionSize
  <1>3. k \in Nat /\ from < total
    BY DEF Offsets
  <1>4. len \in Nat \ {0} /\ len = IF total - from > ChunkCells THEN ChunkCells ELSE total - from
    BY ChunkLenType DEF ChunkLen
  <1>5. from \in Nat /\ to = from + ChunkCells
    BY <1>1, <1>3
  <1>6. k <= from
    <2>1. PICK d \in Nat : ChunkCells = 1 + d
      <3>1. ChunkCells - 1 \in Nat /\ ChunkCells = 1 + (ChunkCells - 1)
        BY <1>1
      <3> QED BY <3>1
    <2>2. k * (1 + d) = k + k * d /\ k * d \in Nat
      BY <1>3
    <2> QED BY <1>3, <2>1, <2>2
  <1>7. k + 1 \in 0..total
    <2> HIDE DEF total, from
    <2> QED BY <1>2, <1>3, <1>5, <1>6
  <1>8. k + 1 \notin Offsets(p) => ~(to < total)
    BY <1>7 DEF Offsets
  <1>9. /\ from \in Nat /\ to \in Nat /\ from + len <= total /\ from + len <= to
        /\ from + len = to \/ from + len = total
        /\ k + 1 \notin Offsets(p) => total <= to
    <2> HIDE DEF total, from, to, len
    <2> QED BY <1>1, <1>2, <1>3, <1>4, <1>5, <1>8
  <1> QED BY <1>3, <1>4, <1>9

--------------------------------------------------------------------------------
(* Prefixes in flash.                                                       *)

\* A prefix that covers the partition is all of it.
LEMMA PrefixIsAll ==
    ASSUME NEW p \in Parts, NEW f, NEW w, NEW n \in Nat,
           PageCells * Pages(p) <= n, Prefix(f, p, w, n)
    PROVE  Holds(f, p, w)
  <1> DEFINE total == PageCells * Pages(p)
  <1>1. total \in Nat /\ Cells(p) = 1..total
    BY PartitionSize DEF Cells
  <1>2. total <= n
    OBVIOUS
  <1> HIDE DEF total
  <1>3. \A c \in Cells(p) : c <= n
    BY <1>1, <1>2
  <1> QED BY <1>3 DEF Prefix, Holds

\* What lies beyond the end of the partition does not matter.
LEMMA PrefixBeyond ==
    ASSUME NEW p \in Parts, NEW f, NEW w, NEW m \in Nat, NEW n \in Nat,
           m = n \/ (m = PageCells * Pages(p) /\ m <= n), Prefix(f, p, w, m)
    PROVE  Prefix(f, p, w, n)
  <1> DEFINE total == PageCells * Pages(p)
  <1>1. total \in Nat /\ Cells(p) = 1..total
    BY PartitionSize DEF Cells
  <1>2. m = n \/ (m = total /\ m <= n)
    OBVIOUS
  <1> HIDE DEF total
  <1>3. \A c \in Cells(p) : c <= m <=> c <= n
    BY <1>1, <1>2
  <1> QED BY <1>3 DEF Prefix

\* An erased partition is an empty prefix.
LEMMA ErasedIsPrefix ==
    ASSUME NEW p \in Parts, NEW f, NEW w, \A c \in Cells(p) : f[p][c] = Erased
    PROVE  Prefix(f, p, w, 0)
  <1>1. \A c \in Cells(p) : c \in Nat \ {0}
    BY PartitionSize
  <1>2. \A c \in Cells(p) : ~(c <= 0)
    BY <1>1
  <1> QED BY <1>2 DEF Prefix

\* fmc_word_program appends a word to a prefix, also where the word is 0xFF.
LEMMA PrefixGrows ==
    ASSUME NEW p \in Parts, NEW f \in FlashType, NEW w, NEW n \in Nat,
           n + 1 \in Cells(p), Prefix(f, p, w, n)
    PROVE  Prefix(Programmed(f, p, n + 1, WordOf(w, n + 1)), p, w, n + 1)
  <1> DEFINE g == Programmed(f, p, n + 1, WordOf(w, n + 1))
  <1>1. f[p][n + 1] = Erased
    BY DEF Prefix
  <1>2. \A c \in Cells(p) : c \in Cells("A") /\ c \in Nat
    BY PartitionSize
  <1>3. \A c \in Cells(p) : g[p][c] = IF c = n + 1 THEN WordOf(w, n + 1) ELSE f[p][c]
    BY <1>1, <1>2 DEF Programmed, FlashType
  <1> HIDE DEF g
  <1>4. ASSUME NEW c \in Cells(p)
        PROVE  g[p][c] = IF c <= n + 1 THEN WordOf(w, c) ELSE Erased
    <2>1. c <= n + 1 <=> (c = n + 1 \/ c <= n)
      BY <1>2
    <2>2. f[p][c] = IF c <= n THEN WordOf(w, c) ELSE Erased
      BY DEF Prefix
    <2> QED BY <1>3, <2>1, <2>2
  <1>5. Prefix(g, p, w, n + 1)
    BY <1>4 DEF Prefix
  <1> QED BY <1>5 DEF g

\* fmc_page_erase erases one more page.
LEMMA ErasedGrows ==
    ASSUME NEW p \in Parts, NEW f \in FlashType, NEW n \in Nat \ {0},
           \A c \in Cells(p) : c <= (n - 1) * PageCells => f[p][c] = Erased
    PROVE  \A c \in Cells(p) : c <= n * PageCells => Wiped(f, p, PageOf(n))[p][c] = Erased
  <1> TAKE c \in Cells(p)
  <1> DEFINE from == (n - 1) * PageCells
             to == n * PageCells
  <1>1. c \in Nat /\ c \in Cells("A")
    BY PartitionSize
  <1>2. PageCells \in Nat
    BY LayoutAssumption
  <1>3. from \in Int /\ to \in Int
    BY <1>2
  <1>4. PageOf(n) = (from + 1)..to
    BY DEF PageOf
  <1>5. c <= from => f[p][c] = Erased
    OBVIOUS
  <1>6. Wiped(f, p, PageOf(n))[p][c] = IF c \in PageOf(n) THEN Erased ELSE f[p][c]
    BY <1>1 DEF Wiped, FlashType
  <1> HIDE DEF from, to
  <1>7. c <= to => c <= from \/ c \in (from + 1)..to
    BY <1>1, <1>3
  <1>8. c <= to => Wiped(f, p, PageOf(n))[p][c] = Erased
    BY <1>4, <1>5, <1>6, <1>7
  <1> QED BY <1>8 DEF to

--------------------------------------------------------------------------------
(* CRCs.                                                                    *)

\* check_crc32 and crc16 grow by one chunk, from the CRC of nothing.
LEMMA CrcGrows ==
    ASSUME NEW w, NEW n \in Nat
    PROVE  /\ CrcUpTo(w, 0) = <<>>
           /\ Append(CrcUpTo(w, n), <<w, n>>) = CrcUpTo(w, n + 1)
  <1>1. CrcUpTo(w, 0) = <<>>
    BY DEF CrcUpTo
  <1> DEFINE T == {<<w, i>> : i \in Nat}
             s == CrcUpTo(w, n)
             t == CrcUpTo(w, n + 1)
             a == Append(s, <<w, n>>)
  <1>2. \A i \in 1..(n + 1) : <<w, i - 1>> \in T
    <2>1. \A i \in 1..(n + 1) : i - 1 \in Nat
      OBVIOUS
    <2> QED BY <2>1
  <1>3. s \in Seq(T) /\ t \in Seq(T) /\ Len(s) = n /\ Len(t) = n + 1
    BY <1>2 DEF CrcUpTo
  <1>4. \A i \in 1..n : s[i] = <<w, i - 1>>
    BY DEF CrcUpTo
  <1>5. \A i \in 1..(n + 1) : t[i] = <<w, i - 1>>
    BY DEF CrcUpTo
  <1>6. <<w, n>> \in T
    OBVIOUS
  <1> HIDE DEF T, s, t
  <1>7. a \in Seq(T) /\ Len(a) = n + 1 /\ a[n + 1] = <<w, n>> /\ \A i \in 1..n : a[i] = s[i]
    BY <1>3, <1>6
  <1>8. ASSUME NEW i \in 1..(n + 1) PROVE a[i] = t[i]
    <2>1. CASE i = n + 1
      BY <1>5, <1>7, <2>1
    <2>2. CASE i # n + 1
      <3>1. i \in 1..n
        BY <2>2
      <3> QED BY <3>1, <1>4, <1>5, <1>7
    <2> QED BY <2>1, <2>2
  <1>9. a = t
    <2> HIDE DEF a
    <2> QED BY <1>3, <1>7, <1>8, SeqEqual
  <1> QED BY <1>1, <1>9 DEF s, t

\* The CRC after a reset is that of no chunks.
LEMMA CrcIsNotBoot ==
    ASSUME NEW w \in Payloads, NEW n \in Nat
    PROVE  CrcUpTo(w, n) # BootCrc
  <1> SUFFICES ASSUME CrcUpTo(w, n) = BootCrc PROVE FALSE
    OBVIOUS
  <1>1. Len(CrcUpTo(w, n)) = n /\ Len(BootCrc) = 1 /\ BootCrc[1] = <<None, 0>>
    BY DEF CrcUpTo, BootCrc
  <1>2. CrcUpTo(w, n)[1] = <<w, 0>>
    BY <1>1 DEF CrcUpTo
  <1>3. w = None
    BY <1>1, <1>2
  <1> QED BY <1>3, ImageAssumption DEF Payloads, Slots, None

--------------------------------------------------------------------------------
(* The device while the tool writes.                                        *)

\* The one request that a running device may have is the one that the tool
\* waits for.
LEMMA Awaiting ==
    ASSUME TInv, SInv, Writing, mode = "run", toDev # <<>>
    PROVE  /\ toHost = <<>> /\ ~acked /\ ~Answered
           /\ Tail(toDev) = <<>>
           /\ \/ hpc = "start" /\ Head(toDev) = Start(hpart)
              \/ hpc = "chunk" /\ Head(toDev) = Chunk(hpart, hoff, Payload)
              \/ hpc = "final" /\ Head(toDev) = Finalize(hcrc)
  <1>1. hpc # "idle" /\ ~failed
    BY DEF SInv, RunIsRegular, Writing
  <1>2. toDev = <<Awaited>> /\ toHost = <<>> /\ ~acked
    BY <1>1 DEF SInv, OneOutstanding
  <1>3. Head(toDev) = Awaited /\ Tail(toDev) = <<>>
    BY <1>2
  <1> QED BY <1>2, <1>3 DEF Awaited, Writing, Answered

\* A handler that erases or programs writes the partition of the tool.
LEMMA HandlerPhase ==
    ASSUME TInv, SInv, Writing, mode = "run", op # "idle"
    PROVE  /\ toDev # <<>> /\ sess = hpart
           /\ op = "erase" => hpc = "start"
           /\ op = "program" => hpc = "chunk"
  <1>1. toDev # <<>> /\ Head(toDev).type = IF op = "erase" THEN "Start" ELSE "Chunk"
    BY DEF TInv, HandlerHasRequest
  <1>2. op \in {"erase", "program"}
    BY DEF TInv, TypeOK, DeviceTypeOK
  <1>3. /\ hpc = "start" => Head(toDev).type = "Start"
        /\ hpc = "chunk" => Head(toDev).type = "Chunk"
        /\ hpc = "final" => Head(toDev).type = "Finalize"
        /\ hpc \in {"start", "chunk", "final"}
    BY <1>1, Awaiting DEF Start, Chunk, Finalize
  <1> QED BY <1>1, <1>2, <1>3 DEF SInv, EraseInv, ProgramInv

\* What a device step does to the channels: it starts afresh, or it takes its
\* only request and sends one answer.
LEMMA DeviceOutstanding ==
    ASSUME TInv, SInv, Device
    PROVE  OneOutstanding'
  <1> USE DEF TInv, TypeOK, LinkTypeOK
  <1>0. UNCHANGED <<hpc, failed, acked, hpart, hoff, hcrc, target, himage>>
    BY DEF Device, hostVars, session
  <1> SUFFICES ASSUME hpc # "idle", ~failed PROVE OneOutstanding'
    BY <1>0 DEF OneOutstanding
  <1>1. /\ mode = "run" /\ toDev # <<>> => toDev = <<Awaited>> /\ toHost = <<>> /\ ~acked
        /\ toHost # <<>> => toHost = <<Head(toHost)>> /\ ~acked
    BY DEF SInv, OneOutstanding
  <1>2. Awaited' = Awaited
    BY <1>0 DEF Awaited, Payload
  <1>3. \/ toDev' = <<>> /\ UNCHANGED toHost
        \/ UNCHANGED <<toDev, toHost>> /\ mode = "run"
        \/ /\ mode = "run" /\ toDev # <<>> /\ toDev' = Tail(toDev)
           /\ \E m \in Replies : toHost' = Append(toHost, m)
    <2>1. CASE Boot \/ RestartDevice
      BY <2>1 DEF Boot, RestartDevice, PowerOff
    <2>2. CASE GetFirmwareInfo
      BY <2>2, MessagesTyped DEF GetFirmwareInfo, Handling, HandlerReturns, Reply, ResetClears
    <2>3. CASE StartFirmwareUpgrade \/ EraseOwnCode
      BY <2>3 DEF StartFirmwareUpgrade, EraseOwnCode, Handling
    <2>4. CASE FirmwareChunk
      BY <2>4, MessagesTyped DEF FirmwareChunk, Handling, HandlerReturns, Reply
    <2>5. CASE FinalizeFirmwareUpgrade
      BY <2>5, MessagesTyped DEF FinalizeFirmwareUpgrade, Handling, HandlerReturns, Reply
    <2>6. CASE ErasePage \/ EraseFault
      BY <2>6, MessagesTyped DEF ErasePage, EraseFault, EraseReturns, HandlerReturns, Reply, HandlerHasRequest
    <2>7. CASE ProgramWord
      BY <2>7, MessagesTyped DEF ProgramWord, HandlerReturns, Reply, HandlerHasRequest
    <2> QED BY <2>1, <2>2, <2>3, <2>4, <2>5, <2>6, <2>7 DEF Device, DeviceStep
  <1>4. CASE toDev' = <<>> /\ UNCHANGED toHost
    BY <1>0, <1>1, <1>4 DEF OneOutstanding
  <1>5. CASE UNCHANGED <<toDev, toHost>> /\ mode = "run"
    BY <1>0, <1>1, <1>2, <1>5 DEF OneOutstanding
  <1>6. ASSUME mode = "run", toDev # <<>>, toDev' = Tail(toDev),
               NEW m \in Replies, toHost' = Append(toHost, m)
        PROVE  OneOutstanding'
    <2>1. toDev = <<Awaited>> /\ toHost = <<>> /\ ~acked
      BY <1>1, <1>6
    <2>2. toDev' = <<>>
      BY <1>6, <2>1
    <2>3. toHost' = <<m>> /\ Head(toHost') = m
      BY <1>6, <2>1
    <2> QED BY <1>0, <2>1, <2>2, <2>3 DEF OneOutstanding
  <1> QED BY <1>3, <1>4, <1>5, <1>6

\* The slot that BOOTFROM names is not written.
LEMMA DeviceCommit ==
    ASSUME TInv, SInv, Device \/ Crash
    PROVE  CommitAfterStore'
  <1>0. UNCHANGED <<hpart, target, himage>>
    BY DEF Device, Crash, hostVars, session
  <1> SUFFICES ASSUME hpart = "BOOT" PROVE Holds(flash', target, himage)
    BY <1>0 DEF CommitAfterStore
  <1>1. Writing /\ Holds(flash, target, himage)
    BY DEF SInv, RunIsRegular, CommitAfterStore, None
  <1>2. target \in Slots
    BY <1>1 DEF Writing, TInv, ToolKnowsWhat
  <1>3. target # sess \/ op = "idle" \/ mode # "run"
    BY <1>1, <1>2, HandlerPhase DEF Slots
  <1> PICK t \in Slots : t = target
    BY <1>2
  <1>4. flash'[t] = flash[t]
    BY <1>3, WritesStayInSession
  <1> QED BY <1>1, <1>4 DEF Holds

\* StartFirmwareUpgrade_cb opens the session.
LEMMA StartProgress ==
    ASSUME TInv, SInv, Writing, Device, StartFirmwareUpgrade
    PROVE  EraseInv' /\ ProgramInv' /\ Progress'
  <1>1. mode = "run" /\ toDev # <<>> /\ Head(toDev).type = "Start" /\ UNCHANGED hostVars
    BY DEF StartFirmwareUpgrade, Handling, Device
  <1>2. hpc = "start" /\ Head(toDev) = Start(hpart) /\ ~Answered
    BY <1>1, Awaiting DEF Start, Chunk, Finalize
  <1>3. /\ sess' = hpart /\ crc' = <<>> /\ op' = "erase" /\ at' = 1
        /\ UNCHANGED <<flash, mode, toHost>>
        /\ UNCHANGED <<hpc, hpart, hoff, hcrc, target, himage, acked>>
    BY <1>1, <1>2 DEF StartFirmwareUpgrade, Start, hostVars, session
  <1>4. hpart \in Parts
    BY <1>2 DEF TInv, ToolKnowsWhat, Parts
  <1>5. 1 \in 1..Pages(hpart)
    BY <1>4, PartitionSize
  <1>6. ASSUME NEW c \in Cells(hpart) PROVE ~(c <= (1 - 1) * PageCells)
    <2>1. (1 - 1) * PageCells = 0
      BY LayoutAssumption
    <2>2. c \in Nat \ {0}
      BY <1>4, PartitionSize
    <2> QED BY <2>1, <2>2
  <1>7. EraseInv'
    BY <1>3, <1>5, <1>6 DEF EraseInv
  <1>8. ~Answered'
    BY <1>2, <1>3 DEF Answered, Accepts
  <1> QED BY <1>1, <1>2, <1>3, <1>7, <1>8 DEF ProgramInv, Progress

\* The erase loop: one more page, or the answer.
LEMMA EraseProgress ==
    ASSUME TInv, SInv, Writing, Device, ErasePage
    PROVE  EraseInv' /\ ProgramInv' /\ Progress'
  <1>1. mode = "run" /\ op = "erase" /\ UNCHANGED hostVars
    BY DEF ErasePage, Device
  <1>2. hpc = "start" /\ sess = hpart /\ toDev # <<>> /\ ~Answered
    BY <1>1, HandlerPhase, Awaiting
  <1>3. /\ UNCHANGED <<mode, sess, crc>>
        /\ UNCHANGED <<hpc, hpart, hoff, hcrc, target, himage, acked>>
    BY <1>1 DEF ErasePage, hostVars, session
  <1>4. hpart \in Parts /\ flash \in FlashType
    BY <1>2 DEF TInv, ToolKnowsWhat, Parts, TypeOK, DeviceTypeOK
  <1>5. /\ crc = <<>> /\ at \in 1..Pages(hpart)
        /\ \A c \in Cells(hpart) : c <= (at - 1) * PageCells => flash[hpart][c] = Erased
    BY <1>1, <1>2 DEF SInv, EraseInv
  <1>6. Pages(hpart) \in Nat /\ at \in Nat \ {0} /\ at <= Pages(hpart)
    BY <1>4, <1>5, PartitionSize
  <1>7. \A c \in Cells(hpart) : c <= at * PageCells => flash'[hpart][c] = Erased
    <2> PICK p \in Parts : p = hpart
      BY <1>4
    <2> PICK n \in Nat \ {0} : n = at
      BY <1>6
    <2>1. flash' = Wiped(flash, p, PageOf(n))
      BY <1>2 DEF ErasePage
    <2>2. \A c \in Cells(p) : c <= (n - 1) * PageCells => flash[p][c] = Erased
      BY <1>5
    <2>3. \A c \in Cells(p) : c <= n * PageCells => Wiped(flash, p, PageOf(n))[p][c] = Erased
      BY <1>4, <2>2, ErasedGrows
    <2> QED BY <2>1, <2>3
  <1>8. CASE at < Pages(sess)
    <2>1. at' = at + 1 /\ UNCHANGED <<op, toDev, toHost>>
      BY <1>8 DEF ErasePage
    <2>2. at' \in 1..Pages(hpart) /\ at' - 1 = at
      BY <1>2, <1>6, <1>8, <2>1
    <2>3. EraseInv'
      BY <1>1, <1>2, <1>3, <1>5, <1>7, <2>1, <2>2 DEF EraseInv
    <2>4. ~Answered'
      BY <1>2, <1>3, <2>1 DEF Answered, Accepts
    <2> QED BY <1>1, <1>2, <1>3, <2>1, <2>3, <2>4 DEF ProgramInv, Progress
  <1>9. CASE ~(at < Pages(sess))
    <2>1. op' = "idle"
      BY <1>9 DEF ErasePage, EraseReturns
    <2>2. \A c \in Cells(hpart) : flash'[hpart][c] = Erased
      <3>1. at = Pages(hpart)
        BY <1>2, <1>6, <1>9
      <3>2. at * PageCells = PageCells * Pages(hpart)
        BY <1>6, <3>1, LayoutAssumption
      <3>3. PageCells * Pages(hpart) \in Nat
        BY <1>4, PartitionSize
      <3> DEFINE total == PageCells * Pages(hpart)
      <3>4. total \in Nat /\ Cells(hpart) = 1..total /\ at * PageCells = total
        BY <3>2, <3>3 DEF Cells
      <3> HIDE DEF total
      <3>5. \A c \in Cells(hpart) : c <= at * PageCells
        BY <3>4
      <3> QED BY <1>7, <3>5
    <2>3. Prefix(flash', hpart, Payload, 0)
      BY <1>4, <2>2, ErasedIsPrefix
    <2>4. 0 * ChunkCells = 0 /\ CrcUpTo(Payload, 0) = <<>>
      BY LayoutAssumption, CrcGrows
    <2>5. Stored(0)'
      BY <1>2, <1>3, <1>5, <2>1, <2>3, <2>4 DEF Stored, Payload
    <2> QED BY <1>1, <1>2, <1>3, <2>1, <2>5 DEF EraseInv, ProgramInv, Progress
  <1> QED BY <1>8, <1>9

\* FirmwareChunk_cb takes the chunk that the tool sent, or refuses it after a
\* reset.
LEMMA ChunkProgress ==
    ASSUME TInv, SInv, Writing, Device, FirmwareChunk
    PROVE  EraseInv' /\ ProgramInv' /\ Progress'
  <1>1. /\ mode = "run" /\ op = "idle" /\ toDev # <<>> /\ Head(toDev).type = "Chunk"
        /\ UNCHANGED hostVars
    BY DEF FirmwareChunk, Handling, Device
  <1>2. /\ hpc = "chunk" /\ Head(toDev) = Chunk(hpart, hoff, Payload) /\ ~Answered
        /\ toHost = <<>> /\ ~acked
    BY <1>1, Awaiting DEF Start, Chunk, Finalize
  <1>3. UNCHANGED <<flash, mode, sess, crc, hpc, hpart, hoff, hcrc, target, himage, acked>>
    BY <1>1 DEF FirmwareChunk, hostVars, session
  <1>4. hpart \in Parts /\ hoff \in Offsets(hpart) /\ (WasReset \/ Stored(hoff))
    BY <1>1, <1>2 DEF TInv, ToolKnowsWhat, Parts, SInv, ToolCountsChunks, Progress
  <1> DEFINE from == hoff * ChunkCells
             len == ChunkLen(hpart, hoff)
  <1>5. from \in Nat /\ len \in Nat \ {0}
    BY <1>4, ChunkEnds
  <1>6. Head(toDev).offset = hoff
    BY <1>2 DEF Chunk
  <1>7. CASE sess # None /\ op' = "program" /\ at' = from + 1 /\ UNCHANGED <<toDev, toHost>>
    <2>1. Stored(hoff)
      BY <1>4, <1>7 DEF WasReset
    <2>2. sess = hpart /\ crc = CrcUpTo(Payload, hoff) /\ Prefix(flash, hpart, Payload, from)
      BY <1>1, <2>1 DEF Stored
    <2>3. at' - 1 = from /\ at' \in (from + 1)..(from + len)
      <3> HIDE DEF from, len
      <3> QED BY <1>5, <1>7
    <2>4. Stored(hoff)'
      BY <1>3, <1>7, <2>2, <2>3 DEF Stored, Payload
    <2>5. ProgramInv'
      BY <1>3, <2>2, <2>3 DEF ProgramInv
    <2>6. ~Answered'
      BY <1>2, <1>3, <1>7 DEF Answered, Accepts
    <2> QED BY <1>1, <1>2, <1>3, <1>7, <2>4, <2>5, <2>6 DEF EraseInv, Progress
  <1>8. CASE Reply(Chunked(FALSE)) /\ HandlerReturns /\ UNCHANGED <<op, at>>
    <2>1. toHost' = <<Chunked(FALSE)>> /\ Head(toHost') = Chunked(FALSE)
      BY <1>2, <1>8 DEF Reply
    <2>2. ~Answered'
      BY <1>2, <1>3, <2>1 DEF Answered, Accepts, Chunked
    <2>3. toDev' = <<>>
      BY <1>1, <1>8, Awaiting DEF HandlerReturns
    <2> QED BY <1>1, <1>2, <1>3, <1>8, <2>2, <2>3 DEF EraseInv, ProgramInv, Progress
  <1> QED BY <1>6, <1>7, <1>8 DEF FirmwareChunk

\* The program loop: one more word, or check_crc32 and the answer.
LEMMA ProgramProgress ==
    ASSUME TInv, SInv, ~FlashFaults, Writing, Device, ProgramWord
    PROVE  EraseInv' /\ ProgramInv' /\ Progress'
  <1>1. mode = "run" /\ op = "program" /\ UNCHANGED hostVars
    BY DEF ProgramWord, Device
  <1>2. hpc = "chunk" /\ sess = hpart /\ toDev # <<>>
    BY <1>1, HandlerPhase
  <1>3. Head(toDev) = Chunk(hpart, hoff, Payload) /\ ~Answered /\ Tail(toDev) = <<>>
    BY <1>1, <1>2, Awaiting
  <1>4. UNCHANGED <<mode, sess, hpc, hpart, hoff, hcrc, target, himage, acked>>
    BY <1>1 DEF ProgramWord, hostVars, session
  <1>5. hpart \in Parts /\ flash \in FlashType /\ hoff \in Offsets(hpart)
    BY <1>2 DEF TInv, ToolKnowsWhat, Parts, TypeOK, DeviceTypeOK, SInv, ToolCountsChunks
  <1> DEFINE from == hoff * ChunkCells
             to == (hoff + 1) * ChunkCells
             last == hoff * ChunkCells + ChunkLen(hpart, hoff)
             total == PageCells * Pages(hpart)
             m == Chunk(hpart, hoff, Payload)
  <1>6. m.offset * ChunkCells + m.len = last /\ m.data = Payload /\ m.offset = hoff
    BY DEF Chunk
  <1>7. /\ from \in Nat /\ to \in Nat /\ last \in Nat /\ total \in Nat
        /\ hoff \in Nat /\ last <= total /\ last <= to /\ (last = to \/ last = total)
    BY <1>5, ChunkEnds, PartitionSize
  <1>8. at \in (from + 1)..last
    BY <1>1, <1>2 DEF SInv, ProgramInv
  <1>9. crc = CrcUpTo(Payload, hoff) /\ Prefix(flash, hpart, Payload, at - 1)
    <2>1. WasReset \/ Stored(hoff)
      BY <1>1, <1>2 DEF SInv, Progress
    <2>2. ~WasReset
      BY <1>2, <1>5 DEF WasReset, Parts, Slots, None
    <2> QED BY <1>1, <2>1, <2>2 DEF Stored
  <1>10. at \in Nat /\ at - 1 \in Nat /\ (at - 1) + 1 = at /\ at \in Cells(hpart)
    <2>1. Cells(hpart) = 1..total
      BY DEF Cells
    <2> HIDE DEF from, last, total
    <2> QED BY <1>7, <1>8, <2>1
  <1>11. Prefix(flash', hpart, Payload, at)
    <2>1. flash' = Programmed(flash, hpart, at, WordOf(Payload, at))
      BY <1>2, <1>3, <1>6, ~FlashFaults DEF ProgramWord
    <2> PICK p \in Parts, n \in Nat : p = hpart /\ n = at - 1 /\ n + 1 = at
      BY <1>5, <1>10
    <2>2. Prefix(Programmed(flash, p, n + 1, WordOf(Payload, n + 1)), p, Payload, n + 1)
      BY <1>5, <1>9, <1>10, PrefixGrows
    <2> QED BY <2>1, <2>2
  <1>12. CASE at < last
    <2>1. at' = at + 1 /\ UNCHANGED <<crc, op, toDev, toHost>>
      BY <1>3, <1>6, <1>12 DEF ProgramWord
    <2>2. at' \in (from + 1)..last /\ at' - 1 = at
      <3> HIDE DEF from, last
      <3> QED BY <1>7, <1>8, <1>12, <2>1
    <2>3. Stored(hoff)'
      BY <1>1, <1>2, <1>4, <1>9, <1>11, <2>1, <2>2 DEF Stored, Payload
    <2>4. ProgramInv'
      BY <1>2, <1>4, <2>1, <2>2 DEF ProgramInv
    <2>5. ~Answered'
      BY <1>3, <1>4, <2>1 DEF Answered, Accepts
    <2> QED BY <1>1, <1>2, <1>4, <2>1, <2>3, <2>4, <2>5 DEF EraseInv, Progress
  <1>13. CASE ~(at < last)
    <2>1. /\ crc' = Append(crc, <<Payload, hoff>>) /\ op' = "idle" /\ toDev' = <<>>
      BY <1>3, <1>6, <1>13 DEF ProgramWord, HandlerReturns
    <2>2. crc' = CrcUpTo(Payload, hoff + 1)
      BY <1>7, <1>9, <2>1, CrcGrows
    <2>3. at = last
      <3> HIDE DEF from, last
      <3> QED BY <1>7, <1>8, <1>13
    <2>4. Prefix(flash', hpart, Payload, to)
      <3> PICK p \in Parts : p = hpart
        BY <1>5
      <3> PICK i \in Nat, j \in Nat : i = last /\ j = to
        BY <1>7
      <3>1. i = j \/ (i = PageCells * Pages(p) /\ i <= j)
        BY <1>7
      <3>2. Prefix(flash', p, Payload, i)
        BY <1>11, <2>3
      <3>3. Prefix(flash', p, Payload, j)
        BY <3>1, <3>2, PrefixBeyond
      <3> QED BY <3>3
    <2>5. Stored(hoff + 1)'
      BY <1>2, <1>4, <2>1, <2>2, <2>4 DEF Stored, Payload
    <2> QED BY <1>1, <1>2, <1>4, <2>1, <2>5 DEF EraseInv, ProgramInv, Progress
  <1> QED BY <1>12, <1>13

\* FinalizeFirmwareUpgrade_cb answers with success only if nothing is missing.
LEMMA FinalizeProgress ==
    ASSUME TInv, SInv, Writing, Device, FinalizeFirmwareUpgrade
    PROVE  EraseInv' /\ ProgramInv' /\ Progress'
  <1>1. /\ mode = "run" /\ op = "idle" /\ toDev # <<>> /\ Head(toDev).type = "Finalize"
        /\ UNCHANGED <<flash, mode, sess, crc, op, at>> /\ UNCHANGED hostVars
    BY DEF FinalizeFirmwareUpgrade, Handling, Device, deviceVars
  <1>2. /\ hpc = "final" /\ Head(toDev) = Finalize(hcrc) /\ toHost = <<>> /\ ~acked
        /\ Tail(toDev) = <<>>
    BY <1>1, Awaiting DEF Start, Chunk, Finalize
  <1>3. UNCHANGED <<hpc, hpart, hoff, hcrc, target, himage, acked>>
    BY <1>1 DEF hostVars, session
  <1>4. toDev' = <<>> /\ toHost' = <<Finalized(hcrc = crc)>>
    BY <1>2 DEF FinalizeFirmwareUpgrade, HandlerReturns, Reply, Finalize
  <1>5. /\ hpart \in Parts /\ hoff \in Offsets(hpart) /\ hoff + 1 \notin Offsets(hpart)
        /\ hcrc = CrcUpTo(Payload, hoff + 1) /\ Payload \in Payloads
    BY <1>2 DEF TInv, ToolKnowsWhat, Parts, SInv, ToolCountsChunks, Payload, Payloads
  <1>6. ASSUME hcrc = crc PROVE Holds(flash, hpart, Payload)
    <2> DEFINE to == (hoff + 1) * ChunkCells
    <2>1. hoff + 1 \in Nat /\ to \in Nat /\ PageCells * Pages(hpart) <= to
      BY <1>5, ChunkEnds
    <2>2. crc # BootCrc
      BY <1>5, <1>6, <2>1, CrcIsNotBoot
    <2>3. Stored(hoff + 1)
      BY <1>1, <1>2, <2>2 DEF SInv, Progress, WasReset
    <2>4. Prefix(flash, hpart, Payload, to)
      BY <1>1, <2>3 DEF Stored
    <2> HIDE DEF to
    <2> QED BY <1>5, <2>1, <2>4, PrefixIsAll
  <1>7. Answered' => hcrc = crc
    <2> SUFFICES ASSUME hcrc # crc PROVE ~Answered'
      OBVIOUS
    <2>1. Finalized(hcrc = crc) = Finalized(FALSE)
      OBVIOUS
    <2>2. toHost' = <<Finalized(FALSE)>>
      BY <1>4, <2>1, Zenon
    <2>4. Head(toHost') = Finalized(FALSE)
      BY ONLY <2>2
    <2>3. ~Accepts(Finalized(FALSE))'
      BY DEF Accepts, Finalized
    <2> QED BY <1>2, <1>3, <2>3, <2>4 DEF Answered
  <1>8. Answered' => Holds(flash, hpart, Payload)'
    BY <1>1, <1>3, <1>6, <1>7 DEF Holds, Payload
  <1> QED BY <1>1, <1>2, <1>3, <1>4, <1>8 DEF EraseInv, ProgramInv, Progress

\* A reset, from which only the answers on the line and flash remain.
LEMMA ResetProgress ==
    ASSUME TInv, SInv, Device \/ Crash, Boot \/ RestartDevice \/ EraseOwnCode \/ Crash
    PROVE  Writing => EraseInv' /\ ProgramInv' /\ Progress'
  <1> SUFFICES ASSUME Writing PROVE EraseInv' /\ ProgramInv' /\ Progress'
    OBVIOUS
  <1>1. UNCHANGED <<hpc, hpart, hoff, hcrc, target, himage, acked, toHost>>
    BY DEF Device, Crash, hostVars, session, Boot, RestartDevice, EraseOwnCode, PowerLoss
  <1>2. Answered' <=> Answered
    BY <1>1 DEF Answered, Accepts
  <1>3. hpc = "final" => flash' = flash
    BY HandlerPhase DEF Boot, RestartDevice, EraseOwnCode, Crash, PowerLoss
  <1>4. hpc = "final" /\ Answered' => Holds(flash, hpart, Payload)'
    BY <1>1, <1>2, <1>3 DEF SInv, Progress, Holds, Payload
  <1>5. CASE Boot
    <2>1. sess' = None /\ crc' = BootCrc /\ op' = "idle" /\ toDev' = <<>> /\ mode' # "off"
      BY <1>5 DEF Boot, TInv, ResetClears, SInv, Progress
    <2> QED BY <1>1, <1>4, <2>1 DEF EraseInv, ProgramInv, Progress, WasReset
  <1>6. CASE RestartDevice \/ Crash
    <2>1. crc' = BootCrc /\ mode' = "off"
      BY <1>6 DEF RestartDevice, Crash, PowerLoss, PowerOff, ResetRam
    <2> QED BY <1>1, <1>4, <2>1 DEF EraseInv, ProgramInv, Progress
  <1>7. CASE EraseOwnCode
    <2>1. mode' = "hung"
      BY <1>7 DEF EraseOwnCode
    <2> QED BY <1>1, <1>4, <2>1 DEF EraseInv, ProgramInv, Progress
  <1> QED BY <1>5, <1>6, <1>7

\* A device without power keeps the CRC that start-up code leaves.
LEMMA OffCrc == ASSUME TInv, SInv, Device \/ Crash PROVE mode' = "off" => crc' = BootCrc
  BY DEF Device, DeviceStep, Boot, GetFirmwareInfo, StartFirmwareUpgrade, FirmwareChunk,
         FinalizeFirmwareUpgrade, RestartDevice, ResetRam, ErasePage, EraseOwnCode, EraseFault,
         ProgramWord, Handling, deviceVars, Crash, PowerLoss, SInv, Progress

LEMMA DeviceSInv == ASSUME TInv, SInv, ~FlashFaults, Device \/ Crash PROVE SInv'
  <1>1. UNCHANGED <<hpc, failed, acked, hpart, hoff, hcrc, target, himage>>
    BY DEF Device, Crash, hostVars, session
  <1>2. RunIsRegular' /\ ToolCountsChunks'
    BY <1>1 DEF SInv, RunIsRegular, ToolCountsChunks, Writing, Payload
  <1>3. OneOutstanding'
    <2>1. CASE Crash
      BY <1>1, <2>1 DEF Crash, PowerLoss, PowerOff, SInv, OneOutstanding
    <2> QED BY <2>1, DeviceOutstanding
  <1>4. EraseInv' /\ ProgramInv' /\ Progress'
    <2>1. CASE ~Writing
      BY <1>1, <2>1, OffCrc DEF Writing, EraseInv, ProgramInv, Progress
    <2>2. CASE Writing
      <3>1. CASE Boot \/ RestartDevice \/ EraseOwnCode \/ Crash
        BY <2>2, <3>1, ResetProgress
      <3>2. CASE Device /\ GetFirmwareInfo
        BY <2>2, <3>2, Awaiting DEF GetFirmwareInfo, Handling, Start, Chunk, Finalize
      <3>3. CASE Device /\ (StartFirmwareUpgrade \/ FirmwareChunk \/ FinalizeFirmwareUpgrade)
        BY <2>2, <3>3, StartProgress, ChunkProgress, FinalizeProgress
      <3>4. CASE Device /\ (ErasePage \/ ProgramWord)
        BY <2>2, <3>4, EraseProgress, ProgramProgress
      <3>5. ~EraseFault
        BY DEF EraseFault
      <3> QED BY <3>1, <3>2, <3>3, <3>4, <3>5 DEF Device, DeviceStep
    <2> QED BY <2>1, <2>2
  <1> QED BY <1>2, <1>3, <1>4, DeviceCommit DEF SInv

--------------------------------------------------------------------------------
(* The tool and the line.                                                   *)

\* When the tool has seen an answer, nothing is on its way.
LEMMA Synchronous ==
    ASSUME TInv, SInv, hpc # "idle", ~failed, acked
    PROVE  toHost = <<>> /\ (mode = "run" => toDev = <<>> /\ op = "idle")
  BY DEF SInv, OneOutstanding, TInv, HandlerHasRequest

\* The tool sends the next request.
LEMMA SendOutstanding ==
    ASSUME TInv, toHost = <<>>, mode = "run" => toDev = <<>>, UNCHANGED <<mode, toHost>>,
           Request(Awaited'), ~acked'
    PROVE  OneOutstanding'
  <1>1. \A m : Append(<<>>, m) = <<m>>
    OBVIOUS
  <1>2. mode = "run" => toDev' = <<Awaited'>>
    BY <1>1 DEF Request
  <1> QED BY <1>2 DEF OneOutstanding

\* The receive thread.
LEMMA ReceiveSInv == ASSUME TInv, SInv, Host, ReceiveReply PROVE SInv'
  <1>1. UNCHANGED <<deviceVars, hpc, himage, failed, target, hpart, hoff, hcrc, toDev>>
    BY DEF Host, ReceiveReply, session
  <1>2. toHost # <<>> /\ toHost' = Tail(toHost) /\ acked' = (acked \/ Accepts(Head(toHost)))
    BY DEF ReceiveReply
  <1>3. CASE hpc = "idle" \/ failed
    <2>1. ~Writing
      BY <1>3 DEF Writing, SInv, RunIsRegular
    <2> QED
      BY <1>1, <1>3, <2>1 DEF SInv, RunIsRegular, OneOutstanding, ToolCountsChunks, EraseInv, ProgramInv,
         Progress, CommitAfterStore, Writing, deviceVars
  <1>4. CASE hpc # "idle" /\ ~failed
    <2>1. toHost' = <<>> /\ (mode = "run" => toDev = <<>>)
      <3>1. toHost = <<Head(toHost)>>
        BY <1>2, <1>4 DEF SInv, OneOutstanding
      <3>2. Tail(<<Head(toHost)>>) = <<>>
        OBVIOUS
      <3> QED BY <1>2, <1>4, <3>1, <3>2 DEF SInv, OneOutstanding
    <2>2. OneOutstanding'
      BY <1>1, <2>1 DEF OneOutstanding, deviceVars
    <2>3. Answered' => Answered
      BY <1>2, <2>1 DEF Answered
    <2>4. Progress'
      <3>1. \A n : Stored(n)' <=> Stored(n)
        BY <1>1 DEF Stored, Prefix, Payload, deviceVars
      <3>2. Stored(hoff)' <=> Stored(hoff)
        BY <1>1 DEF Stored, Prefix, Payload, deviceVars
      <3>3. Stored(hoff + 1)' <=> Stored(hoff + 1)
        BY <1>1 DEF Stored, Prefix, Payload, deviceVars
      <3>4. UNCHANGED <<WasReset, Payload>> /\ (Holds(flash, hpart, Payload)' <=> Holds(flash, hpart, Payload))
        BY <1>1 DEF WasReset, Payload, Holds, deviceVars
      <3> QED BY <1>1, <2>1, <2>3, <3>1, <3>2, <3>3, <3>4 DEF SInv, Progress, deviceVars
    <2> QED
      BY <1>1, <2>2, <2>4 DEF SInv, RunIsRegular, ToolCountsChunks, EraseInv, ProgramInv,
         CommitAfterStore, Writing, Payload, Holds, deviceVars
  <1> QED BY <1>3, <1>4

\* The main thread asks.
LEMMA AskingSInv ==
    ASSUME IInv, TInv', SInv, UNCHANGED deviceVars, UNCHANGED <<session, toHost>>,
           \/ ~PromptRerun /\ Run
           \/ InfoADone
           \/ Timeout /\ hpc = "infoA"
    PROVE  SInv'
  <1>1. hpc' \in {"infoA", "infoB"} /\ hpart = None
    BY DEF Run, RunTool, InfoADone, Timeout, TimedOut, QuerySlotB, SInv, RunIsRegular, Writing
  <1>2. RunIsRegular'
    BY <1>1 DEF Run, RunTool, InfoADone, Timeout, TimedOut, QuerySlotB, SInv, RunIsRegular, session
  <1>3. OneOutstanding'
    <2>1. CASE Run
      <3>1. toHost = <<>> /\ (mode = "run" => toDev = <<>>)
        BY <2>1, ~PromptRerun DEF Run, Quiet, InfoADone, Timeout, TimedOut, QuerySlotB, RunTool
      <3>2. Request(Awaited') /\ ~acked'
        BY <2>1 DEF Run, RunTool, Awaited, IInv, ToolStartsAfresh
      <3> QED BY <3>1, <3>2, SendOutstanding DEF IInv, deviceVars
    <2>2. CASE InfoADone
      <3>1. toHost = <<>> /\ (mode = "run" => toDev = <<>>)
        BY <2>2, Synchronous DEF InfoADone, SInv, RunIsRegular, IInv
      <3>2. Request(Awaited') /\ ~acked'
        BY <2>2 DEF InfoADone, QuerySlotB, Awaited
      <3> QED BY <3>1, <3>2, SendOutstanding DEF IInv, deviceVars
    <2>3. CASE Timeout /\ hpc = "infoA"
      BY <2>3 DEF Timeout, TimedOut, QuerySlotB, OneOutstanding
    <2> QED BY <2>1, <2>2, <2>3
  <1> QED
    BY <1>1, <1>2, <1>3 DEF SInv, ToolCountsChunks, EraseInv, ProgramInv, Progress, CommitAfterStore,
       session, deviceVars, None

\* The main thread begins with a partition: nothing is acknowledged, and the
\* device has nothing to do yet.
LEMMA PartitionSInv ==
    ASSUME TInv, SInv, UNCHANGED deviceVars, hpc # "idle", ~failed, acked,
           NEW p, StartPartition(p),
           p = "BOOT" => Holds(flash, target', himage)
    PROVE  SInv'
  <1>1. toHost = <<>> /\ (mode = "run" => toDev = <<>> /\ op = "idle")
    BY Synchronous
  <1>2. /\ hpc' = "start" /\ hpart' = p /\ hcrc' = <<>> /\ ~acked' /\ Request(Start(p))
        /\ UNCHANGED <<himage, failed, toHost>> /\ UNCHANGED <<flash, mode, sess, crc, op, at>>
    BY DEF StartPartition, deviceVars
  <1>3. OneOutstanding'
    BY <1>1, <1>2, SendOutstanding DEF Awaited
  <1>4. ~Answered'
    BY <1>1, <1>2 DEF Answered
  <1>5. CommitAfterStore'
    BY <1>2 DEF CommitAfterStore, Holds
  <1>6. mode = "off" => crc = BootCrc
    BY DEF SInv, Progress
  <1> QED
    BY <1>1, <1>2, <1>3, <1>4, <1>5, <1>6 DEF SInv, RunIsRegular, Writing, ToolCountsChunks, EraseInv,
       ProgramInv, Progress

\* The main thread sends the next chunk of a partition, of which the device
\* has stored all that were sent before, if it was not reset.
LEMMA SendChunkSInv ==
    ASSUME TInv, SInv, UNCHANGED deviceVars, hpc \in {"start", "chunk"}, acked,
           NEW k, SendChunk(k), k \in Offsets(hpart), hcrc' = CrcUpTo(Payload, k),
           mode = "run" => WasReset \/ Stored(k)
    PROVE  SInv'
  <1>1. toHost = <<>> /\ (mode = "run" => toDev = <<>> /\ op = "idle")
    BY Synchronous DEF SInv, RunIsRegular
  <1>2. /\ hpc' = "chunk" /\ hoff' = k /\ ~acked' /\ Request(Chunk(hpart, k, Payload))
        /\ UNCHANGED <<hpart, target, himage, failed, toHost>>
        /\ UNCHANGED <<flash, mode, sess, crc, op, at>>
    BY DEF SendChunk, deviceVars
  <1>3. UNCHANGED Payload
    BY <1>2 DEF Payload
  <1>4. OneOutstanding'
    BY <1>1, <1>2, <1>3, SendOutstanding DEF Awaited
  <1>5. ~Answered'
    BY <1>1, <1>2 DEF Answered
  <1>6. CommitAfterStore'
    BY <1>2 DEF SInv, CommitAfterStore, Holds
  <1>7. mode = "off" => crc = BootCrc
    BY DEF SInv, Progress
  <1>8. mode = "run" => WasReset' \/ Stored(hoff)'
    BY <1>1, <1>2, <1>3 DEF WasReset, Stored, Prefix
  <1>9. RunIsRegular'
    BY <1>2 DEF SInv, RunIsRegular, Writing
  <1> QED
    BY <1>1, <1>2, <1>3, <1>4, <1>5, <1>6, <1>7, <1>8, <1>9 DEF SInv, ToolCountsChunks, EraseInv,
       ProgramInv, Progress

\* The main thread asks the device to finalize.
LEMMA FinalizeSInv ==
    ASSUME TInv, SInv, UNCHANGED deviceVars, hpc = "chunk", acked,
           hpc' = "final", ~acked', Request(Finalize(hcrc')), hcrc' = CrcUpTo(Payload, hoff + 1),
           hoff + 1 \notin Offsets(hpart), mode = "run" => WasReset \/ Stored(hoff + 1),
           UNCHANGED <<himage, failed, target, hpart, hoff, toHost>>
    PROVE  SInv'
  <1>1. toHost = <<>> /\ (mode = "run" => toDev = <<>> /\ op = "idle")
    BY Synchronous DEF SInv, RunIsRegular
  <1>2. UNCHANGED <<flash, mode, sess, crc, op, at>>
    BY DEF deviceVars
  <1>3. UNCHANGED Payload /\ hoff \in Offsets(hpart)
    BY DEF Payload, SInv, ToolCountsChunks
  <1>4. OneOutstanding'
    BY <1>1, <1>2, SendOutstanding DEF Awaited
  <1>5. ~Answered'
    BY <1>1 DEF Answered
  <1>6. CommitAfterStore'
    BY <1>2 DEF SInv, CommitAfterStore, Holds
  <1>7. mode = "off" => crc = BootCrc
    BY DEF SInv, Progress
  <1>8. mode = "run" => WasReset' \/ Stored(hoff + 1)'
    BY <1>1, <1>2, <1>3 DEF WasReset, Stored, Prefix
  <1>9. RunIsRegular'
    BY DEF SInv, RunIsRegular, Writing
  <1> QED
    BY <1>1, <1>2, <1>3, <1>4, <1>5, <1>6, <1>7, <1>8, <1>9 DEF SInv, ToolCountsChunks, EraseInv,
       ProgramInv, Progress

\* main leaves.
LEMMA ExitSInv ==
    ASSUME TInv, SInv, UNCHANGED deviceVars, ToolExits
    PROVE  SInv'
  BY DEF ToolExits, SInv, RunIsRegular, Writing, OneOutstanding, ToolCountsChunks, EraseInv, ProgramInv,
         Progress, CommitAfterStore, deviceVars, None

\* The main thread while it writes.
LEMMA WritingSInv ==
    ASSUME TInv, SInv, Host, InfoBDone \/ StartDone \/ ChunkDone \/ SlotDone
    PROVE  SInv'
  <1> USE DEF SInv
  <1>1. UNCHANGED deviceVars
    BY DEF Host
  <1>2. CASE InfoBDone
    <2>1. target' # "BOOT"
      BY <1>2 DEF InfoBDone, PickTarget
    <2> QED BY <1>1, <1>2, <2>1, PartitionSInv DEF InfoBDone
  <1>3. CASE StartDone
    <2>1. hpart \in Parts /\ 0 \in Offsets(hpart)
      BY <1>3, ChunkLenType DEF StartDone, TInv, ToolKnowsWhat, Parts
    <2>2. hcrc' = CrcUpTo(Payload, 0)
      BY <1>3, CrcGrows DEF StartDone, ToolCountsChunks
    <2>3. mode = "run" => WasReset \/ Stored(0)
      BY <1>3 DEF StartDone, Progress, Answered
    <2> QED BY <1>1, <1>3, <2>1, <2>2, <2>3, SendChunkSInv DEF StartDone
  <1>4. CASE ChunkDone
    <2>1. hoff \in Nat
      BY DEF TInv, TypeOK, HostTypeOK
    <2>2. hcrc' = CrcUpTo(Payload, hoff + 1)
      BY <1>4, <2>1, CrcGrows DEF ChunkDone, ToolCountsChunks
    <2>3. mode = "run" => WasReset \/ Stored(hoff + 1)
      BY <1>4 DEF ChunkDone, Progress, Answered
    <2>4. CASE hoff + 1 \in Offsets(hpart)
      BY <1>1, <1>4, <2>2, <2>3, <2>4, SendChunkSInv DEF ChunkDone
    <2>5. CASE hoff + 1 \notin Offsets(hpart)
      BY <1>1, <1>4, <2>2, <2>3, <2>5, FinalizeSInv DEF ChunkDone
    <2> QED BY <2>4, <2>5
  <1>5. CASE SlotDone
    <2>1. Holds(flash, hpart, Payload) /\ hpart = target /\ Payload = himage
      BY <1>5 DEF SlotDone, Progress, Answered, TInv, ToolKnowsWhat, Payload
    <2>2. ~failed
      BY <1>5 DEF SlotDone, RunIsRegular
    <2>3. Holds(flash, target', himage)
      BY <1>5, <2>1 DEF SlotDone
    <2> QED BY <1>1, <1>5, <2>2, <2>3, PartitionSInv DEF SlotDone
  <1> QED BY <1>2, <1>3, <1>4, <1>5

\* The tool, whatever it does.
LEMMA HostSInv == ASSUME IInv, SInv, ~PromptRerun, Host \/ Run \/ Timeout \/ Stop PROVE SInv'
  <1>1. TInv /\ TInv' /\ UNCHANGED deviceVars
    BY HostTInv DEF IInv, Host, Run, Timeout, Stop
  <1>2. CASE Host
    <2>1. CASE ReceiveReply
      BY <1>1, <1>2, <2>1, ReceiveSInv
    <2>2. CASE InfoADone
      <3>1. UNCHANGED <<session, toHost>>
        BY <2>2 DEF InfoADone, QuerySlotB
      <3> QED BY <1>1, <2>2, <3>1, AskingSInv
    <2>3. CASE InfoBDone \/ StartDone \/ ChunkDone \/ SlotDone
      BY <1>1, <1>2, <2>3, WritingSInv
    <2>4. CASE GiveUpAfterInfo \/ BootFromDone
      BY <1>1, <2>4, ExitSInv DEF GiveUpAfterInfo, BootFromDone
    <2> QED BY <1>2, <2>1, <2>2, <2>3, <2>4 DEF Host, HostStep
  <1>3. CASE Run
    <2>1. UNCHANGED <<session, toHost>>
      BY <1>3 DEF Run, RunTool
    <2> QED BY <1>1, <1>3, <2>1, AskingSInv
  <1>4. CASE Timeout
    <2>1. CASE hpc = "infoA"
      <3>1. UNCHANGED <<session, toHost>>
        BY <1>4, <2>1 DEF Timeout, TimedOut, QuerySlotB
      <3> QED BY <1>1, <1>4, <2>1, <3>1, AskingSInv
    <2>2. CASE hpc # "infoA"
      BY <1>1, <1>4, <2>2, ExitSInv DEF Timeout, TimedOut
    <2> QED BY <2>1, <2>2
  <1>5. CASE Stop
    BY <1>1, <1>5, ExitSInv DEF Stop, Interrupt
  <1> QED BY <1>2, <1>3, <1>4, <1>5

\* A frame is lost: a request that waited, or an answer.
LEMMA LoseSInv == ASSUME TInv, SInv, Lose PROVE SInv'
  <1>1. UNCHANGED <<flash, mode, sess, crc, op, at>>
    BY DEF Lose, deviceVars
  <1>2. UNCHANGED <<hpc, himage, failed, target, hpart, hoff, hcrc, acked, Payload>>
    BY DEF Lose, hostVars, session, Payload
  <1>3. CASE hpc = "idle" \/ failed
    <2>1. ~Writing
      BY <1>3 DEF Writing, SInv, RunIsRegular
    <2> QED
      BY <1>1, <1>2, <1>3, <2>1 DEF SInv, RunIsRegular, OneOutstanding, ToolCountsChunks, EraseInv,
         ProgramInv, Progress, CommitAfterStore, Writing
  <1>4. CASE hpc # "idle" /\ ~failed
    <2>1. \A m : Tail(<<m>>) = <<>>
      OBVIOUS
    <2>2. /\ toHost' = toHost \/ toHost' = <<>>
          /\ mode = "run" => toDev' = toDev \/ toDev' = <<>>
      BY <1>4, <2>1 DEF Lose, LoseRequest, LoseReply, SInv, OneOutstanding
    <2>3. OneOutstanding'
      <3>1. UNCHANGED Awaited
        BY <1>2 DEF Awaited
      <3> QED BY <1>1, <1>2, <1>4, <2>2, <3>1 DEF SInv, OneOutstanding
    <2>4. Answered' => Answered
      BY <1>2, <2>2 DEF Answered, Accepts
    <2>5. Progress'
      <3>1. /\ Stored(0)' <=> Stored(0)
            /\ Stored(hoff)' <=> Stored(hoff)
            /\ Stored(hoff + 1)' <=> Stored(hoff + 1)
        BY <1>1, <1>2 DEF Stored, Prefix
      <3>2. UNCHANGED WasReset /\ (Holds(flash, hpart, Payload)' <=> Holds(flash, hpart, Payload))
        BY <1>1, <1>2 DEF WasReset, Holds
      <3> QED BY <1>1, <1>2, <2>2, <2>4, <3>1, <3>2 DEF SInv, Progress
    <2>6. RunIsRegular' /\ ToolCountsChunks'
      BY <1>2 DEF SInv, RunIsRegular, ToolCountsChunks, Writing
    <2>7. EraseInv' /\ ProgramInv' /\ CommitAfterStore'
      BY <1>1, <1>2 DEF SInv, EraseInv, ProgramInv, CommitAfterStore, Holds
    <2> QED BY <2>3, <2>5, <2>6, <2>7 DEF SInv
  <1> QED BY <1>3, <1>4

LEMMA StutterSInv == ASSUME SInv, UNCHANGED vars PROVE SInv'
  <1>1. /\ UNCHANGED <<flash, mode, sess, crc, op, at, toDev, toHost, Payload>>
        /\ UNCHANGED <<hpc, himage, failed, target, hpart, hoff, hcrc, acked>>
    BY DEF vars, deviceVars, hostVars, session, linkVars, Payload
  <1>2. UNCHANGED <<Awaited, WasReset>> /\ (Answered' <=> Answered)
    BY <1>1 DEF Awaited, WasReset, Answered, Accepts
  <1>3. /\ Stored(0)' <=> Stored(0)
        /\ Stored(hoff)' <=> Stored(hoff)
        /\ Stored(hoff + 1)' <=> Stored(hoff + 1)
    BY <1>1 DEF Stored, Prefix
  <1>4. RunIsRegular' /\ OneOutstanding' /\ ToolCountsChunks'
    BY <1>1, <1>2 DEF SInv, RunIsRegular, OneOutstanding, ToolCountsChunks, Writing
  <1>5. EraseInv' /\ ProgramInv' /\ CommitAfterStore'
    BY <1>1 DEF SInv, EraseInv, ProgramInv, CommitAfterStore, Holds
  <1>6. Progress'
    BY <1>1, <1>2, <1>3 DEF SInv, Progress, Holds
  <1> QED BY <1>4, <1>5, <1>6 DEF SInv

\* No tool has been started, and nothing was sent.
LEMMA InitSInv == Init => SInv
  BY DEF Init, DeviceInit, HostInit, LinkInit, SInv, RunIsRegular, OneOutstanding, ToolCountsChunks,
         EraseInv, ProgramInv, Progress, CommitAfterStore, Writing, Answered, None

LEMMA NextSInv ==
    ASSUME ~FlashFaults, ~PromptRerun
    PROVE  IInv /\ SInv /\ [Next]_vars => SInv'
  <1>1. IInv => TInv
    BY DEF IInv
  <1> QED BY <1>1, DeviceSInv, HostSInv, LoseSInv, StutterSInv DEF Next

\* Two consequences of the invariant.
LEMMA SInvSafe == SInv => AcceptedIsStored /\ CommitAfterStore
  BY DEF SInv, Progress, Answered, AcceptedIsStored

\* The tool and the device agree on how much of a partition is stored, from
\* the answer to StartFirmwareUpgrade to the answer to FinalizeFirmwareUpgrade.
THEOREM StorageCorrect == ASSUME ~FlashFaults, ~PromptRerun PROVE Spec => []SInv
  <1>1. IInv /\ [Next]_vars => IInv'
    BY NextIInv
  <1>2. IInv /\ SInv /\ [Next]_vars => SInv'
    BY NextSInv
  <1> QED BY <1>1, <1>2, InitIInv, InitSInv, PTL DEF Spec

\* What FinalizeFirmwareUpgrade acknowledges is in flash, word by word, for any
\* layout of the flash, size of the chunks, files, and number of runs, power
\* failures, lost frames and timeouts: FirmwareChunk_cb neither checks that the
\* chunks come in order nor reads back what it wrote; that the tool sends one
\* request at a time and that check_crc32 starts at another value after a reset
\* than in a session make up for it.
THEOREM AlwaysAcceptedIsStored ==
    ASSUME ~FlashFaults, ~PromptRerun PROVE Spec => []AcceptedIsStored
  BY StorageCorrect, SInvSafe, PTL

\* Under the same conditions the tool writes BOOTFROM only while the slot it
\* names holds the whole file.
THEOREM AlwaysCommitAfterStore ==
    ASSUME ~FlashFaults, ~PromptRerun PROVE Spec => []CommitAfterStore
  BY StorageCorrect, SInvSafe, PTL
================================================================================
