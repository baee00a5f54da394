--------------------------- MODULE RefinementProofs ---------------------------
(***************************************************************************)
(* Proof that the system implements ABUpdate: each step of the tool, the   *)
(* line and the device is a step of A/B updating, or none.  After it, the  *)
(* proof that the first update never leaves the device without code.       *)
(***************************************************************************)
EXTENDS StorageProofs

--------------------------------------------------------------------------------
(* When BOOTFROM may be rewritten.                                          *)

LEMMA StartBoot ==
    ASSUME NEW m \in Requests, m.type = "Start", m.part = "BOOT"
    PROVE  m = Start("BOOT")
  BY DEF Requests, Start

\* The length of a channel after a frame was taken, and the only frame of one.
LEMMA ChannelLength ==
    ASSUME NEW S, NEW s \in Seq(S)
    PROVE  /\ Len(s) \in Nat
           /\ Len(<<>>) = 0 /\ \A m : Len(<<m>>) = 1
           /\ s # <<>> => Len(Tail(s)) = Len(s) - 1
           /\ s # <<>> /\ Len(s) <= 1 => Range(s) = {Head(s)}
  <1>1. s # <<>> /\ Len(s) <= 1 => DOMAIN s = {1} /\ Head(s) = s[1]
    <2>1. s # <<>> => Len(s) >= 1
      OBVIOUS
    <2>2. DOMAIN s = 1..Len(s) /\ Len(s) \in Nat /\ 1..1 = {1}
      OBVIOUS
    <2> QED BY <2>1, <2>2
  <1>2. Len(s) \in Nat /\ (s # <<>> => Len(Tail(s)) = Len(s) - 1)
    OBVIOUS
  <1> QED BY <1>1, <1>2 DEF Range

\* A partition that nothing writes keeps what it holds.
LEMMA WholeKept ==
    ASSUME BothWhole, \A s \in Slots : flash'[s] = flash[s]
    PROVE  BothWhole'
  BY DEF BothWhole, Holds

\* A handler that writes has the only request.
LEMMA WriterIsAlone ==
    ASSUME TInv, BootFromInv, mode = "run", op # "idle", NEW p, Start(p) \in Range(toDev)
    PROVE  p = sess
  <1>1. Start(p).type = "Start" /\ Start(p).part = p
    BY DEF Start
  <1>2. Len(toDev) <= 1
    BY <1>1 DEF BootFromInv, ShortQueue
  <1>3. toDev \in Seq(Requests) /\ toDev # <<>>
    BY DEF TInv, TypeOK, LinkTypeOK, HandlerHasRequest
  <1>4. Head(toDev) = Start(p)
    BY <1>2, <1>3, ChannelLength
  <1>5. op = "erase"
    BY <1>1, <1>4 DEF TInv, HandlerHasRequest
  <1> QED BY <1>1, <1>4, <1>5 DEF BootFromInv, EraseIsRequested

\* A device step or a power failure.
LEMMA DeviceRInv == ASSUME RInv, Device \/ Crash PROVE BootFromInv'
  <1> USE DEF RInv, BootFromInv
  <1>1. TInv /\ toDev \in Seq(Requests) /\ Range(toDev) \subseteq Requests
    BY ChannelElements DEF IInv, TInv, TypeOK, LinkTypeOK
  <1>2. CASE Crash
    BY <1>2 DEF Crash, PowerLoss, PowerOff, ResetRam, ShortQueue, EraseIsRequested, BootFromIsLast
  <1>3. ASSUME Device PROVE EraseIsRequested'
    BY <1>1, <1>3 DEF Device, DeviceStep, Boot, GetFirmwareInfo, StartFirmwareUpgrade, FirmwareChunk,
       FinalizeFirmwareUpgrade, RestartDevice, ResetRam, ErasePage, EraseReturns, EraseOwnCode, EraseFault,
       ProgramWord, Handling, deviceVars, EraseIsRequested, TInv, ResetClears
  <1>4. ASSUME Device PROVE ShortQueue'
    <2>1. \/ toDev' = <<>>
          \/ mode = "run" /\ toDev # <<>> /\ toDev' \in {toDev, Tail(toDev)}
      BY <1>1, <1>4 DEF Device, DeviceStep, Boot, GetFirmwareInfo, StartFirmwareUpgrade, FirmwareChunk,
         FinalizeFirmwareUpgrade, RestartDevice, PowerOff, ErasePage, EraseReturns, EraseOwnCode, EraseFault,
         ProgramWord, Handling, HandlerReturns, TInv, HandlerHasRequest
    <2>2. Len(<<>>) <= 1 /\ (toDev # <<>> => Len(Tail(toDev)) = Len(toDev) - 1)
      BY <1>1, ChannelLength
    <2>3. toDev # <<>> => Range(Tail(toDev)) \subseteq Range(toDev)
      BY <1>1, ChannelElements
    <2>4. Len(toDev) \in Nat
      BY <1>1
    <2>5. CASE toDev' = <<>>
      BY <2>2, <2>5 DEF ShortQueue
    <2>6. CASE mode = "run" /\ toDev # <<>> /\ toDev' \in {toDev, Tail(toDev)}
      <3>1. Len(toDev) <= 1 => Len(toDev') <= 1
        BY <2>2, <2>4, <2>6
      <3>2. Range(toDev') \subseteq Range(toDev)
        BY <2>3, <2>6
      <3> QED BY <2>6, <3>1, <3>2 DEF ShortQueue
    <2> QED BY <2>1, <2>5, <2>6
  <1>5. ASSUME Device PROVE BootFromIsLast'
    <2> SUFFICES ASSUME mode' = "run", sess' = "BOOT" \/ Start("BOOT") \in Range(toDev')
                 PROVE  BothWhole'
      BY DEF BootFromIsLast
    <2>1. Range(toDev') \subseteq Range(toDev)
      BY <1>1, <1>5, DeviceMessages
    <2>2. mode = "run"
      <3>1. Range(<<>>) = {}
        BY DEF Range
      <3>2. None # "BOOT"
        BY DEF None
      <3> QED BY <1>1, <1>5, <3>1, <3>2, DeviceSession
    <2>3. sess = "BOOT" \/ Start("BOOT") \in Range(toDev)
      BY <1>1, <1>5, <2>1, <2>2, DeviceSession, StartBoot
    <2>4. BothWhole
      BY <2>2, <2>3 DEF BootFromIsLast
    <2>5. ASSUME op # "idle", sess # "BOOT" PROVE FALSE
      BY <1>1, <2>2, <2>3, <2>5, WriterIsAlone
    <2>6. \A s \in Slots : flash'[s] = flash[s]
      BY <1>1, <1>5, <2>5, WritesStayInSession DEF Slots
    <2> QED BY <2>4, <2>6, WholeKept
  <1> QED BY <1>2, <1>3, <1>4, <1>5

\* What the tool sends, and when.
LEMMA HostSends ==
    ASSUME TInv, TInv', Host \/ Run \/ Timeout \/ Stop
    PROVE  \/ UNCHANGED toDev
           \/ Request(Restart) /\ BootFromDone
           \/ /\ hpc' # "idle"
              /\ \/ \E s \in Slots : Request(GetInfo(s))
                 \/ Request(Start(target')) /\ InfoBDone /\ target' \in Slots
                 \/ /\ hpart \in Parts /\ Payload \in Payloads
                    /\ \E k \in Offsets(hpart) : Request(Chunk(hpart, k, Payload))
                 \/ Request(Finalize(hcrc')) /\ hcrc' \in Crcs
                 \/ Request(Start("BOOT")) /\ SlotDone
  <1>1. CASE Host
    <2>1. CASE ReceiveReply \/ GiveUpAfterInfo
      BY <2>1 DEF ReceiveReply, GiveUpAfterInfo, linkVars
    <2>2. CASE InfoADone
      BY <2>2 DEF InfoADone, QuerySlotB, Slots
    <2>3. CASE InfoBDone
      BY <2>3 DEF InfoBDone, PickTarget, StartPartition, Slots
    <2>4. CASE StartDone
      <3>1. hpart \in Parts /\ 0 \in Offsets(hpart) /\ Payload \in Payloads
        BY <2>4, ChunkLenType DEF StartDone, TInv, ToolKnowsWhat, Parts, Payload, Payloads
      <3> QED BY <2>4, <3>1 DEF StartDone, SendChunk
    <2>5. CASE ChunkDone
      <3>1. hpart \in Parts /\ Payload \in Payloads
        BY <2>5 DEF ChunkDone, TInv, ToolKnowsWhat, Parts, Payload, Payloads
      <3>2. hcrc' \in Crcs
        BY DEF TInv, TypeOK, HostTypeOK
      <3> QED BY <2>5, <3>1, <3>2 DEF ChunkDone, SendChunk
    <2>6. CASE SlotDone
      BY <2>6 DEF SlotDone, StartPartition
    <2>7. CASE BootFromDone
      BY <2>7 DEF BootFromDone
    <2> QED BY <1>1, <2>1, <2>2, <2>3, <2>4, <2>5, <2>6, <2>7 DEF Host, HostStep
  <1>2. CASE Run
    BY <1>2 DEF Run, RunTool, Slots
  <1>3. CASE Timeout \/ Stop
    BY <1>3 DEF Timeout, TimedOut, QuerySlotB, Stop, Interrupt, linkVars, Slots
  <1> QED BY <1>1, <1>2, <1>3

\* A partition is started in two places only.
LEMMA HostStarts ==
    ASSUME TInv, TInv', Host \/ Run \/ Timeout \/ Stop
    PROVE  \/ UNCHANGED toDev
           \/ \E m \in Requests :
                /\ Request(m) /\ Range(toDev') = Range(toDev) \cup {m}
                /\ m = Start("BOOT") => SlotDone
                /\ \A s \in Slots : m = Start(s) => InfoBDone /\ s = target'
  <1>1. \A p, q : Start(p) = Start(q) => p = q
    BY DEF Start
  <1>2. /\ Restart \in Requests /\ Start("BOOT") \in Requests
        /\ \A s \in Slots : GetInfo(s) \in Requests /\ Start(s) \in Requests
        /\ \A p \in Parts, w \in Payloads : \A k \in Offsets(p) : Chunk(p, k, w) \in Requests
        /\ \A c \in Crcs : Finalize(c) \in Requests
    BY MessagesTyped DEF Slots, Parts
  <1>3. \A p : /\ Restart # Start(p) /\ \A s : GetInfo(s) # Start(p)
               /\ \A q, k, w : Chunk(q, k, w) # Start(p)
               /\ \A c : Finalize(c) # Start(p)
    BY DEF Restart, Start, GetInfo, Chunk, Finalize
  <1>4. "BOOT" \notin Slots
    BY DEF Slots
  <1>5. \A m \in Requests : Request(m) => Range(toDev') = Range(toDev) \cup {m}
    BY ChannelElements DEF Request, TInv, TypeOK, LinkTypeOK
  <1>6. \/ UNCHANGED toDev
        \/ \E m \in Requests :
            /\ Request(m)
            /\ m = Start("BOOT") => SlotDone
            /\ \A s \in Slots : m = Start(s) => InfoBDone /\ s = target'
    BY <1>1, <1>2, <1>3, <1>4, HostSends
  <1> QED BY <1>5, <1>6

\* A step of the tool: it asks for BOOTFROM only after its slot.
LEMMA HostRInv ==
    ASSUME RInv, IInv', SInv', Host \/ Run \/ Timeout \/ Stop
    PROVE  BootFromInv'
  <1> USE DEF RInv, BootFromInv
  <1>1. /\ TInv /\ toDev \in Seq(Requests)
        /\ TInv' /\ toDev' \in Seq(Requests)
        /\ UNCHANGED <<flash, mode, sess, op>>
    BY DEF IInv, TInv, TypeOK, LinkTypeOK, Host, Run, Timeout, Stop, deviceVars
  <1>4. EraseIsRequested'
    <2>1. op # "idle" => toDev # <<>>
      BY <1>1 DEF TInv, HandlerHasRequest
    <2>2. toDev # <<>> => Head(toDev') = Head(toDev)
      BY <1>1, HostStarts DEF Request
    <2> QED BY <1>1, <2>1, <2>2 DEF EraseIsRequested
  <1>5. ShortQueue'
    <2> SUFFICES ASSUME mode = "run" PROVE Len(toDev') <= 1 \/ \A m \in Range(toDev') : m.type = "GetInfo"
      BY <1>1 DEF ShortQueue
    <2>1. CASE hpc' # "idle" /\ ~failed'
      <3>1. toDev' = <<>> \/ toDev' = <<Awaited'>>
        BY <1>1, <2>1 DEF SInv, OneOutstanding
      <3>2. \A m : Len(<<m>>) <= 1 /\ Len(<<>>) <= 1
        OBVIOUS
      <3>3. CASE toDev' = <<>>
        BY <3>2, <3>3
      <3>4. ASSUME NEW m, toDev' = <<m>> PROVE Len(toDev') <= 1
        BY <3>2, <3>4
      <3> QED BY <3>1, <3>3, <3>4
    <2>2. CASE failed'
      BY <1>1, <2>2 DEF SInv, RunIsRegular, IInv, AskingIsHarmless
    <2>3. CASE hpc' = "idle" /\ UNCHANGED toDev
      BY <2>3 DEF ShortQueue
    <2>4. CASE Request(Restart) /\ BootFromDone
      <3>1. toDev = <<>>
        BY <1>1, <2>4, Synchronous DEF BootFromDone, SInv, RunIsRegular
      <3>2. Len(Append(<<>>, Restart)) = 1
        OBVIOUS
      <3> QED BY <2>4, <3>1, <3>2 DEF Request
    <2> QED BY <1>1, <2>1, <2>2, <2>3, <2>4, HostSends
  <1>6. BootFromIsLast'
    <2> SUFFICES ASSUME mode = "run", sess = "BOOT" \/ Start("BOOT") \in Range(toDev')
                 PROVE  BothWhole'
      BY <1>1 DEF BootFromIsLast
    <2>1. SlotDone => BothWhole
      <3> SUFFICES ASSUME SlotDone PROVE BothWhole
        OBVIOUS
      <3>1. /\ Holds(flash, target, himage) /\ himage \in Images /\ target \in Slots
            /\ Intact(flash, Other(target))
        BY <1>1 DEF SlotDone, SInv, Progress, Answered, TInv, ToolKnowsWhat, Payload,
           IInv, WritingIsConfined, Confined
      <3>2. \A s \in Slots : s = target \/ s = Other(target)
        BY <3>1 DEF Slots, Other
      <3> QED BY <3>1, <3>2, ImageAssumption DEF BothWhole, Intact
    <2>2. sess = "BOOT" \/ Start("BOOT") \in Range(toDev) \/ SlotDone
      BY <1>1, HostStarts
    <2>3. BothWhole
      BY <2>1, <2>2 DEF BootFromIsLast
    <2> QED BY <1>1, <2>3, WholeKept
  <1> QED BY <1>4, <1>5, <1>6

LEMMA LoseRInv == ASSUME RInv, Lose PROVE BootFromInv'
  <1> USE DEF RInv, BootFromInv
  <1>1. /\ TInv /\ toDev \in Seq(Requests) /\ UNCHANGED <<flash, mode, sess, op>>
        /\ UNCHANGED toDev \/ (op = "idle" /\ toDev # <<>> /\ toDev' = Tail(toDev))
    BY DEF Lose, LoseRequest, LoseReply, deviceVars, IInv, TInv, TypeOK, LinkTypeOK
  <1>2. EraseIsRequested'
    BY <1>1 DEF EraseIsRequested
  <1>3. Range(toDev') \subseteq Range(toDev) /\ Len(toDev') \in Nat /\ Len(toDev) \in Nat /\ Len(toDev') <= Len(toDev)
    <2>1. CASE UNCHANGED toDev
      BY <1>1, <2>1, ChannelLength
    <2>2. CASE toDev # <<>> /\ toDev' = Tail(toDev)
      BY <1>1, <2>2, ChannelElements, ChannelLength
    <2> QED BY <1>1, <2>1, <2>2
  <1>4. ShortQueue'
    BY <1>1, <1>3 DEF ShortQueue
  <1>5. BootFromIsLast'
    BY <1>1, <1>3, WholeKept DEF BootFromIsLast
  <1> QED BY <1>2, <1>4, <1>5

LEMMA InitRInv == Init => RInv
  <1> SUFFICES ASSUME Init PROVE RInv
    OBVIOUS
  <1>1. mode = "off" /\ op = "idle"
    BY DEF Init, DeviceInit
  <1> QED BY <1>1, InitIInv, InitSInv DEF RInv, BootFromInv, ShortQueue, EraseIsRequested, BootFromIsLast

LEMMA StutterRInv ==
    ASSUME RInv, UNCHANGED vars PROVE BootFromInv'
  BY DEF RInv, BootFromInv, ShortQueue, EraseIsRequested, BootFromIsLast, BothWhole, Holds, vars, deviceVars, linkVars

LEMMA NextRInv == ASSUME ~FlashFaults, ~PromptRerun PROVE RInv /\ [Next]_vars => RInv'
  <1> SUFFICES ASSUME RInv, [Next]_vars PROVE RInv'
    OBVIOUS
  <1>1. IInv' /\ SInv'
    BY NextIInv, NextSInv DEF RInv
  <1>2. BootFromInv'
    BY <1>1, DeviceRInv, HostRInv, LoseRInv, StutterRInv DEF Next
  <1> QED BY <1>1, <1>2 DEF RInv

--------------------------------------------------------------------------------
(* What a slot holds.                                                       *)

\* The words of a file tell it from every other.
LEMMA FirmwareIs ==
    ASSUME NEW f, NEW s \in Slots, NEW v \in Images, Holds(f, s, v)
    PROVE  Firmware(f, s) = v
  <1>1. 1 \in Cells(s)
    BY PartitionSize DEF Parts
  <1>2. \A u \in Images : Holds(f, s, u) => u = v
    BY <1>1 DEF Holds, WordOf
  <1> QED BY <1>2 DEF Firmware

LEMMA FirmwareType ==
    ASSUME NEW f, NEW s \in Slots
    PROVE  \/ Firmware(f, s) \in Images /\ Holds(f, s, Firmware(f, s))
           \/ Firmware(f, s) = "partial" /\ ~ \E v \in Images : Holds(f, s, v)
  BY FirmwareIs DEF Firmware

LEMMA FirmwareGood ==
    ASSUME NEW f, NEW s \in Slots
    PROVE  Firmware(f, s) \in GoodImages <=> Intact(f, s)
  BY FirmwareIs, FirmwareType, PartialAssumption, ImageAssumption DEF Intact

\* A slot whose words are what they were holds what it held.
LEMMA FirmwareKept ==
    ASSUME NEW f, NEW g, NEW s \in Slots, \A c \in Cells(s) : g[s][c] = f[s][c]
    PROVE  Firmware(g, s) = Firmware(f, s)
  <1>1. \A v : Holds(f, s, v) <=> Holds(g, s, v)
    BY DEF Holds
  <1> QED BY <1>1, FirmwareIs, FirmwareType

\* A slot with an erased word holds no firmware.
LEMMA ErasedIsPartial ==
    ASSUME NEW f, NEW s \in Slots, NEW c \in Cells(s), f[s][c] = Erased
    PROVE  Firmware(f, s) = "partial"
  <1>1. \A v \in Images : WordOf(v, c) # Erased
    BY ImageAssumption DEF WordOf
  <1> QED BY <1>1, FirmwareType DEF Holds

\* An erase damages the slot, or finds nothing in it to erase.
LEMMA WipedFirmware ==
    ASSUME NEW f \in FlashType, NEW s \in Slots, NEW cells
    PROVE  Firmware(Wiped(f, s, cells), s) \in {Firmware(f, s), "partial"}
  <1> DEFINE g == Wiped(f, s, cells)
  <1>1. Cells(s) \subseteq Cells("A")
    BY DEF Cells, Pages, Slots
  <1>2. \A c \in Cells(s) : g[s][c] = IF c \in cells THEN Erased ELSE f[s][c]
    BY <1>1 DEF Wiped, FlashType, Parts
  <1> HIDE DEF g
  <1>3. CASE \E c \in Cells(s) : c \in cells
    <2>1. Firmware(g, s) = "partial"
      BY <1>2, <1>3, ErasedIsPartial
    <2> QED BY <2>1 DEF g
  <1>4. CASE ~ \E c \in Cells(s) : c \in cells
    <2>1. \A c \in Cells(s) : g[s][c] = f[s][c]
      BY <1>2, <1>4
    <2>2. Firmware(g, s) = Firmware(f, s)
      BY <2>1, FirmwareKept
    <2> QED BY <2>2 DEF g
  <1> QED BY <1>3, <1>4

\* A word that is programmed completes a firmware, or changes nothing.
LEMMA ProgrammedFirmware ==
    ASSUME NEW f \in FlashType, NEW s \in Slots, NEW c, NEW word
    PROVE  \/ Firmware(Programmed(f, s, c, word), s) = Firmware(f, s)
           \/ /\ Firmware(f, s) = "partial"
              /\ Firmware(Programmed(f, s, c, word), s) \in Images
  <1> DEFINE g == Programmed(f, s, c, word)
  <1>1. Cells(s) \subseteq Cells("A")
    BY DEF Cells, Pages, Slots
  <1>2. \A k \in Cells(s) : k # c \/ f[s][c] # Erased => g[s][k] = f[s][k]
    BY <1>1 DEF Programmed, FlashType, Parts
  <1> HIDE DEF g
  <1>3. CASE c \in Cells(s) /\ f[s][c] = Erased
    <2>1. Firmware(f, s) = "partial"
      BY <1>3, ErasedIsPartial
    <2>2. Firmware(g, s) \in Images \/ Firmware(g, s) = "partial"
      BY FirmwareType
    <2> QED BY <2>1, <2>2 DEF g
  <1>4. CASE ~(c \in Cells(s) /\ f[s][c] = Erased)
    <2>1. \A k \in Cells(s) : g[s][k] = f[s][k]
      BY <1>2, <1>4
    <2>2. Firmware(g, s) = Firmware(f, s)
      BY <2>1, FirmwareKept
    <2> QED BY <2>2 DEF g
  <1> QED BY <1>3, <1>4

--------------------------------------------------------------------------------
(* The actions of ABUpdate under the mapping.                               *)

slotBar == [s \in Slots |-> Firmware(flash, s)]
preferBar == FirstChoice(flash)
runningBar == IF mode = "run" THEN running ELSE None

LEMMA AbstractStutter ==
    ASSUME UNCHANGED <<slotBar, preferBar, runningBar>>
    PROVE  UNCHANGED AB!vars
  BY DEF AB!vars, slotBar, preferBar, runningBar

LEMMA AbstractStop ==
    ASSUME UNCHANGED <<slotBar, preferBar>>, runningBar' = None
    PROVE  AB!Next
  BY DEF AB!Next, AB!Stop, AB!None, None, slotBar, preferBar, runningBar

LEMMA AbstractDamage ==
    ASSUME NEW s \in Slots, Intact(flash, Other(s)), UNCHANGED preferBar,
           slotBar' = [slotBar EXCEPT ![s] = "partial"], runningBar' \in {runningBar, None}
    PROVE  AB!Next
  <1>1. slotBar[Other(s)] \in GoodImages
    BY OtherSlot, FirmwareGood DEF slotBar
  <1>2. AB!Slots = Slots /\ AB!Other(s) = Other(s)
    BY DEF AB!Slots, Slots, AB!Other, Other
  <1>3. AB!Damage(s)
    BY <1>1, <1>2
       DEF AB!Damage, AB!Good, AB!Partial, AB!MayStop, AB!None, None, slotBar, preferBar, runningBar
  <1> QED BY <1>2, <1>3 DEF AB!Next

LEMMA AbstractStore ==
    ASSUME NEW s \in Slots, slotBar[s] = "partial", UNCHANGED <<preferBar, runningBar>>,
           NEW v \in Images, slotBar' = [slotBar EXCEPT ![s] = v]
    PROVE  AB!Next
  <1>1. AB!Slots = Slots
    BY DEF AB!Slots, Slots
  <1>2. AB!Store(s)
    BY DEF AB!Store, AB!Partial, slotBar, preferBar, runningBar
  <1> QED BY <1>1, <1>2 DEF AB!Next

LEMMA AbstractPrefer ==
    ASSUME BothWhole, UNCHANGED slotBar, runningBar' \in {runningBar, None}
    PROVE  AB!Next
  <1>1. AB!Slots = Slots
    BY DEF AB!Slots, Slots
  <1>2. PICK s \in Slots : s = preferBar'
    BY DEF preferBar, FirstChoice, Slots
  <1>3. slotBar[s] # "partial"
    BY FirmwareType, PartialAssumption DEF BothWhole, slotBar
  <1>4. AB!Prefer(s)
    BY <1>2, <1>3 DEF AB!Prefer, AB!Partial, AB!MayStop, AB!None, None, slotBar, preferBar, runningBar
  <1> QED BY <1>1, <1>4 DEF AB!Next

--------------------------------------------------------------------------------
(* The steps of the system.                                                 *)

\* A factory-programmed device holds one good build twice, and prefers APP_A.
LEMMA InitRefines == Init => AB!Init
  <1> SUFFICES ASSUME Init PROVE AB!Init
    OBVIOUS
  <1>1. PICK v \in GoodImages : flash = FactoryFlash(v)
    BY DEF Init, DeviceInit
  <1>2. ASSUME NEW s \in Slots PROVE Firmware(flash, s) = v
    <2>1. Cells(s) = Cells("A") /\ s \in Parts /\ s # "BOOT"
      BY DEF Cells, Pages, Parts, Slots
    <2>2. Holds(flash, s, v)
      BY <1>1, <2>1 DEF FactoryFlash, Holds
    <2> QED BY <2>2, FirmwareIs, ImageAssumption
  <1>3. FirstChoice(flash) = "A"
    <2>1. "BOOT" \in Parts /\ 2 \in Cells("BOOT") /\ 2 \in Cells("A")
      BY PartitionSize DEF Parts
    <2>2. flash["BOOT"][2] = WordOf("A", 2)
      BY <1>1, <2>1 DEF FactoryFlash
    <2>3. "A" \notin Images
      BY ImageAssumption DEF Parts, Slots
    <2> QED BY <2>2, <2>3 DEF FirstChoice, WordOf, ActiveCell, MagicCell
  <1>4. mode = "off"
    BY DEF Init, DeviceInit
  <1>5. AB!Slots = Slots
    BY DEF AB!Slots, Slots
  <1> QED BY <1>2, <1>3, <1>4, <1>5 DEF AB!Init, AB!None, None

\* What a step of the device may do to flash.
LEMMA FlashStep ==
    ASSUME TInv, Device \/ Crash
    PROVE  \/ UNCHANGED flash
           \/ /\ mode = "run" /\ op # "idle" /\ sess \in Parts
              /\ \/ \E cells : flash' = Wiped(flash, sess, cells)
                 \/ /\ UNCHANGED <<mode, running>>
                    /\ \E c, word : flash' = Programmed(flash, sess, c, word)
  <1>1. op # "idle" => sess \in Parts
    BY DEF TInv, HandlerHasRequest
  <1>2. CASE Boot \/ GetFirmwareInfo \/ StartFirmwareUpgrade \/ FirmwareChunk
             \/ FinalizeFirmwareUpgrade \/ RestartDevice \/ EraseFault
    BY <1>2 DEF Boot, GetFirmwareInfo, StartFirmwareUpgrade, FirmwareChunk,
                FinalizeFirmwareUpgrade, RestartDevice, EraseFault, deviceVars
  <1>3. CASE ErasePage \/ EraseOwnCode
    BY <1>1, <1>3 DEF ErasePage, EraseOwnCode
  <1>4. CASE ProgramWord
    BY <1>1, <1>4 DEF ProgramWord
  <1>5. CASE Crash
    BY <1>1, <1>5 DEF Crash, PowerLoss
  <1> QED BY <1>2, <1>3, <1>4, <1>5 DEF Device, DeviceStep

\* Whatever the device does, the code that runs goes on or stops, except when
\* the bootloader starts it.
LEMMA RunningStep == ASSUME TInv, Device \/ Crash PROVE Boot \/ runningBar' \in {runningBar, None}
  <1> SUFFICES ASSUME ~Boot PROVE runningBar' \in {runningBar, None}
    OBVIOUS
  <1>1. UNCHANGED <<mode, running>> \/ mode' # "run"
    BY DEF Device, DeviceStep, GetFirmwareInfo, StartFirmwareUpgrade, FirmwareChunk,
       FinalizeFirmwareUpgrade, RestartDevice, PowerOff, ErasePage, EraseOwnCode, EraseFault, ProgramWord,
       Crash, PowerLoss, deviceVars
  <1> QED BY <1>1 DEF runningBar

\* The bootloader starts the preferred slot if it is good, else the other one,
\* or none.
LEMMA BootRefines == ASSUME TInv, Boot PROVE AB!Next \/ UNCHANGED AB!vars
  <1>1. /\ mode = "off" /\ UNCHANGED flash /\ running' = BootOutcome(flash)
        /\ mode' = IF running' = None THEN "dead" ELSE "run"
    BY DEF Boot
  <1>2. UNCHANGED <<slotBar, preferBar>> /\ runningBar = None /\ runningBar' = BootOutcome(flash)
    BY <1>1 DEF slotBar, preferBar, runningBar
  <1>3. CASE BootOutcome(flash) = None
    BY <1>2, <1>3, AbstractStutter
  <1>4. CASE BootOutcome(flash) # None
    <2>1. PICK s \in Slots : s = BootOutcome(flash)
      BY <1>4, BootOutcomeType
    <2>2. Intact(flash, s) /\ (s = FirstChoice(flash) \/ ~Intact(flash, Other(s)))
      <3>1. FirstChoice(flash) \in Slots
        BY DEF FirstChoice, Slots
      <3>2. Other(Other(FirstChoice(flash))) = FirstChoice(flash)
        BY <3>1, OtherSlot
      <3> QED BY <1>4, <2>1, <3>2 DEF BootOutcome
    <2>3. AB!Slots = Slots /\ AB!Other(s) = Other(s) /\ Other(s) \in Slots
      BY OtherSlot DEF AB!Slots, Slots, AB!Other, Other
    <2>4. /\ Firmware(flash, s) \in GoodImages
          /\ s = FirstChoice(flash) \/ Firmware(flash, Other(s)) \notin GoodImages
      BY <2>2, <2>3, FirmwareGood
    <2>5. AB!Boot(s)
      BY <1>2, <2>1, <2>3, <2>4 DEF AB!Boot, AB!Good, AB!None, None, slotBar, preferBar, runningBar
    <2> QED BY <2>3, <2>5 DEF AB!Next
  <1> QED BY <1>3, <1>4

\* A step of the device that writes a slot damages it or completes it.
LEMMA SlotRefines ==
    ASSUME RInv, Device \/ Crash, ~Boot, NEW s \in Slots, s = sess, mode = "run", op # "idle",
           \/ \E cells : flash' = Wiped(flash, sess, cells)
           \/ /\ UNCHANGED <<mode, running>>
              /\ \E c, word : flash' = Programmed(flash, sess, c, word)
    PROVE  AB!Next \/ UNCHANGED AB!vars
  <1>1. flash \in FlashType /\ TInv
    BY DEF RInv, IInv, TInv, TypeOK, DeviceTypeOK
  <1>2. runningBar' \in {runningBar, None}
    BY <1>1, RunningStep
  <1>3. Intact(flash, Other(s))
    <2>1. PICK t \in Slots : Confined(t)
      BY DEF RInv, IInv
    <2>2. sess # Other(t)
      BY <2>1 DEF Confined
    <2>3. s = t
      BY <2>2 DEF Slots, Other
    <2> QED BY <2>1, <2>3 DEF Confined
  <1>4. UNCHANGED preferBar /\ Firmware(flash', Other(s)) = Firmware(flash, Other(s))
    <2>1. ASSUME NEW p \in Parts, p # s PROVE flash'[p] = flash[p]
      BY <1>1, <2>1 DEF Wiped, Programmed, FlashType
    <2>2. "BOOT" \in Parts /\ "BOOT" # s /\ Other(s) \in Slots /\ Other(s) \in Parts /\ Other(s) # s
      BY OtherSlot DEF Parts, Slots
    <2>3. \A c \in Cells(Other(s)) : flash'[Other(s)][c] = flash[Other(s)][c]
      BY <2>1, <2>2
    <2>4. Firmware(flash', Other(s)) = Firmware(flash, Other(s))
      BY <2>2, <2>3, FirmwareKept
    <2> QED BY <2>1, <2>2, <2>4 DEF preferBar, FirstChoice
  <1>5. slotBar' = [slotBar EXCEPT ![s] = Firmware(flash', s)]
    <2>1. \A t \in Slots : t = s \/ t = Other(s)
      BY DEF Slots, Other
    <2> QED BY <1>4, <2>1, OtherSlot DEF slotBar
  <1>6. slotBar[s] = Firmware(flash, s)
    BY DEF slotBar
  <1>7. CASE Firmware(flash', s) = Firmware(flash, s)
    <2>1. UNCHANGED slotBar
      BY <1>5, <1>6, <1>7 DEF slotBar
    <2> QED BY <1>2, <1>4, <2>1, AbstractStutter, AbstractStop
  <1>8. CASE Firmware(flash', s) = "partial"
    BY <1>2, <1>3, <1>4, <1>5, <1>8, AbstractDamage
  <1>9. ASSUME NEW c, NEW word, flash' = Programmed(flash, s, c, word), UNCHANGED <<mode, running>>,
               Firmware(flash, s) = "partial", Firmware(flash', s) \in Images
        PROVE  AB!Next
    <2>1. UNCHANGED runningBar
      BY <1>9 DEF runningBar
    <2> QED BY <1>4, <1>5, <1>6, <1>9, <2>1, AbstractStore
  <1> QED BY <1>1, <1>7, <1>8, <1>9, WipedFirmware, ProgrammedFirmware

\* A step of the device that writes BOOTFROM moves the preference, between
\* slots that are whole.
LEMMA BootFromRefines ==
    ASSUME RInv, Device \/ Crash, ~Boot, sess = "BOOT", mode = "run", op # "idle"
    PROVE  AB!Next
  <1>1. TInv /\ BothWhole
    BY DEF RInv, BootFromInv, IInv, BootFromIsLast
  <1>2. \A s \in Slots : flash'[s] = flash[s]
    BY <1>1, WritesStayInSession DEF Slots
  <1>3. UNCHANGED slotBar
    BY <1>2, FirmwareKept DEF slotBar
  <1> QED BY <1>1, <1>3, RunningStep, AbstractPrefer

LEMMA NextRefines == RInv /\ [Next]_vars => [AB!Next]_(AB!vars)
  <1> SUFFICES ASSUME RInv, [Next]_vars PROVE AB!Next \/ UNCHANGED AB!vars
    OBVIOUS
  <1>1. TInv
    BY DEF RInv, IInv
  <1>2. CASE UNCHANGED <<flash, mode, running>>
    BY <1>2, AbstractStutter DEF slotBar, preferBar, runningBar
  <1>3. CASE Boot
    BY <1>1, <1>3, BootRefines
  <1>4. ASSUME Device \/ Crash, ~Boot PROVE AB!Next \/ UNCHANGED AB!vars
    <2>1. CASE UNCHANGED flash
      <3>1. UNCHANGED <<slotBar, preferBar>>
        BY <2>1 DEF slotBar, preferBar
      <3> QED BY <1>1, <1>4, <3>1, RunningStep, AbstractStutter, AbstractStop
    <2>2. CASE ~UNCHANGED flash /\ sess = "BOOT"
      BY <1>1, <1>4, <2>2, FlashStep, BootFromRefines
    <2>3. CASE ~UNCHANGED flash /\ sess # "BOOT"
      <3>1. PICK s \in Slots : s = sess
        BY <1>1, <1>4, <2>3, FlashStep DEF Parts
      <3> QED BY <1>1, <1>4, <2>3, <3>1, FlashStep, SlotRefines
    <2> QED BY <2>1, <2>2, <2>3
  <1>5. Device \/ Crash \/ UNCHANGED <<flash, mode, running>>
    BY DEF Next, Host, Run, Timeout, Stop, Lose, vars, deviceVars
  <1> QED BY <1>2, <1>3, <1>4, <1>5

\* BOOTFROM is touched only while both slots are whole, and a handler that
\* writes is not followed by another request.
THEOREM BootFromCorrect == ASSUME ~FlashFaults, ~PromptRerun PROVE Spec => []BootFromInv
  <1>1. RInv /\ [Next]_vars => RInv'
    BY NextRInv
  <1>2. RInv => BootFromInv
    BY DEF RInv
  <1> QED BY <1>1, <1>2, InitRInv, PTL DEF Spec

\* With a flash that does not fail and a tool that waits before it is started
\* again, the protocol of messages, pages and words is A/B updating, for any
\* layout, files and number of runs and failures: a slot is damaged only while
\* the other one is good, BOOTFROM is rewritten only while both slots are whole,
\* and the bootloader starts the preferred slot if it is good.
THEOREM Refinement == ASSUME ~FlashFaults, ~PromptRerun PROVE Spec => ImplementsAB
  <1>1. RInv /\ [Next]_vars => RInv'
    BY NextRInv
  <1> QED BY <1>1, InitRInv, InitRefines, NextRefines, PTL DEF Spec, ImplementsAB, AB!Spec

--------------------------------------------------------------------------------
(* The first update of a factory device never leaves it without running code: *)
(* APP_A, which the device started from, is not touched, and BOOTFROM turns   *)
(* away from it only when APP_B is whole.                                     *)

\* The device has a session in partition p, or a request for one.
Concerns(p) == mode = "run" /\ (sess = p \/ Start(p) \in Range(toDev))

LEMMA StartIs ==
    ASSUME NEW p \in Parts, NEW m \in Requests, m.type = "Start", m.part = p
    PROVE  m = Start(p)
  BY DEF Requests, Start

\* Only the tool turns the device to another partition.
LEMMA DeviceConcerns ==
    ASSUME TInv, Device \/ Crash, NEW p \in Parts, Concerns(p)'
    PROVE  Concerns(p)
  <1>1. Device
    BY DEF Crash, PowerLoss, PowerOff, Concerns
  <1>2. mode' = "run" /\ (sess' = p \/ Start(p) \in Range(toDev'))
    BY DEF Concerns
  <1>3. Range(toDev') \subseteq Range(toDev) /\ Range(toDev) \subseteq Requests
    BY <1>1, DeviceMessages, ChannelElements DEF TInv, TypeOK, LinkTypeOK
  <1>4. mode = "run"
    <2>1. Range(<<>>) = {}
      BY DEF Range
    <2>2. None # p
      BY DEF None, Parts, Slots
    <2> QED BY <1>1, <1>2, <2>1, <2>2, DeviceSession
  <1>5. sess = p \/ Start(p) \in Range(toDev)
    BY <1>1, <1>2, <1>3, <1>4, DeviceSession, StartIs
  <1> QED BY <1>4, <1>5 DEF Concerns

\* Flash is written only in the partition of the session.
LEMMA PartKept ==
    ASSUME TInv, Device \/ Crash, NEW p \in Parts, flash'[p] # flash[p]
    PROVE  Concerns(p) /\ sess = p /\ op # "idle"
  <1>1. flash \in FlashType
    BY DEF TInv, TypeOK, DeviceTypeOK
  <1>2. /\ mode = "run" /\ op # "idle" /\ sess \in Parts
        /\ \/ \E cells : flash' = Wiped(flash, sess, cells)
           \/ \E c, word : flash' = Programmed(flash, sess, c, word)
    BY FlashStep
  <1>3. \A cells : sess # p => Wiped(flash, sess, cells)[p] = flash[p]
    BY <1>1, <1>2 DEF Wiped, FlashType
  <1>4. \A c, word : sess # p => Programmed(flash, sess, c, word)[p] = flash[p]
    BY <1>1, <1>2 DEF Programmed, FlashType
  <1> QED BY <1>2, <1>3, <1>4 DEF Concerns

\* What runs goes on until it stops, and only the bootloader starts a slot.
LEMMA RunsOn ==
    ASSUME TInv, Device \/ Crash
    PROVE  Boot \/ UNCHANGED <<mode, running>> \/ EraseOwnCode \/ mode' = "off"
  BY DEF Device, DeviceStep, GetFirmwareInfo, StartFirmwareUpgrade, FirmwareChunk,
     FinalizeFirmwareUpgrade, RestartDevice, PowerOff, ErasePage, EraseFault, ProgramWord,
     Crash, PowerLoss, deviceVars

--------------------------------------------------------------------------------
\* The first run of the tool on a device that works, one step later.
FirstRun == RInv /\ FirstRunInv /\ runs <= 1

\* A partition that is being written is the only one the device is asked for.
LEMMA WrittenIsAlone ==
    ASSUME FirstRun, Device \/ Crash, NEW p \in Parts, NEW q \in Parts, p # q,
           flash'[p] # flash[p]
    PROVE  ~Concerns(q)
  <1>1. TInv /\ BootFromInv
    BY DEF FirstRun, RInv, IInv
  <1>2. mode = "run" /\ op # "idle" /\ sess = p
    BY <1>1, PartKept DEF Concerns
  <1> QED BY <1>1, <1>2, WriterIsAlone DEF Concerns

LEMMA DeviceFirst == ASSUME FirstRun, Device \/ Crash PROVE FirstRunInv'
  <1>1. TInv /\ IInv /\ SInv /\ BootFromInv
    BY DEF FirstRun, RInv, IInv
  <1>2. /\ FactorySlotStays /\ WrittenWhileSpare /\ FactoryBoots
        /\ mode \in {"off", "run"} /\ (runs = 0 => hpc = "idle")
        /\ FirstChoice(flash) = "B" => \E v \in Images : Holds(flash, "B", v)
    BY DEF FirstRun, FirstRunInv
  <1>3. UNCHANGED <<hpc, hpart, base, target, runs>>
    BY DEF Device, Crash, hostVars, session
  <1>4. \A p \in Parts : Concerns(p)' => Concerns(p)
    BY <1>1, DeviceConcerns
  <1>5. "A" \in Parts /\ "B" \in Parts /\ "BOOT" \in Parts /\ "A" # "B" /\ "BOOT" # "B" /\ Slots = {"A", "B"}
    BY DEF Parts, Slots
  <1>6. ~Concerns("A") /\ flash'["A"] = flash["A"] /\ Intact(flash, "A") /\ Intact(flash', "A")
    <2>1. ~Concerns("A")
      BY <1>2 DEF FactorySlotStays, Concerns
    <2>2. flash'["A"] = flash["A"]
      BY <1>1, <1>5, <2>1, PartKept
    <2> QED BY <1>2, <1>5, <2>1, <2>2, IntactKept DEF FactorySlotStays
  <1>7. mode' \in {"off", "run"}
    <2>1. CASE Boot
      <3>1. BootOutcome(flash) # None
        <4>1. CASE FirstChoice(flash) = "A"
          BY <1>6, <4>1 DEF BootOutcome, None
        <4>2. CASE FirstChoice(flash) = "B"
          <5>1. PICK v \in Images : Holds(flash, "B", v)
            BY <1>2, <4>2
          <5>2. SizeCell \in Cells("B") /\ v # Erased
            BY <1>5, PartitionSize, ImageAssumption DEF SizeCell
          <5>3. ~HalfWritten(flash, "B")
            BY <5>1, <5>2 DEF Holds, WordOf, HalfWritten
          <5> QED BY <1>6, <4>2, <5>3 DEF BootOutcome, None, Other
        <4> QED BY <4>1, <4>2 DEF FirstChoice
      <3> QED BY <2>1, <3>1 DEF Boot
    <2>2. ~EraseOwnCode
      <3> SUFFICES ASSUME EraseOwnCode PROVE FALSE
        OBVIOUS
      <3>1. mode = "run" /\ sess = running /\ running \in Slots
        BY <1>1 DEF EraseOwnCode, TInv, ResetClears
      <3> QED BY <1>2, <1>5, <3>1 DEF FactorySlotStays, WrittenWhileSpare
    <2> QED BY <1>1, <1>2, <2>1, <2>2, RunsOn
  <1>8. FactorySlotStays'
    <2>1. ASSUME hpc = "infoA", NEW m \in Range(toHost') PROVE m.base = "A"
      <3>1. \A n \in Range(toHost) : n.base = "A"
        BY <1>2, <2>1 DEF FactorySlotStays
      <3>2. mode = "run" => running = "A"
        <4>1. hpart = None /\ None # "BOOT"
          BY <1>1, <2>1 DEF SInv, RunIsRegular, Writing, None
        <4> QED BY <1>2, <2>1, <4>1 DEF FactoryBoots
      <3>3. mode = "run" => op = "idle" /\ \A r \in Range(toDev) : r.type = "GetInfo"
        BY <1>1, <2>1 DEF IInv, AskingIsHarmless
      <3>4. Info("A").base = "A"
        BY DEF Info
      <3>5. CASE Crash
        BY <2>1, <3>1, <3>5 DEF Crash, PowerLoss
      <3>6. CASE Device
        BY <1>1, <2>1, <3>1, <3>2, <3>3, <3>4, <3>6, DeviceMessages
      <3> QED BY <3>5, <3>6
    <2>2. ~Concerns("A")'
      BY <1>4, <1>5, <1>6
    <2> QED BY <1>2, <1>3, <1>6, <2>1, <2>2 DEF FactorySlotStays, Concerns
  <1>9. mode' = "run" => UNCHANGED <<mode, running>> \/ (Boot /\ UNCHANGED flash)
    <2>1. EraseOwnCode => mode' = "hung"
      BY DEF EraseOwnCode
    <2>2. Boot => UNCHANGED flash
      BY DEF Boot
    <2> QED BY <1>1, <2>1, <2>2, RunsOn
  <1>10. WrittenWhileSpare'
    <2> SUFFICES ASSUME Concerns("B")' PROVE running' = "A" /\ FirstChoice(flash') = "A"
      BY DEF WrittenWhileSpare, Concerns
    <2>1. Concerns("B") /\ mode = "run" /\ running = "A" /\ FirstChoice(flash) = "A"
      BY <1>2, <1>4, <1>5 DEF WrittenWhileSpare, Concerns
    <2>2. flash'["BOOT"] = flash["BOOT"]
      BY <1>5, <2>1, WrittenIsAlone
    <2>3. running' = running
      BY <1>9, <2>1 DEF Concerns, Boot
    <2> QED BY <2>1, <2>2, <2>3 DEF FirstChoice
  <1>11. FactoryBoots'
    <2> SUFFICES ASSUME runs = 0 \/ (hpc # "idle" /\ hpart # "BOOT")
                 PROVE  FirstChoice(flash') = "A" /\ (mode' = "run" => running' = "A" /\ ~Concerns("BOOT")')
      BY <1>3 DEF FactoryBoots, Concerns
    <2>1. FirstChoice(flash) = "A" /\ (mode = "run" => running = "A") /\ ~Concerns("BOOT")
      BY <1>2 DEF FactoryBoots, Concerns
    <2>2. FirstChoice(flash') = "A"
      BY <1>1, <1>5, <2>1, PartKept DEF FirstChoice
    <2>3. Boot => running' = "A"
      BY <1>6, <2>1 DEF Boot, BootOutcome
    <2> QED BY <1>4, <1>5, <1>9, <2>1, <2>2, <2>3
  <1>12. FirstChoice(flash') = "B" => \E v \in Images : Holds(flash', "B", v)
    <2> SUFFICES ASSUME FirstChoice(flash') = "B" PROVE \E v \in Images : Holds(flash', "B", v)
      OBVIOUS
    <2>1. \E v \in Images : Holds(flash, "B", v)
      <3>1. CASE FirstChoice(flash) = "B"
        BY <1>2, <3>1
      <3>2. CASE flash'["BOOT"] # flash["BOOT"]
        <4>1. Concerns("BOOT")
          BY <1>1, <1>5, <3>2, PartKept
        <4> QED BY <1>1, <1>5, <4>1 DEF BootFromInv, BootFromIsLast, BothWhole, Concerns
      <3> QED BY <3>1, <3>2 DEF FirstChoice
    <2>2. flash'["B"] = flash["B"]
      <3> SUFFICES ASSUME flash'["B"] # flash["B"] PROVE FALSE
        OBVIOUS
      <3>1. Concerns("B") /\ ~Concerns("BOOT")
        BY <1>1, <1>5, PartKept, WrittenIsAlone
      <3>2. FirstChoice(flash) = "A" /\ flash'["BOOT"] = flash["BOOT"]
        BY <1>1, <1>2, <1>5, <3>1, PartKept DEF WrittenWhileSpare, Concerns
      <3> QED BY <3>2 DEF FirstChoice
    <2> QED BY <2>1, <2>2 DEF Holds
  <1> QED BY <1>2, <1>3, <1>7, <1>8, <1>10, <1>11, <1>12 DEF FirstRunInv

--------------------------------------------------------------------------------
LEMMA HostFirst ==
    ASSUME FirstRun, IInv', SInv', ~PromptRerun, Host \/ Run \/ Timeout \/ Stop, runs' <= 1
    PROVE  FirstRunInv'
  <1>1. TInv /\ TInv' /\ IInv /\ SInv /\ BootFromInv
    BY DEF FirstRun, RInv, IInv
  <1>2. /\ FactorySlotStays /\ WrittenWhileSpare /\ FactoryBoots
        /\ mode \in {"off", "run"} /\ (runs = 0 => hpc = "idle")
        /\ FirstChoice(flash) = "B" => \E v \in Images : Holds(flash, "B", v)
    BY DEF FirstRun, FirstRunInv
  <1>3. UNCHANGED <<flash, mode, running, sess, op>>
    BY DEF Host, Run, Timeout, Stop, deviceVars
  <1>4. runs \in Nat
    BY <1>1, RunsAssumption DEF TInv, TypeOK, HostTypeOK
  <1>5. "A" \in Parts /\ "B" \in Parts /\ "BOOT" \in Parts /\ Slots = {"A", "B"} /\ None \notin Parts
    BY DEF Parts, Slots, None
  \* The partition the tool turns to.
  <1>6. /\ Concerns("BOOT")' => Concerns("BOOT") \/ SlotDone
        /\ \A s \in Slots : Concerns(s)' => Concerns(s) \/ (InfoBDone /\ s = target')
    BY <1>1, <1>3, HostStarts DEF Concerns
  <1>7. InfoBDone => target' = "B" /\ hpart = None /\ hpc = "infoB"
    <2> SUFFICES ASSUME InfoBDone PROVE target' = "B" /\ hpart = None /\ hpc = "infoB"
      OBVIOUS
    <2>1. hpc = "infoB" /\ ~failed /\ target' = PickTarget(base)
      BY DEF InfoBDone
    <2>2. base = "A"
      BY <1>1, <1>2, <2>1 DEF IInv, AskingIsHarmless, FactorySlotStays
    <2>3. hpart = None
      BY <1>1, <2>1 DEF SInv, RunIsRegular, Writing
    <2> QED BY <2>1, <2>2, <2>3 DEF PickTarget
  <1>8. \/ ReceiveReply /\ UNCHANGED <<hpc, hpart, target, runs>>
        \/ /\ Run /\ hpc = "idle" /\ hpc' = "infoA" /\ runs' = runs + 1 /\ toHost = <<>>
           /\ UNCHANGED <<hpart, target, base, toHost>>
        \/ hpc = "infoA" /\ hpc' = "infoB" /\ UNCHANGED <<hpart, target, base, runs>>
        \/ ToolExits
        \/ InfoBDone /\ hpart' = target' /\ hpc' = "start" /\ UNCHANGED <<base, runs>>
        \/ SlotDone /\ hpart' = "BOOT" /\ hpc' = "start" /\ hpc # "idle" /\ UNCHANGED <<base, target, runs>>
        \/ hpc \in {"start", "chunk"} /\ hpc' \in {"chunk", "final"} /\ UNCHANGED <<base, target, hpart, runs>>
    <2>1. CASE Host
      BY <2>1 DEF Host, HostStep, ReceiveReply, InfoADone, QuerySlotB, InfoBDone, StartPartition, GiveUpAfterInfo,
         StartDone, SendChunk, ChunkDone, SlotDone, BootFromDone, session
    <2>2. CASE Run
      BY <2>2 DEF Run, RunTool, Quiet, session
    <2>3. CASE Timeout \/ Stop
      BY <2>3 DEF Timeout, TimedOut, QuerySlotB, Stop, Interrupt, session
    <2> QED BY <2>1, <2>2, <2>3
  <1>9. runs' = 0 => hpc' = "idle"
    BY <1>2, <1>4, <1>7, <1>8 DEF ToolExits
  <1>10. FactorySlotStays'
    <2>1. base' \in {None, "A"} /\ (hpc' = "infoA" => \A m \in Range(toHost') : m.base = "A")
      <3>1. CASE ReceiveReply
        <4>1. /\ toHost \in Seq(Replies) /\ toHost # <<>> /\ toHost' = Tail(toHost) /\ hpc' = hpc
              /\ base' = base \/ (hpc = "infoA" /\ base' = Head(toHost).base)
          BY <1>1, <3>1 DEF ReceiveReply, TInv, TypeOK, LinkTypeOK
        <4>2. Head(toHost) \in Range(toHost) /\ Range(toHost') \subseteq Range(toHost)
          BY <4>1, ChannelElements
        <4> QED BY <1>2, <4>1, <4>2 DEF FactorySlotStays
      <3>2. CASE Run /\ hpc' = "infoA" /\ toHost = <<>> /\ UNCHANGED <<base, toHost>>
        BY <1>2, <3>2 DEF FactorySlotStays, Range
      <3>3. CASE hpc' # "infoA" /\ (UNCHANGED base \/ ToolExits)
        BY <1>2, <3>3 DEF FactorySlotStays, ToolExits
      <3> QED BY <1>8, <3>1, <3>2, <3>3 DEF ToolExits
    <2>2. target' \in {None, "B"}
      BY <1>2, <1>7, <1>8 DEF FactorySlotStays, ToolExits
    <2>3. ~Concerns("A")'
      BY <1>2, <1>5, <1>6, <1>7 DEF FactorySlotStays, Concerns
    <2>4. Intact(flash', "A")
      BY <1>2, <1>3 DEF FactorySlotStays
    <2> QED BY <2>1, <2>2, <2>3, <2>4 DEF FactorySlotStays, Concerns
  <1>11. WrittenWhileSpare'
    <2> SUFFICES ASSUME Concerns("B")' PROVE running = "A" /\ FirstChoice(flash) = "A"
      BY <1>3 DEF WrittenWhileSpare, Concerns
    <2>1. CASE Concerns("B")
      BY <1>2, <2>1 DEF WrittenWhileSpare, Concerns
    <2>2. CASE InfoBDone
      BY <1>2, <1>3, <1>5, <1>7, <2>2 DEF FactoryBoots, Concerns
    <2> QED BY <1>5, <1>6, <2>1, <2>2
  <1>12. FactoryBoots'
    <2> SUFFICES ASSUME runs' = 0 \/ (hpc' # "idle" /\ hpart' # "BOOT")
                 PROVE  FirstChoice(flash) = "A" /\ (mode = "run" => running = "A") /\ ~Concerns("BOOT")'
      BY <1>3 DEF FactoryBoots, Concerns
    <2>1. runs = 0 \/ (hpc # "idle" /\ hpart # "BOOT")
      BY <1>4, <1>5, <1>7, <1>8 DEF ToolExits
    <2>2. ~SlotDone
      BY <1>2, <1>4, <1>9 DEF SlotDone, StartPartition
    <2> QED BY <1>2, <1>6, <2>1, <2>2 DEF FactoryBoots, Concerns
  <1> QED BY <1>2, <1>3, <1>9, <1>10, <1>11, <1>12 DEF FirstRunInv

LEMMA LoseFirst == ASSUME FirstRun, Lose PROVE FirstRunInv'
  <1>1. toDev \in Seq(Requests) /\ toHost \in Seq(Replies)
    BY DEF FirstRun, RInv, IInv, TInv, TypeOK, LinkTypeOK
  <1>2. UNCHANGED <<flash, mode, running, sess, hpc, hpart, base, target, runs>>
    BY DEF Lose, deviceVars, hostVars, session
  <1>3. Range(toDev') \subseteq Range(toDev) /\ Range(toHost') \subseteq Range(toHost)
    BY <1>1, ChannelElements DEF Lose, LoseRequest, LoseReply
  <1> QED BY <1>2, <1>3 DEF FirstRun, FirstRunInv, FactorySlotStays, WrittenWhileSpare, FactoryBoots

LEMMA InitFirst == Init => FirstRunInv
  <1> SUFFICES ASSUME Init PROVE FirstRunInv
    OBVIOUS
  <1>1. PICK v \in GoodImages : flash = FactoryFlash(v)
    BY DEF Init, DeviceInit
  <1>2. Holds(flash, "A", v) /\ "A" \in Slots
    BY <1>1 DEF FactoryFlash, Holds, Cells, Pages, Parts, Slots
  <1>3. Intact(flash, "A")
    BY <1>2 DEF Intact
  <1>4. FirstChoice(flash) = "A"
    <2>1. "BOOT" \in Parts /\ 2 \in Cells("BOOT") /\ 2 \in Cells("A")
      BY PartitionSize DEF Parts
    <2>2. flash["BOOT"][2] = WordOf("A", 2)
      BY <1>1, <2>1 DEF FactoryFlash
    <2>3. "A" \notin Images
      BY ImageAssumption DEF Parts, Slots
    <2> QED BY <2>2, <2>3 DEF FirstChoice, WordOf, ActiveCell, MagicCell
  <1> QED BY <1>3, <1>4 DEF Init, DeviceInit, HostInit, FirstRunInv, FactorySlotStays, WrittenWhileSpare, FactoryBoots

LEMMA StutterFirst == ASSUME FirstRunInv, UNCHANGED vars PROVE FirstRunInv'
  BY DEF FirstRunInv, FactorySlotStays, WrittenWhileSpare, FactoryBoots, vars, deviceVars, hostVars, session, linkVars

LEMMA NextFirst ==
    ASSUME ~FlashFaults, ~PromptRerun
    PROVE  RInv /\ FirstRunInv /\ [Next]_vars => FirstRunInv'
  <1> SUFFICES ASSUME RInv, FirstRunInv, [Next]_vars, runs' <= 1 PROVE FirstRunInv'
    BY DEF FirstRunInv
  <1>1. IInv' /\ SInv'
    BY NextIInv, NextSInv DEF RInv
  <1>2. runs <= 1
    <2>1. runs \in Nat
      BY RunsAssumption DEF RInv, IInv, TInv, TypeOK, HostTypeOK
    <2>2. runs' \in {runs, runs + 1}
      BY DEF Next, Device, Host, HostStep, ReceiveReply, InfoADone, QuerySlotB, InfoBDone, StartPartition,
         GiveUpAfterInfo, StartDone, SendChunk, ChunkDone, SlotDone, BootFromDone, ToolExits, Run, RunTool,
         Timeout, TimedOut, Stop, Interrupt, Crash, Lose, vars, hostVars
    <2> QED BY <2>1, <2>2
  <1> QED BY <1>1, <1>2, DeviceFirst, HostFirst, LoseFirst, StutterFirst DEF FirstRun, Next

--------------------------------------------------------------------------------
\* During the first run of the tool the slot the device left the factory with
\* is neither asked for nor written, the other one is written only while the
\* bootloader would start the first, and BOOTFROM names it only when it is whole.
THEOREM FirstRunCorrect == ASSUME ~FlashFaults, ~PromptRerun PROVE Spec => []FirstRunInv
  <1>1. RInv /\ [Next]_vars => RInv'
    BY NextRInv
  <1>2. RInv /\ FirstRunInv /\ [Next]_vars => FirstRunInv'
    BY NextFirst
  <1> QED BY <1>1, <1>2, InitRInv, InitFirst, PTL DEF Spec

\* Wherever the power fails or a frame is lost during the first update of a
\* factory device, the bootloader ends in the code of a slot: it never reads
\* an AppInfo that was half written, and nothing erases the code that runs.
THEOREM AlwaysNeverStuck == ASSUME ~FlashFaults, ~PromptRerun PROVE Spec => []NeverStuck
  <1>1. FirstRunInv => NeverStuck
    BY DEF FirstRunInv, NeverStuck
  <1> QED BY <1>1, FirstRunCorrect, PTL
================================================================================
