----------------------------- MODULE UpgradeProofs -----------------------------
(***************************************************************************)
(* Proofs about UpgradeSystem: type correctness for every system, and that *)
(* some slot always holds a complete good build.                           *)
(***************************************************************************)
EXTENDS UpgradeInvariant, TLAPS

--------------------------------------------------------------------------------
(* Operators on flash.                                                      *)

\* WordOf yields a word of flash: what perform_upgrade sends for a partition.
LEMMA WordOfType == ASSUME NEW w \in Payloads, NEW c PROVE WordOf(w, c) \in Words
  BY DEF WordOf, Words, Payloads

\* Erasing some cells of one partition leaves flash well formed.
LEMMA WipedType ==
    ASSUME NEW f \in FlashType, NEW p \in Parts, NEW cells
    PROVE  Wiped(f, p, cells) \in FlashType
  BY DEF Wiped, FlashType, Words

\* So does programming a word.
LEMMA ProgrammedType ==
    ASSUME NEW f \in FlashType, NEW p \in Parts, NEW c, NEW word \in Words
    PROVE  Programmed(f, p, c, word) \in FlashType
  BY DEF Programmed, FlashType

\* The image that app_padding builds is well formed.
LEMMA FactoryType == ASSUME NEW v \in GoodImages PROVE FactoryFlash(v) \in FlashType
  <1>1. ASSUME NEW p \in Parts, NEW c \in Cells("A")
        PROVE  (IF c \in Cells(p) THEN WordOf(IF p = "BOOT" THEN "A" ELSE v, c) ELSE Erased) \in Words
    <2>1. (IF p = "BOOT" THEN "A" ELSE v) \in Payloads
      BY ImageAssumption DEF Payloads, Slots
    <2>2. Erased \in Words
      BY DEF Words
    <2> QED BY <2>1, <2>2, WordOfType
  <1> QED BY <1>1 DEF FactoryFlash, FlashType

\* main of the bootloader ends in a slot or nowhere.
LEMMA BootOutcomeType == ASSUME NEW f PROVE BootOutcome(f) \in Slots \cup {None}
  BY DEF BootOutcome, FirstChoice, Other, Slots

\* Every partition takes at least one chunk, and none is empty.
LEMMA ChunkLenType ==
    ASSUME NEW p \in Parts
    PROVE  /\ 0 \in Offsets(p)
           /\ \A k \in Offsets(p) : k \in Nat /\ ChunkLen(p, k) \in Nat \ {0}
  <1>1. Pages(p) \in Nat /\ Pages(p) >= 1
    BY LayoutAssumption DEF Pages
  <1>2. PageCells * Pages(p) \in Nat /\ PageCells * Pages(p) > 0
    BY <1>1, LayoutAssumption
  <1>3. ASSUME NEW k \in Nat PROVE k * ChunkCells \in Nat
    BY <1>3, LayoutAssumption
  <1>4. 0 * ChunkCells = 0
    BY LayoutAssumption
  <1>5. 0 \in Offsets(p)
    BY <1>2, <1>4 DEF Offsets
  <1>6. ASSUME NEW k \in Offsets(p) PROVE k \in Nat /\ ChunkLen(p, k) \in Nat \ {0}
    <2>1. k \in Nat /\ k * ChunkCells < PageCells * Pages(p)
      BY <1>2 DEF Offsets
    <2> DEFINE n == PageCells * Pages(p)
               m == k * ChunkCells
    <2>2. m \in Nat /\ n \in Nat /\ m < n
      BY <2>1, <1>2, <1>3
    <2>3. ChunkLen(p, k) = IF n - m > ChunkCells THEN ChunkCells ELSE n - m
      BY DEF ChunkLen
    <2> HIDE DEF n, m
    <2> QED BY <2>1, <2>2, <2>3, LayoutAssumption
  <1> QED BY <1>5, <1>6

--------------------------------------------------------------------------------
(* Messages.                                                                *)

\* The fields that a handler of upgrade.c reads are there.
LEMMA RequestFields ==
    ASSUME NEW m \in Requests
    PROVE  /\ m.type = "Start" => m.part \in Parts
           /\ m.type = "Chunk" => m.offset \in Nat /\ m.len \in Nat \ {0} /\ m.data \in Payloads
           /\ m.type = "Finalize" => m.crc \in Crcs
  BY DEF Requests

\* So are those that the receive thread of the tool reads.
LEMMA ReplyFields ==
    ASSUME NEW m \in Replies
    PROVE  /\ m.type = "Info" => m.base \in Slots
           /\ m.type \in {"Chunked", "Finalized"} => m.ok \in BOOLEAN
           /\ m.type \in {"Info", "Started", "Chunked", "Finalized"}
  BY DEF Replies

\* Every message that is sent is one of the protocol.
LEMMA MessagesTyped ==
    /\ \A s \in Slots : GetInfo(s) \in Requests /\ Info(s) \in Replies
    /\ \A p \in Parts : Start(p) \in Requests
    /\ \A p \in Parts, w \in Payloads : \A k \in Offsets(p) : Chunk(p, k, w) \in Requests
    /\ \A c \in Crcs : Finalize(c) \in Requests
    /\ Restart \in Requests
    /\ Started \in Replies
    /\ \A ok \in BOOLEAN : Chunked(ok) \in Replies /\ Finalized(ok) \in Replies
  <1>1. \A p \in Parts, w \in Payloads : \A k \in Offsets(p) : Chunk(p, k, w) \in Requests
    BY ChunkLenType DEF Chunk, Requests
  <1> QED BY <1>1 DEF GetInfo, Info, Start, Finalize, Restart, Started, Chunked, Finalized, Requests, Replies

\* Extending a CRC by a chunk that was stored.
LEMMA CrcAppend ==
    ASSUME NEW c \in Crcs, NEW w \in Payloads, NEW k \in Nat
    PROVE  Append(c, <<w, k>>) \in Crcs
  BY DEF Crcs

--------------------------------------------------------------------------------
(* Type correctness.                                                        *)

\* What the device does next keeps the types, and the request of an
\* unfinished handler at the head of toDev.
LEMMA DeviceTInv == ASSUME TInv, Device PROVE TInv'
  <1> USE DEF TInv, TypeOK, DeviceTypeOK, LinkTypeOK, bounds
  <1>0. HostTypeOK' /\ ToolKnowsWhat' /\ bounds' = bounds
    BY DEF Device, HostTypeOK, ToolKnowsWhat, hostVars, session
  <1>1. toDev # <<>> => Head(toDev) \in Requests /\ Tail(toDev) \in Seq(Requests)
    OBVIOUS
  <1>2. \A m \in Replies : Append(toHost, m) \in Seq(Replies)
    OBVIOUS
  <1>3. sess \in Parts => \A c : Wiped(flash, sess, c) \in FlashType
    BY WipedType
  <1>4. <<>> \in Seq(Requests) /\ <<>> \in Crcs /\ BootCrc \in Crcs
    BY DEF Crcs, BootCrc
  <1>5. CASE Boot
    BY <1>0, <1>4, <1>5, BootOutcomeType DEF Boot, HandlerHasRequest, ResetClears
  <1>6. CASE GetFirmwareInfo
    BY <1>0, <1>1, <1>2, <1>6, MessagesTyped
       DEF GetFirmwareInfo, Handling, HandlerReturns, Reply, deviceVars, HandlerHasRequest, ResetClears
  <1>7. CASE StartFirmwareUpgrade
    BY <1>0, <1>1, <1>4, <1>7, RequestFields
       DEF StartFirmwareUpgrade, Handling, HandlerHasRequest, ResetClears
  <1>8. CASE FirmwareChunk
    <2> DEFINE first == Head(toDev).offset * ChunkCells + 1
    <2>1. first \in Nat
      <3>1. Head(toDev).offset \in Nat
        BY <1>1, <1>8, RequestFields DEF FirmwareChunk, Handling
      <3>2. ASSUME NEW k \in Nat PROVE k * ChunkCells + 1 \in Nat
        BY LayoutAssumption
      <3> QED BY <3>1, <3>2
    <2> HIDE DEF first
    <2>2. CASE /\ sess # None /\ toDev # <<>> /\ Head(toDev).type = "Chunk"
               /\ op' = "program" /\ at' = first /\ UNCHANGED <<toDev, toHost>>
      BY <1>0, <1>8, <2>1, <2>2 DEF FirmwareChunk, HandlerHasRequest, ResetClears
    <2>3. CASE op = "idle" /\ Reply(Chunked(FALSE)) /\ HandlerReturns /\ UNCHANGED <<op, at>>
      BY <1>0, <1>1, <1>2, <1>8, <2>3, MessagesTyped
         DEF FirmwareChunk, Handling, HandlerReturns, Reply, HandlerHasRequest, ResetClears
    <2> QED BY <1>8, <2>2, <2>3 DEF FirmwareChunk, Handling, first
  <1>9. CASE FinalizeFirmwareUpgrade
    BY <1>0, <1>1, <1>2, <1>9, MessagesTyped
       DEF FinalizeFirmwareUpgrade, Handling, HandlerReturns, Reply, deviceVars, HandlerHasRequest, ResetClears
  <1>10. CASE RestartDevice
    BY <1>0, <1>4, <1>10
       DEF RestartDevice, PowerOff, ResetRam, HandlerHasRequest, ResetClears
  <1>11. CASE ErasePage
    <2>1. flash' \in FlashType /\ UNCHANGED <<mode, running, sess, crc>>
      BY <1>3, <1>11 DEF ErasePage, HandlerHasRequest
    <2>2. CASE at' = at + 1 /\ UNCHANGED <<op, toDev, toHost>>
      BY <1>0, <2>1, <2>2 DEF HandlerHasRequest, ResetClears
    <2>3. CASE EraseReturns /\ toDev # <<>>
      BY <1>0, <1>1, <1>2, <2>1, <2>3, MessagesTyped
         DEF EraseReturns, HandlerReturns, Reply, HandlerHasRequest, ResetClears
    <2> QED BY <1>11, <2>2, <2>3 DEF ErasePage, HandlerHasRequest
  <1>12. CASE EraseOwnCode
    BY <1>0, <1>3, <1>12 DEF EraseOwnCode, HandlerHasRequest, ResetClears
  <1>13. CASE EraseFault
    BY <1>0, <1>1, <1>2, <1>13, MessagesTyped
       DEF EraseFault, EraseReturns, HandlerReturns, Reply, HandlerHasRequest, ResetClears
  <1>14. CASE ProgramWord
    <2> DEFINE m == Head(toDev)
    <2>1. /\ m \in Requests /\ m.type = "Chunk" /\ sess \in Parts
          /\ m.data \in Payloads /\ m.offset \in Nat
      BY <1>1, <1>14, RequestFields DEF ProgramWord, HandlerHasRequest
    <2>2. Programmed(flash, sess, at, WordOf(m.data, at)) \in FlashType
      BY <2>1, WordOfType, ProgrammedType
    <2>3. Append(crc, <<m.data, m.offset>>) \in Crcs
      BY <2>1, CrcAppend
    <2>4. flash' \in FlashType /\ UNCHANGED <<mode, running, sess>>
      BY <1>14, <2>2 DEF ProgramWord
    <2>5. CASE at' = at + 1 /\ UNCHANGED <<crc, op, toDev, toHost>>
      BY <1>0, <2>4, <2>5 DEF HandlerHasRequest, ResetClears
    <2>6. CASE /\ toDev # <<>> /\ crc' = Append(crc, <<m.data, m.offset>>)
               /\ op' = "idle" /\ at' = 0 /\ Reply(Chunked(TRUE)) /\ HandlerReturns
      <3> HIDE DEF m
      <3> QED
        BY <1>0, <1>1, <1>2, <2>3, <2>4, <2>6, MessagesTyped
           DEF HandlerReturns, Reply, HandlerHasRequest, ResetClears
    <2> QED BY <1>14, <2>5, <2>6 DEF ProgramWord, HandlerHasRequest
  <1> QED
    BY <1>5, <1>6, <1>7, <1>8, <1>9, <1>10, <1>11, <1>12, <1>13, <1>14 DEF Device, DeviceStep

\* So does what the tool does next, its timeouts and its start and end.
LEMMA HostTInv == ASSUME TInv, Host \/ Run \/ Timeout \/ Stop PROVE TInv'
  <1> USE DEF TInv, TypeOK, HostTypeOK, LinkTypeOK, bounds
  <1>0. DeviceTypeOK' /\ bounds' = bounds /\ UNCHANGED <<mode, running, sess, op>>
    BY DEF Host, Run, Timeout, Stop, DeviceTypeOK, deviceVars
  <1>1. \A m \in Requests : Append(toDev, m) \in Seq(Requests)
    OBVIOUS
  <1>2. toDev # <<>> => \A m \in Requests : Append(toDev, m) # <<>> /\ Head(Append(toDev, m)) = Head(toDev)
    OBVIOUS
  <1>3. ResetClears'
    BY <1>0 DEF ResetClears
  <1>4. ASSUME toDev' = toDev \/ \E m \in Requests : Request(m)
        PROVE  toDev' \in Seq(Requests) /\ HandlerHasRequest'
    BY <1>0, <1>1, <1>2, <1>4 DEF Request, HandlerHasRequest
  <1>5. toHost # <<>> => Head(toHost) \in Replies /\ Tail(toHost) \in Seq(Replies)
    OBVIOUS
  <1>6. <<>> \in Crcs
    BY DEF Crcs
  <1>7. Payload \in Payloads \/ hpc \notin {"start", "chunk", "final"}
    BY DEF Payload, Payloads, ToolKnowsWhat
  <1>8. "A" \in Slots /\ "B" \in Slots /\ Slots \subseteq Parts /\ "BOOT" \in Parts
    BY DEF Slots, Parts
  <1>9. ASSUME ToolExits, UNCHANGED toHost, toDev' = toDev \/ \E m \in Requests : Request(m)
        PROVE  TInv'
    BY <1>0, <1>3, <1>4, <1>6, <1>9 DEF ToolExits, ToolKnowsWhat
  <1>10. ASSUME hpc = "infoA", NEW ok \in BOOLEAN, QuerySlotB(ok)
         PROVE  TInv'
    BY <1>0, <1>3, <1>4, <1>8, <1>10, MessagesTyped DEF QuerySlotB, session, ToolKnowsWhat
  <1>11. ASSUME NEW p \in {target', "BOOT"}, StartPartition(p), target' \in Slots, hpc # "idle"
         PROVE  TInv'
    BY <1>0, <1>3, <1>4, <1>6, <1>8, <1>11, MessagesTyped DEF StartPartition, ToolKnowsWhat
  <1>12. ASSUME NEW k \in Offsets(hpart), SendChunk(k), hpc \in {"start", "chunk"}, hcrc' \in Crcs
         PROVE  TInv'
    <2>1. hpart \in Parts /\ k \in Nat
      BY <1>8, <1>12, ChunkLenType DEF ToolKnowsWhat
    <2> QED
      BY <1>0, <1>3, <1>4, <1>7, <1>12, <2>1, MessagesTyped DEF SendChunk, ToolKnowsWhat
  <1>13. CASE Host
    <2>1. CASE ReceiveReply
      <3>1. toHost' \in Seq(Replies) /\ base' \in Slots \cup {None} /\ acked' \in BOOLEAN
        BY <2>1, <1>5, ReplyFields DEF ReceiveReply, Accepts
      <3> QED BY <1>0, <1>3, <1>4, <2>1, <3>1 DEF ReceiveReply, session, ToolKnowsWhat
    <2>2. CASE InfoADone
      BY <2>2, <1>10 DEF InfoADone
    <2>3. CASE InfoBDone
      <3>1. PickTarget(base) \in Slots
        BY <1>8 DEF PickTarget
      <3> QED BY <2>3, <3>1, <1>11 DEF InfoBDone
    <2>4. CASE GiveUpAfterInfo
      BY <2>4, <1>9 DEF GiveUpAfterInfo, linkVars
    <2>5. CASE StartDone
      <3>1. 0 \in Offsets(hpart)
        BY <2>5, <1>8, ChunkLenType DEF StartDone, ToolKnowsWhat
      <3> QED BY <2>5, <3>1, <1>12 DEF StartDone
    <2>6. CASE ChunkDone
      <3>1. hcrc' \in Crcs
        BY <2>6, <1>7, CrcAppend DEF ChunkDone
      <3>2. CASE hoff + 1 \in Offsets(hpart)
        BY <2>6, <3>1, <3>2, <1>12 DEF ChunkDone
      <3>3. CASE hoff + 1 \notin Offsets(hpart)
        BY <2>6, <3>1, <3>3, <1>0, <1>3, <1>4, MessagesTyped DEF ChunkDone, ToolKnowsWhat
      <3> QED BY <3>2, <3>3
    <2>7. CASE SlotDone
      BY <2>7, <1>11 DEF SlotDone, ToolKnowsWhat
    <2>8. CASE BootFromDone
      BY <2>8, <1>9, MessagesTyped DEF BootFromDone
    <2> QED BY <1>13, <2>1, <2>2, <2>3, <2>4, <2>5, <2>6, <2>7, <2>8 DEF Host, HostStep
  <1>14. CASE Run
    <2> PICK v \in Images : RunTool(v)
      BY <1>14 DEF Run
    <2>1. runs' \in 0..MaxRuns
      BY RunsAssumption DEF RunTool
    <2> QED BY <2>1, <1>0, <1>3, <1>4, <1>8, MessagesTyped DEF RunTool, session, ToolKnowsWhat
  <1>15. CASE Timeout
    BY <1>15, <1>9, <1>10 DEF Timeout, TimedOut, linkVars
  <1>16. CASE Stop
    BY <1>16, <1>9 DEF Stop, Interrupt, linkVars
  <1> QED BY <1>13, <1>14, <1>15, <1>16

\* So do a power failure and a lost frame.
LEMMA FaultTInv == ASSUME TInv, Crash \/ Lose PROVE TInv'
  <1> USE DEF TInv, TypeOK, LinkTypeOK
  <1>0. HostTypeOK' /\ ToolKnowsWhat'
    BY DEF Crash, Lose, HostTypeOK, ToolKnowsWhat, hostVars, session
  <1>1. CASE Crash
    <2>1. flash' \in FlashType
      BY <1>1, WipedType DEF Crash, PowerLoss, HandlerHasRequest, DeviceTypeOK
    <2>2. <<>> \in Seq(Requests) /\ BootCrc \in Crcs
      BY DEF Crcs, BootCrc
    <2>3. crashes' \in 0..MaxCrashes /\ lost' \in 0..MaxLost
      BY <1>1, SystemAssumption DEF Crash
    <2> QED
      BY <1>0, <1>1, <2>1, <2>2, <2>3
         DEF Crash, PowerLoss, PowerOff, ResetRam, DeviceTypeOK, HandlerHasRequest, ResetClears
  <1>2. CASE Lose
    <2>1. crashes' \in 0..MaxCrashes /\ lost' \in 0..MaxLost
      BY <1>2, SystemAssumption DEF Lose
    <2>2. /\ toDev # <<>> => Tail(toDev) \in Seq(Requests)
          /\ toHost # <<>> => Tail(toHost) \in Seq(Replies)
      OBVIOUS
    <2>4. LinkTypeOK'
      BY <1>2, <2>2 DEF Lose, LoseRequest, LoseReply
    <2>3. HandlerHasRequest'
      BY <1>2 DEF Lose, LoseRequest, LoseReply, HandlerHasRequest, deviceVars
    <2> QED
      BY <1>0, <1>2, <2>1, <2>3, <2>4 DEF Lose, DeviceTypeOK, ResetClears, deviceVars
  <1> QED BY <1>1, <1>2

\* The system starts with a factory-programmed device and no tool.
LEMMA InitTInv == Init => TInv
  <1> SUFFICES ASSUME Init PROVE TInv
    OBVIOUS
  <1>1. DeviceTypeOK /\ HandlerHasRequest /\ ResetClears
    BY FactoryType DEF Init, DeviceInit, DeviceTypeOK, HandlerHasRequest, ResetClears, Crcs, BootCrc
  <1>2. HostTypeOK /\ ToolKnowsWhat
    <2>1. 0 \in 0..MaxRuns /\ <<>> \in Crcs
      BY RunsAssumption DEF Crcs
    <2> QED BY <2>1 DEF Init, HostInit, HostTypeOK, ToolKnowsWhat
  <1>3. LinkTypeOK /\ crashes \in 0..MaxCrashes /\ lost \in 0..MaxLost
    BY SystemAssumption DEF Init, LinkInit, LinkTypeOK
  <1> QED BY <1>1, <1>2, <1>3 DEF TInv, TypeOK

\* A step in which nothing changes.
LEMMA StutterTInv == ASSUME TInv, UNCHANGED vars PROVE TInv'
  BY DEF TInv, TypeOK, DeviceTypeOK, HostTypeOK, LinkTypeOK, HandlerHasRequest, ResetClears,
         ToolKnowsWhat, vars, deviceVars, hostVars, session, linkVars, bounds

LEMMA NextTInv == TInv /\ [Next]_vars => TInv'
  BY DeviceTInv, HostTInv, FaultTInv, StutterTInv DEF Next

\* Every variable of the system keeps its type, whatever fails: in particular
\* a handler never works without a session, and the tool never sends a
\* message that the protocol does not have.
THEOREM TypeCorrect == Spec => []TypeOK
  <1>1. TInv => TypeOK
    BY DEF TInv
  <1> QED BY InitTInv, NextTInv, <1>1, PTL DEF Spec

--------------------------------------------------------------------------------
(* Some slot holds a complete good build.                                   *)

\* What is in a channel after a frame was taken or added.
LEMMA ChannelElements ==
    ASSUME NEW S, NEW s \in Seq(S)
    PROVE  /\ s # <<>> => Head(s) \in Range(s) /\ Range(Tail(s)) \subseteq Range(s)
           /\ \A m \in S : Range(Append(s, m)) = Range(s) \cup {m}
           /\ Range(s) \subseteq S
           /\ Range(<<>>) = {}
  <1>1. s # <<>> => Head(s) \in Range(s)
    BY DEF Range
  <1>2. ASSUME s # <<>>, NEW i \in DOMAIN Tail(s)
        PROVE  i + 1 \in DOMAIN s /\ Tail(s)[i] = s[i + 1]
    BY <1>2
  <1>3. s # <<>> => Range(Tail(s)) \subseteq Range(s)
    BY <1>2 DEF Range
  <1>4. ASSUME NEW m \in S PROVE Range(Append(s, m)) = Range(s) \cup {m}
    <2>1. /\ DOMAIN Append(s, m) = 1..(Len(s) + 1) /\ DOMAIN s = 1..Len(s) /\ Len(s) \in Nat
          /\ \A i \in 1..Len(s) : Append(s, m)[i] = s[i]
          /\ Append(s, m)[Len(s) + 1] = m
      OBVIOUS
    <2>2. 1..(Len(s) + 1) = (1..Len(s)) \cup {Len(s) + 1}
      BY <2>1
    <2> QED BY <2>1, <2>2 DEF Range
  <1>5. Range(s) \subseteq S
    <2>1. \A i \in DOMAIN s : s[i] \in S
      OBVIOUS
    <2> QED BY <2>1 DEF Range
  <1>6. Range(<<>>) = {}
    BY DEF Range
  <1> QED BY <1>1, <1>3, <1>4, <1>5, <1>6

LEMMA OtherSlot == \A s \in Slots : Other(s) \in Slots /\ Other(s) # s /\ Other(Other(s)) = s
  BY DEF Other, Slots

\* A slot whose words are what they were is intact if it was.
LEMMA IntactKept ==
    ASSUME NEW f, NEW g, NEW s, f[s] = g[s]
    PROVE  Intact(f, s) <=> Intact(g, s)
  BY DEF Intact, Holds

\* Only the handlers that erase and program write flash, only in the
\* partition of the session, and a power failure only while erasing it.
LEMMA WritesStayInSession ==
    ASSUME TInv, Device \/ Crash, NEW s \in Slots, s # sess \/ op = "idle" \/ mode # "run"
    PROVE  flash'[s] = flash[s]
  <1> USE DEF TInv, TypeOK, DeviceTypeOK
  <1>1. \A cells : s # sess /\ sess \in Parts => Wiped(flash, sess, cells)[s] = flash[s]
    BY DEF Wiped, FlashType, Parts
  <1>2. \A c, w : s # sess /\ sess \in Parts => Programmed(flash, sess, c, w)[s] = flash[s]
    BY DEF Programmed, FlashType, Parts
  <1>3. CASE Boot \/ GetFirmwareInfo \/ StartFirmwareUpgrade \/ FirmwareChunk
             \/ FinalizeFirmwareUpgrade \/ RestartDevice \/ EraseFault
    BY <1>3 DEF Boot, GetFirmwareInfo, StartFirmwareUpgrade, FirmwareChunk,
                FinalizeFirmwareUpgrade, RestartDevice, EraseFault, deviceVars
  <1>4. CASE ErasePage \/ EraseOwnCode
    BY <1>1, <1>4 DEF ErasePage, EraseOwnCode, HandlerHasRequest
  <1>5. CASE ProgramWord
    BY <1>2, <1>5 DEF ProgramWord, HandlerHasRequest
  <1>6. CASE Crash
    BY <1>1, <1>6 DEF Crash, PowerLoss, HandlerHasRequest
  <1> QED BY <1>3, <1>4, <1>5, <1>6 DEF Device, DeviceStep

\* What a device step does to the channels and to the session: it takes at
\* most the head of toDev, and sends one answer that fits it.
LEMMA DeviceMessages ==
    ASSUME TInv, Device
    PROVE  /\ Range(toDev') \subseteq Range(toDev)
           /\ \/ UNCHANGED toHost
              \/ \E m \in Replies :
                    /\ Range(toHost') = Range(toHost) \cup {m}
                    /\ mode = "run"
                    /\ \/ op # "idle" /\ m.type # "Info"
                       \/ \E r \in Range(toDev) : r.type # "GetInfo" /\ m.type \in {"Chunked", "Finalized"}
                       \/ op = "idle" /\ m = Info(running)
                    /\ m.type = "Started" => op # "idle"
  <1> USE DEF TInv, TypeOK, LinkTypeOK
  <1>1. /\ toDev # <<>> => Head(toDev) \in Range(toDev) /\ Range(Tail(toDev)) \subseteq Range(toDev)
        /\ Range(<<>>) = {}
        /\ \A m \in Replies : Range(Append(toHost, m)) = Range(toHost) \cup {m}
    BY ChannelElements
  <1>2. CASE Boot \/ StartFirmwareUpgrade \/ RestartDevice \/ EraseOwnCode
    BY <1>1, <1>2 DEF Boot, StartFirmwareUpgrade, RestartDevice, PowerOff, EraseOwnCode
  <1>3. CASE GetFirmwareInfo
    BY <1>1, <1>3, MessagesTyped DEF GetFirmwareInfo, Handling, HandlerReturns, Reply, ResetClears, Info
  <1>4. CASE FirmwareChunk
    BY <1>1, <1>4, MessagesTyped DEF FirmwareChunk, Handling, HandlerReturns, Reply, Chunked
  <1>5. CASE FinalizeFirmwareUpgrade
    BY <1>1, <1>5, MessagesTyped DEF FinalizeFirmwareUpgrade, Handling, HandlerReturns, Reply, Finalized
  <1>6. CASE ErasePage \/ EraseFault
    BY <1>1, <1>6, MessagesTyped
       DEF ErasePage, EraseFault, EraseReturns, HandlerReturns, Reply, HandlerHasRequest, Started
  <1>7. CASE ProgramWord
    BY <1>1, <1>7, MessagesTyped DEF ProgramWord, HandlerReturns, Reply, HandlerHasRequest, Chunked
  <1> QED BY <1>2, <1>3, <1>4, <1>5, <1>6, <1>7 DEF Device, DeviceStep

\* A session begins with a StartFirmwareUpgrade and ends with a reset; a
\* handler begins to write only for a request in toDev.
LEMMA DeviceSession ==
    ASSUME TInv, Device, mode' = "run"
    PROVE  \/ mode = "off" /\ sess' = None /\ op' = "idle" /\ toDev' = <<>>
           \/ /\ mode = "run"
              /\ \/ UNCHANGED sess /\ (op' = op \/ op' = "idle")
                 \/ UNCHANGED sess /\ op = "idle" /\ op' = "program" /\ \E m \in Range(toDev) : m.type = "Chunk"
                 \/ op = "idle" /\ op' = "erase" /\ \E m \in Range(toDev) : m.type = "Start" /\ m.part = sess'
  <1> USE DEF TInv, TypeOK, LinkTypeOK
  <1>1. toDev # <<>> => Head(toDev) \in Range(toDev)
    BY ChannelElements
  <1>2. CASE Boot
    BY <1>2 DEF Boot, ResetClears
  <1>3. CASE GetFirmwareInfo \/ FinalizeFirmwareUpgrade
    BY <1>3 DEF GetFirmwareInfo, FinalizeFirmwareUpgrade, Handling, deviceVars
  <1>4. CASE StartFirmwareUpgrade
    BY <1>1, <1>4 DEF StartFirmwareUpgrade, Handling
  <1>5. CASE FirmwareChunk
    BY <1>1, <1>5 DEF FirmwareChunk, Handling
  <1>6. CASE RestartDevice \/ EraseOwnCode
    BY <1>6 DEF RestartDevice, PowerOff, EraseOwnCode
  <1>7. CASE ErasePage \/ EraseFault
    BY <1>7 DEF ErasePage, EraseFault, EraseReturns
  <1>8. CASE ProgramWord
    BY <1>8 DEF ProgramWord
  <1> QED BY <1>2, <1>3, <1>4, <1>5, <1>6, <1>7, <1>8 DEF Device, DeviceStep

\* A device step or a power failure leaves a slot alone that nothing queued
\* may touch, and queues nothing that may.
LEMMA ConfinedDevice ==
    ASSUME TInv, Device \/ Crash, NEW t \in Slots, Confined(t)
    PROVE  Confined(t)'
  <1>1. Other(t) # sess \/ op = "idle" \/ mode # "run"
    BY DEF Confined
  <1>2. Intact(flash, Other(t))'
    BY <1>1, OtherSlot, WritesStayInSession, IntactKept DEF Confined
  <1>3. CASE mode' # "run"
    BY <1>2, <1>3 DEF Confined
  <1>4. CASE mode' = "run"
    <2>1. Device
      BY <1>4 DEF Crash, PowerLoss, PowerOff
    <2>2. Range(toDev') \subseteq Range(toDev)
      BY <2>1, DeviceMessages
    <2>3. CASE mode = "off" /\ sess' = None /\ op' = "idle" /\ toDev' = <<>>
      <3>1. Range(toDev') = {}
        BY <2>3 DEF Range
      <3> QED BY <1>2, <2>3, <3>1 DEF Confined
    <2>4. CASE mode = "run"
      BY <1>2, <1>4, <2>1, <2>2, <2>4, DeviceSession DEF Confined
    <2> QED BY <1>4, <2>1, <2>3, <2>4, DeviceSession
  <1> QED BY <1>3, <1>4

\* Nor does a request that does not concern it.
LEMMA ConfinedQueue ==
    ASSUME NEW t \in Slots, Confined(t), UNCHANGED <<flash, mode, sess, op>>,
           NEW extra, Range(toDev') \subseteq Range(toDev) \cup extra,
           mode = "run" =>
               \A m \in extra : /\ m.type = "Start" => m.part # Other(t)
                                /\ m.type = "Chunk" => sess # Other(t)
    PROVE  Confined(t)'
  BY DEF Confined

\* What runs is a complete build, and its own erasure never ends.
LEMMA DeviceRunsGood ==
    ASSUME IInv, OwnEraseGoesOn, Device \/ Crash
    PROVE  OwnSessionErases' /\ RunsGoodCode'
  <1> USE DEF IInv
  <1> SUFFICES ASSUME mode' = "run"
               PROVE  (sess' = running' => op' = "erase") /\ (sess' # running' => Intact(flash', running'))
    BY DEF OwnSessionErases, RunsGoodCode
  <1>1. Device
    BY DEF Crash, PowerLoss, PowerOff
  <1>2. CASE Boot
    <2>1. sess' = None /\ running' = BootOutcome(flash) /\ flash' = flash /\ running' # None
      BY <1>2 DEF Boot, TInv, ResetClears
    <2>2. Intact(flash, BootOutcome(flash))
      BY <2>1 DEF BootOutcome
    <2> QED BY <2>1, <2>2
  <1>3. CASE ~Boot
    <2>1. mode = "run" /\ UNCHANGED running /\ running \in Slots
      BY <1>1, <1>3 DEF Device, DeviceStep, GetFirmwareInfo, StartFirmwareUpgrade, FirmwareChunk,
         FinalizeFirmwareUpgrade, RestartDevice, PowerOff, ErasePage, EraseOwnCode, EraseFault,
         ProgramWord, Handling, deviceVars, TInv, ResetClears
    <2>2. CASE sess = running
      <3>1. op = "erase"
        BY <2>1, <2>2 DEF OwnSessionErases
      <3>2. ErasePage
        BY <1>1, <1>3, <2>2, <3>1 DEF OwnEraseGoesOn, Device, DeviceStep, GetFirmwareInfo,
           StartFirmwareUpgrade, FirmwareChunk, FinalizeFirmwareUpgrade, RestartDevice,
           EraseOwnCode, ProgramWord, Handling
      <3>3. Pages(sess) = SlotPages
        BY <2>1, <2>2 DEF Pages
      <3> QED BY <2>1, <2>2, <3>1, <3>2, <3>3 DEF ErasePage
    <2>3. CASE sess # running
      <3>1. Intact(flash', running)
        BY <1>1, <2>1, <2>3, WritesStayInSession, IntactKept DEF RunsGoodCode
      <3>2. sess' = running => op' = "erase"
        BY <1>1, <2>1, <2>3, DeviceSession
      <3> QED BY <2>1, <3>1, <3>2
    <2> QED BY <2>2, <2>3
  <1> QED BY <1>2, <1>3

\* While the tool asks, the device can only answer.
LEMMA DeviceAsking == ASSUME IInv, Device \/ Crash PROVE AskingIsHarmless'
  <1> USE DEF IInv
  <1>0. UNCHANGED <<hpc, acked, base, failed>>
    BY DEF Device, Crash, hostVars
  <1> SUFFICES ASSUME hpc \in {"infoA", "infoB"} PROVE AskingIsHarmless'
    BY <1>0 DEF AskingIsHarmless
  <1>1. /\ mode = "run" => op = "idle" /\ \A m \in Range(toDev) : m.type = "GetInfo"
        /\ \A m \in Range(toHost) : m.type = "Info"
        /\ hpc = "infoA" => \A m \in Range(toHost) : Intact(flash, m.base)
    BY DEF AskingIsHarmless
  <1>2. \A s \in Slots : Intact(flash, s) => Intact(flash', s)
    BY <1>1, WritesStayInSession, IntactKept
  <1>3. toHost \in Seq(Replies) /\ Range(toHost) \subseteq Replies
    BY ChannelElements DEF TInv, TypeOK, LinkTypeOK
  <1>4. \A m \in Range(toHost) : m.base \in Slots
    BY <1>1, <1>3, ReplyFields
  <1>5. mode' = "run" => op' = "idle" /\ \A m \in Range(toDev') : m.type = "GetInfo"
    <2>1. CASE Crash
      BY <2>1 DEF Crash, PowerLoss, PowerOff
    <2>2. CASE Device /\ mode = "run"
      BY <1>1, <2>2, DeviceMessages, DeviceSession
    <2>3. CASE Device /\ mode # "run"
      <3>1. Range(<<>>) = {}
        BY DEF Range
      <3> QED BY <2>3, <3>1, DeviceSession
    <2> QED BY <2>1, <2>2, <2>3
  <1>6. \A m \in Range(toHost') : m.type = "Info" /\ (hpc = "infoA" => Intact(flash', m.base))
    <2>1. CASE UNCHANGED toHost
      BY <1>1, <1>2, <1>4, <2>1
    <2>2. CASE Range(toHost') = Range(toHost) \cup {Info(running)} /\ mode = "run"
      <3>1. Intact(flash, running) /\ running \in Slots
        BY <1>1, <2>2 DEF OwnSessionErases, RunsGoodCode, TInv, ResetClears
      <3> QED BY <1>1, <1>2, <1>4, <2>2, <3>1 DEF Info
    <2>3. CASE Crash
      BY <2>1, <2>3 DEF Crash, PowerLoss
    <2>4. CASE Device
      BY <1>1, <2>1, <2>2, <2>4, DeviceMessages
    <2> QED BY <2>3, <2>4
  <1>7. base # None => Intact(flash', base)
    BY <1>2 DEF AskingIsHarmless, TInv, TypeOK, HostTypeOK
  <1> QED BY <1>0, <1>5, <1>6, <1>7 DEF AskingIsHarmless

\* While the tool writes, the device does not turn to the other slot.
LEMMA DeviceWriting == ASSUME IInv, Device \/ Crash PROVE WritingIsConfined'
  <1> USE DEF IInv
  <1>0. UNCHANGED <<hpc, acked, target>>
    BY DEF Device, Crash, hostVars, session
  <1> SUFFICES ASSUME hpc \in {"start", "chunk", "final"} PROVE WritingIsConfined'
    BY <1>0 DEF WritingIsConfined
  <1>1. target \in Slots /\ Confined(target)
    BY DEF WritingIsConfined, TInv, ToolKnowsWhat
  <1>2. Confined(target)'
    <2> PICK t \in Slots : t = target
      BY <1>1
    <2>1. Confined(t)
      BY <1>1
    <2>2. Confined(t)'
      BY <2>1, ConfinedDevice
    <2> QED BY <1>0, <2>2 DEF Confined
  <1>3. ASSUME mode' = "run", sess' = Other(target)
        PROVE  hpc = "start" /\ ~acked /\ \A m \in Range(toHost') : m.type # "Started"
    <2>1. Device
      BY <1>3 DEF Crash, PowerLoss, PowerOff
    <2>2. mode = "run" /\ sess = Other(target)
      <3>1. None # Other(target)
        BY <1>1 DEF Other, None
      <3> QED BY <1>1, <1>3, <2>1, <3>1, DeviceSession DEF Confined
    <2>3. hpc = "start" /\ ~acked /\ \A m \in Range(toHost) : m.type # "Started"
      BY <2>2 DEF WritingIsConfined
    <2>4. op = "idle"
      BY <1>1, <2>2 DEF Confined
    <2> QED BY <2>1, <2>3, <2>4, DeviceMessages
  <1> QED BY <1>0, <1>2, <1>3 DEF WritingIsConfined

LEMMA DeviceIInv == ASSUME IInv, OwnEraseGoesOn, Device \/ Crash PROVE IInv'
  <1>1. TInv'
    BY DeviceTInv, FaultTInv DEF IInv
  <1>2. ToolStartsAfresh'
    BY DEF IInv, ToolStartsAfresh, Device, Crash, hostVars
  <1>3. \E t \in Slots : Confined(t)'
    BY ConfinedDevice DEF IInv
  <1> QED BY <1>1, <1>2, <1>3, DeviceRunsGood, DeviceAsking, DeviceWriting DEF IInv

\* A step of the tool that queues nothing for the device, or a message that
\* does not concern the slot Other(t).
LEMMA HostConfined ==
    ASSUME TInv, NEW t \in Slots, Confined(t), UNCHANGED <<flash, mode, sess, op>>,
           \/ UNCHANGED toDev
           \/ \E m \in Requests :
                /\ Request(m)
                /\ mode = "run" => /\ m.type = "Start" => m.part # Other(t)
                                   /\ m.type = "Chunk" => sess # Other(t)
    PROVE  Confined(t)'
  <1>1. CASE UNCHANGED toDev
    BY <1>1 DEF Confined
  <1>2. ASSUME NEW m \in Requests, Request(m),
               mode = "run" => /\ m.type = "Start" => m.part # Other(t)
                               /\ m.type = "Chunk" => sess # Other(t)
        PROVE  Confined(t)'
    <2>1. Range(toDev') = Range(toDev) \cup {m}
      BY <1>2, ChannelElements DEF Request, TInv, TypeOK, LinkTypeOK
    <2> QED BY <1>2, <2>1, ConfinedQueue
  <1> QED BY <1>1, <1>2

\* The receive thread.
LEMMA ReceiveIInv == ASSUME IInv, Host, ReceiveReply PROVE IInv'
  <1> USE DEF IInv
  <1>1. TInv'
    BY HostTInv
  <1>2. /\ UNCHANGED <<flash, mode, running, sess, op, toDev, hpc, failed, target>>
        /\ toHost \in Seq(Replies) /\ toHost # <<>>
    BY DEF Host, deviceVars, ReceiveReply, session, TInv, TypeOK, LinkTypeOK
  <1>3. /\ Head(toHost) \in Range(toHost) /\ Range(toHost') \subseteq Range(toHost)
        /\ Range(toHost) \subseteq Replies
    BY <1>2, ChannelElements DEF ReceiveReply
  <1>4. OwnSessionErases' /\ RunsGoodCode' /\ \A t \in Slots : Confined(t) => Confined(t)'
    BY <1>2 DEF OwnSessionErases, RunsGoodCode, Confined
  <1>5. ToolStartsAfresh'
    BY <1>2 DEF ReceiveReply, Accepts, ToolStartsAfresh
  <1>6. AskingIsHarmless'
    <2> SUFFICES ASSUME hpc \in {"infoA", "infoB"} PROVE AskingIsHarmless'
      BY <1>2 DEF AskingIsHarmless
    <2> DEFINE m == Head(toHost)
    <2>1. m.type = "Info" /\ m.base \in Slots /\ Accepts(m) /\ (hpc = "infoA" => Intact(flash, m.base))
      BY <1>3, ReplyFields DEF AskingIsHarmless, Accepts
    <2>2. base' = IF hpc = "infoA" THEN m.base ELSE base
      BY <2>1 DEF ReceiveReply
    <2>3. None \notin Slots
      BY DEF None, Slots
    <2> HIDE DEF m
    <2>4. CASE hpc = "infoA"
      BY <1>2, <1>3, <2>1, <2>2, <2>3, <2>4 DEF AskingIsHarmless
    <2>5. CASE hpc = "infoB"
      BY <1>2, <1>3, <2>1, <2>2, <2>5 DEF AskingIsHarmless
    <2> QED BY <2>4, <2>5
  <1>7. WritingIsConfined'
    <2> SUFFICES ASSUME hpc \in {"start", "chunk", "final"} PROVE WritingIsConfined'
      BY <1>2 DEF WritingIsConfined
    <2>1. Confined(target)'
      BY <1>2, <1>4 DEF WritingIsConfined, TInv, ToolKnowsWhat, Confined
    <2>2. ASSUME mode = "run", sess = Other(target)
          PROVE  hpc = "start" /\ ~acked' /\ \A m \in Range(toHost') : m.type # "Started"
      <3>1. hpc = "start" /\ ~acked /\ \A m \in Range(toHost) : m.type # "Started"
        BY <2>2 DEF WritingIsConfined
      <3>2. ~Accepts(Head(toHost))
        BY <1>3, <3>1 DEF Accepts
      <3> QED BY <1>3, <3>1, <3>2 DEF ReceiveReply
    <2> QED BY <1>2, <2>1, <2>2 DEF WritingIsConfined
  <1> QED BY <1>1, <1>4, <1>5, <1>6, <1>7

\* The main thread while it asks: it begins, asks for the other slot, or
\* gives up.
LEMMA AskingIInv ==
    ASSUME IInv, Host \/ Run \/ Timeout,
           \/ ~PromptRerun /\ Run
           \/ InfoADone
           \/ Timeout /\ hpc = "infoA"
    PROVE  IInv'
  <1> USE DEF IInv
  <1>1. TInv'
    BY HostTInv
  <1>3. /\ UNCHANGED <<flash, mode, running, sess, op, toHost, base>>
        /\ hpc' \in {"infoA", "infoB"}
        /\ \E s \in Slots : Request(GetInfo(s))
    BY DEF Host, InfoADone, Timeout, TimedOut, QuerySlotB, Run, RunTool, deviceVars, Slots
  <1>4. \E m \in Requests : m.type = "GetInfo" /\ Request(m)
    BY <1>3, MessagesTyped DEF GetInfo
  <1>5. \E t \in Slots : Confined(t)'
    BY <1>3, <1>4, HostConfined
  <1>6. AskingIsHarmless'
    <2>1. \A m \in Range(toDev') : m \in Range(toDev) \/ m.type = "GetInfo"
      BY <1>4, ChannelElements DEF Request, TInv, TypeOK, LinkTypeOK
    <2>2. CASE Run
      <3>1. toHost = <<>> /\ (mode = "run" => toDev = <<>>)
        BY <2>2, ~PromptRerun DEF Run, Quiet, InfoADone, Timeout, TimedOut, QuerySlotB, RunTool
      <3>2. Range(toHost) = {} /\ (mode = "run" => Range(toDev) = {} /\ op = "idle")
        BY <3>1 DEF Range, TInv, HandlerHasRequest
      <3>3. hpc' = "infoA" /\ base' = None /\ ~acked'
        BY <2>2 DEF Run, RunTool, ToolStartsAfresh
      <3> QED BY <1>3, <2>1, <3>2, <3>3 DEF AskingIsHarmless
    <2>3. CASE hpc = "infoA" /\ hpc' = "infoB" /\ (acked \/ failed') /\ ~acked'
      BY <1>3, <2>1, <2>3 DEF AskingIsHarmless
    <2> QED BY <2>2, <2>3 DEF InfoADone, Timeout, TimedOut, QuerySlotB
  <1> QED
    BY <1>1, <1>3, <1>5, <1>6 DEF OwnSessionErases, RunsGoodCode, ToolStartsAfresh, WritingIsConfined

\* main leaves: at most a restart request is queued.
LEMMA ExitIInv ==
    ASSUME IInv, TInv', ToolExits, UNCHANGED <<flash, mode, running, sess, op, toHost>>,
           UNCHANGED toDev \/ Request(Restart)
    PROVE  IInv'
  <1>1. \E t \in Slots : Confined(t)'
    BY HostConfined, MessagesTyped DEF IInv, Restart
  <1> QED
    BY <1>1 DEF IInv, ToolExits, OwnSessionErases, RunsGoodCode, ToolStartsAfresh,
                AskingIsHarmless, WritingIsConfined

\* The main thread while it writes: it starts a partition, sends a chunk or
\* finalizes, always after the awaited answer.
LEMMA WritingIInv ==
    ASSUME IInv, Host, InfoBDone \/ StartDone \/ ChunkDone \/ SlotDone
    PROVE  IInv'
  <1> USE DEF IInv
  <1>1. TInv'
    BY HostTInv
  <1>2. UNCHANGED <<flash, mode, running, sess, op, toHost, base>> /\ ~acked'
        /\ hpc' \in {"start", "chunk", "final"}
    BY DEF Host, deviceVars, InfoBDone, StartDone, ChunkDone, SlotDone, StartPartition, SendChunk
  <1>3. target' \in Slots
    BY <1>1, <1>2 DEF TInv, ToolKnowsWhat
  <1> PICK t \in Slots : t = target'
    BY <1>3
  <1>4. /\ Confined(t)'
        /\ mode = "run" /\ sess = Other(t) =>
                hpc' = "start" /\ \A m \in Range(toHost) : m.type # "Started"
    <2>1. CASE InfoBDone
      <3>1. /\ base \in Slots /\ Other(t) = base /\ Intact(flash, base)
            /\ mode = "run" => op = "idle" /\ \A m \in Range(toDev) : m.type = "GetInfo"
            /\ \A m \in Range(toHost) : m.type = "Info"
        BY <2>1 DEF InfoBDone, PickTarget, Other, AskingIsHarmless, TInv, TypeOK, HostTypeOK, Slots
      <3>2. Range(toDev') = Range(toDev) \cup {Start(t)}
        BY <2>1, ChannelElements, MessagesTyped
           DEF InfoBDone, StartPartition, Request, TInv, TypeOK, LinkTypeOK, Parts
      <3>3. hpc' = "start"
        BY <2>1 DEF InfoBDone, StartPartition
      <3>4. Start(t).type = "Start" /\ Start(t).part # Other(t)
        BY OtherSlot DEF Start
      <3>5. Confined(t)'
        BY <1>2, <3>1, <3>2, <3>4 DEF Confined
      <3> QED BY <1>2, <3>1, <3>3, <3>5
    <2>2. CASE StartDone \/ ChunkDone \/ SlotDone
      <3>1. target' = target /\ hpc \in {"start", "chunk", "final"} /\ acked
        BY <2>2 DEF StartDone, ChunkDone, SlotDone, SendChunk, StartPartition
      <3>2. Confined(target) /\ (mode = "run" => sess # Other(target))
        BY <3>1 DEF WritingIsConfined
      <3>7. t = target
        BY <3>1
      <3>3. \E m : Request(m) /\ (m.type = "Start" => m.part = "BOOT")
        BY <2>2 DEF StartDone, ChunkDone, SlotDone, SendChunk, StartPartition, Chunk, Start, Finalize
      <3>4. \E m \in Requests : Request(m) /\ (m.type = "Start" => m.part = "BOOT")
        <4> PICK m : Request(m) /\ (m.type = "Start" => m.part = "BOOT")
          BY <3>3
        <4>1. Len(toDev') = Len(toDev) + 1 /\ toDev'[Len(toDev) + 1] = m /\ toDev' \in Seq(Requests)
          BY <1>1 DEF Request, TInv, TypeOK, LinkTypeOK
        <4>2. Len(toDev) + 1 \in DOMAIN toDev'
          BY <4>1 DEF TInv, TypeOK, LinkTypeOK
        <4> QED BY <4>1, <4>2
      <3>5. "BOOT" # Other(t)
        BY OtherSlot DEF Slots
      <3>6. Confined(t)'
        BY <1>2, <3>2, <3>4, <3>5, <3>7, HostConfined
      <3> QED BY <3>2, <3>6, <3>7
    <2> QED BY <2>1, <2>2
  <1>5. \E u \in Slots : Confined(u)'
    BY <1>4
  <1>6. WritingIsConfined'
    BY <1>2, <1>4 DEF WritingIsConfined, Confined
  <1> QED
    BY <1>1, <1>2, <1>5, <1>6
       DEF OwnSessionErases, RunsGoodCode, ToolStartsAfresh, AskingIsHarmless

\* The tool, whatever it does.
LEMMA HostIInv == ASSUME IInv, ~PromptRerun, Host \/ Run \/ Timeout \/ Stop PROVE IInv'
  <1>1. TInv' /\ UNCHANGED <<flash, mode, running, sess, op>>
    BY HostTInv DEF IInv, Host, Run, Timeout, Stop, deviceVars
  <1>2. CASE Host
    <2>1. CASE ReceiveReply
      BY <1>2, <2>1, ReceiveIInv
    <2>2. CASE InfoADone
      BY <1>2, <2>2, AskingIInv
    <2>3. CASE InfoBDone \/ StartDone \/ ChunkDone \/ SlotDone
      BY <1>2, <2>3, WritingIInv
    <2>4. CASE GiveUpAfterInfo \/ BootFromDone
      BY <1>1, <2>4, ExitIInv DEF GiveUpAfterInfo, BootFromDone, linkVars
    <2> QED BY <1>2, <2>1, <2>2, <2>3, <2>4 DEF Host, HostStep
  <1>3. CASE Run
    BY <1>3, AskingIInv
  <1>4. CASE Timeout
    <2>1. CASE hpc = "infoA"
      BY <1>4, <2>1, AskingIInv
    <2>2. CASE hpc # "infoA"
      BY <1>1, <1>4, <2>2, ExitIInv DEF Timeout, TimedOut, linkVars
    <2> QED BY <2>1, <2>2
  <1>5. CASE Stop
    BY <1>1, <1>5, ExitIInv DEF Stop, Interrupt, linkVars
  <1> QED BY <1>2, <1>3, <1>4, <1>5

\* A frame is lost.
LEMMA LoseIInv == ASSUME IInv, Lose PROVE IInv'
  <1> USE DEF IInv
  <1>1. TInv'
    BY FaultTInv
  <1>2. UNCHANGED <<flash, mode, running, sess, op, hpc, base, failed, target, acked>>
    BY DEF Lose, deviceVars, hostVars, session
  <1>3. Range(toDev') \subseteq Range(toDev) /\ Range(toHost') \subseteq Range(toHost)
    BY ChannelElements DEF Lose, LoseRequest, LoseReply, TInv, TypeOK, LinkTypeOK
  <1>4. \A t \in Slots : Confined(t) => Confined(t)'
    BY <1>2, <1>3 DEF Confined
  <1>5. WritingIsConfined'
    <2> SUFFICES ASSUME hpc \in {"start", "chunk", "final"} PROVE WritingIsConfined'
      BY <1>2 DEF WritingIsConfined
    <2> PICK t \in Slots : t = target
      BY DEF TInv, ToolKnowsWhat
    <2>1. Confined(t)'
      BY <1>4 DEF WritingIsConfined
    <2> QED BY <1>2, <1>3, <2>1 DEF WritingIsConfined, Confined
  <1> QED
    BY <1>1, <1>2, <1>3, <1>4, <1>5
       DEF OwnSessionErases, RunsGoodCode, ToolStartsAfresh, AskingIsHarmless

\* Both slots of a factory-programmed device are intact.
LEMMA InitIInv == Init => IInv
  <1> SUFFICES ASSUME Init PROVE IInv
    OBVIOUS
  <1>1. PICK v \in GoodImages : flash = FactoryFlash(v)
    BY DEF Init, DeviceInit
  <1>2. ASSUME NEW s \in Slots PROVE Intact(flash, s)
    <2>1. Cells(s) = Cells("A") /\ s \in Parts /\ s # "BOOT"
      BY DEF Cells, Pages, Parts, Slots
    <2>2. \A c \in Cells(s) : flash[s][c] = WordOf(v, c)
      BY <1>1, <2>1 DEF FactoryFlash
    <2> QED BY <2>2 DEF Intact, Holds
  <1>3. mode = "off" /\ hpc = "idle" /\ base = None /\ ~acked
    BY DEF Init, DeviceInit, HostInit
  <1>4. \E t \in Slots : Confined(t)
    BY <1>2, <1>3, OtherSlot DEF Confined, Slots
  <1> QED
    BY <1>3, <1>4, InitTInv DEF IInv, OwnSessionErases, RunsGoodCode, ToolStartsAfresh,
       AskingIsHarmless, WritingIsConfined

LEMMA StutterIInv == ASSUME IInv, UNCHANGED vars PROVE IInv'
  <1>1. UNCHANGED <<deviceVars, hostVars, linkVars>>
    BY DEF vars
  <1> QED
    BY <1>1, StutterTInv DEF IInv, OwnSessionErases, RunsGoodCode, ToolStartsAfresh,
       AskingIsHarmless, WritingIsConfined, Confined, deviceVars, hostVars, session, linkVars

\* A flash that fails leaves the invariant alone, unless the device is left
\* running from a slot that it has begun to erase.
LEMMA FaultyNextIInv ==
    ASSUME ~PromptRerun PROVE IInv /\ [Next /\ OwnEraseGoesOn]_vars => IInv'
  BY DeviceIInv, HostIInv, LoseIInv, StutterIInv DEF Next

LEMMA NextIInv == ASSUME ~FlashFaults, ~PromptRerun PROVE IInv /\ [Next]_vars => IInv'
  BY FaultyNextIInv DEF OwnEraseGoesOn, EraseFault

\* Two consequences of the invariant.
LEMMA IInvSafe == IInv => SomeSlotIntact /\ RunsGoodCode
  BY OtherSlot DEF IInv, Confined, SomeSlotIntact

\* Whatever the device still has to do spares a slot with a good build, and
\* the tool is only ever told of such a slot.
THEOREM UpgradeConfined == ASSUME ~FlashFaults, ~PromptRerun PROVE Spec => []IInv
  <1>1. IInv /\ [Next]_vars => IInv'
    BY NextIInv
  <1> QED BY <1>1, InitIInv, PTL DEF Spec

\* A flash that does not fail and a tool that waits before it is started
\* again never lose the last good build, for any layout of the flash, any
\* files, and any number of runs, power failures, lost frames and timeouts:
\* StartFirmwareUpgrade_cb and FirmwareChunk_cb check nothing that protects
\* it, the tool's order of steps does.
THEOREM AlwaysSomeSlotIntact == ASSUME ~FlashFaults, ~PromptRerun PROVE Spec => []SomeSlotIntact
  BY UpgradeConfined, IInvSafe, PTL

\* Under the same conditions the device only runs a complete good build,
\* except while it erases itself on the tool's order.
THEOREM AlwaysRunsGoodCode == ASSUME ~FlashFaults, ~PromptRerun PROVE Spec => []RunsGoodCode
  BY UpgradeConfined, IInvSafe, PTL

--------------------------------------------------------------------------------
(* A flash whose operations fail without notice.                            *)
\* The same invariant: a word that is not programmed and an erase that stops
\* half-way (fmc_program_data, fmc_erase_pages) leave the slot that is spared
\* alone.  The one thing to be excluded is an erase of the running slot that
\* stops and leaves the device running.
THEOREM FaultsConfined == ASSUME ~PromptRerun PROVE FaultSpec => []IInv
  <1>1. IInv /\ [Next /\ OwnEraseGoesOn]_vars => IInv'
    BY FaultyNextIInv
  <1> QED BY <1>1, InitIInv, PTL DEF FaultSpec

\* The last good build survives any number of failing words and pages, in any
\* number of runs of the tool and power failures, although the device answers
\* "success" to what it has not stored.
THEOREM FaultsSpareASlot == ASSUME ~PromptRerun PROVE FaultSpec => []SomeSlotIntact
  BY FaultsConfined, IInvSafe, PTL

\* A slot whose writing failed is never run: check_app_valid finds out.
THEOREM FaultsRunGoodCode == ASSUME ~PromptRerun PROVE FaultSpec => []RunsGoodCode
  BY FaultsConfined, IInvSafe, PTL
================================================================================
