----------------------------- MODULE UpgradeSystem -----------------------------
(***************************************************************************)
(* The tool, the line and the device together: firmware updates with power *)
(* failures, lost frames, timeouts, interrupted and repeated runs.         *)
(***************************************************************************)
EXTENDS UpgradeDevice, UpgradeHost

CONSTANTS
    PromptRerun,   \* may the tool be started again while an older request is served?
    SlowDevice,    \* may a wait run out although an answer is on its way?
    MaxCrashes,    \* bound on power failures
    MaxLost        \* bound on lost frames

ASSUME SystemAssumption ==
    /\ {FlashFaults, PromptRerun, SlowDevice} \subseteq BOOLEAN
    /\ MaxCrashes \in Nat /\ MaxLost \in Nat

VARIABLES
    crashes,   \* power failures so far
    lost       \* frames lost so far

bounds == <<crashes, lost>>
vars == <<deviceVars, hostVars, linkVars, bounds>>

TypeOK ==
    /\ DeviceTypeOK
    /\ HostTypeOK
    /\ LinkTypeOK
    /\ crashes \in 0..MaxCrashes
    /\ lost \in 0..MaxLost

Init == DeviceInit /\ HostInit /\ LinkInit /\ crashes = 0 /\ lost = 0

\* Nothing the tool sent is waiting, being served or being answered.
Quiet == toHost = <<>> /\ (mode = "run" => toDev = <<>>)

Device == DeviceStep /\ UNCHANGED <<hostVars, bounds>>
Host == HostStep /\ UNCHANGED <<deviceVars, bounds>>

Run ==
    /\ PromptRerun \/ Quiet
    /\ \E v \in Images : RunTool(v)
    /\ UNCHANGED <<deviceVars, bounds>>

Timeout ==
    /\ SlowDevice \/ Quiet
    /\ TimedOut
    /\ UNCHANGED <<deviceVars, bounds>>

Stop == Interrupt /\ UNCHANGED <<deviceVars, bounds>>

Crash ==
    /\ crashes < MaxCrashes
    /\ crashes' = crashes + 1
    /\ PowerLoss
    /\ UNCHANGED <<hostVars, lost>>

Lose ==
    /\ lost < MaxLost
    /\ lost' = lost + 1
    /\ (op = "idle" /\ LoseRequest) \/ LoseReply
    /\ UNCHANGED <<deviceVars, hostVars, crashes>>

Next == Device \/ Host \/ Run \/ Timeout \/ Stop \/ Crash \/ Lose

Spec == Init /\ [][Next]_vars

--------------------------------------------------------------------------------
(* Fairness.  The threads of the tool are scheduled and its waits end; the  *)
(* device is powered and xlinkTask is scheduled.                            *)
HostFairness == WF_vars(Host) /\ WF_vars(Timeout)
DeviceFairness == WF_vars(Device)

FairSpec == Spec /\ HostFairness

\* Any operation of the flash may fail except one: an erase of the slot that
\* runs does not stop half-way and leave the device running on.
OwnEraseGoesOn == EraseFault => sess # running
FaultSpec == Init /\ [][Next /\ OwnEraseGoesOn]_vars /\ HostFairness

\* Nobody interrupts the tool, the power is on and no frame is lost.
Undisturbed ==
    /\ Init
    /\ [][Device \/ Host \/ Run \/ Timeout]_vars
    /\ HostFairness
    /\ DeviceFairness

--------------------------------------------------------------------------------
(* Safety.                                                                  *)
\* Some slot holds a complete good build at every moment: a slot is only
\* erased or rewritten while the other one is complete, whatever run of the
\* tool, power failure or lost frame came before (StartFirmwareUpgrade_cb
\* itself erases whatever it is told to).
SomeSlotIntact == \E s \in Slots : Intact(flash, s)

\* The code that runs is a complete good build, unless the device was told
\* to rewrite that very slot.
RunsGoodCode == mode = "run" /\ sess # running => Intact(flash, running)

\* When the tool has seen the answer of success to FinalizeFirmwareUpgrade,
\* flash holds everything it sent: no chunk of the partition was lost,
\* refused, repeated, taken from another session or wiped by a reset.
AcceptedIsStored == hpc = "final" /\ acked => Holds(flash, hpart, Payload)

\* While the tool writes BOOTFROM the slot it names holds the whole file.
CommitAfterStore == hpart = "BOOT" => Holds(flash, target, himage)

\* During the first update of a factory device no power failure leaves it
\* without running code.
NeverStuck == runs <= 1 => mode \in {"off", "run"}

\* The system does what A/B updating promises, where a slot holds a firmware
\* when it holds all of its words.
Firmware(f, s) ==
    IF \E v \in Images : Holds(f, s, v)
    THEN CHOOSE v \in Images : Holds(f, s, v)
    ELSE "partial"

ASSUME PartialAssumption == "partial" \notin Images

AB == INSTANCE ABUpdate WITH
    slot <- [s \in Slots |-> Firmware(flash, s)],
    prefer <- FirstChoice(flash),
    running <- IF mode = "run" THEN running ELSE None

ImplementsAB == AB!Spec

\* A run of the tool ends, whatever happens to the device or on the line.
ToolTerminates == hpc # "idle" ~> hpc = "idle"

\* A run with a good file whose first request reached a running device ends,
\* undisturbed, with that file in the slot the bootloader will start, even if
\* the restart request is discarded.
UpgradeCompletes ==
    \A v \in GoodImages :
        hpc = "infoA" /\ himage = v /\ mode = "run" /\ toDev # <<>>
            ~> \E s \in Slots : Holds(flash, s, v) /\ BootOutcome(flash) = s

--------------------------------------------------------------------------------
(* What the comments and messages of the code say, and the code does not do. *)

\* partition.h:200: "App is not valid, do not jump". The bootloader ends
\* without code to run only if neither slot holds a good build.
InvalidAppSkipped == mode = "dead" => ~SomeSlotIntact

\* upgrade.cpp:469: "Firmware upgrade completed successfully" is printed only
\* if the slot that BOOTFROM now names holds the file.
CompletedIsStored ==
    hpc = "final" /\ acked /\ hpart = "BOOT" => Holds(flash, target, himage)
================================================================================
