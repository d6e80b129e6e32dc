------------------------------ MODULE BootUpdate ------------------------------
(***************************************************************************)
(* The update of the application by the bootloader (bootloader/            *)
(* nb4_update.cpp, boot_nb4_update.cpp, boot.cpp).                         *)
(*                                                                         *)
(* The host stages an image in memory from the interrupt of USB.  The main *)
(* loop erases and programs the flash, one operation a step.  Each         *)
(* operation may fail half way, and power may be lost or the watchdog run  *)
(* out in the middle of any of them.                                       *)
(*                                                                         *)
(* The flash is a row of parts: the two vectors, the blocks of the         *)
(* application, and the manifest.  A part holds what an image has there,   *)
(* is erased, or is torn.  A checksum accepts only the parts of its image. *)
(***************************************************************************)
EXTENDS Naturals

CONSTANTS
  Images,               \* the images that the host may send
  None, Erased, Torn,
  Last,                 \* the part of the manifest, the last one of the flash
  Size,                 \* the number of parts of an image
  LastSector, Sector,   \* the sector of a part
  MaxFaults             \* bound: resets, operations that fail and transfers that go wrong

ASSUME BootAssumption ==
  /\ None \notin Images /\ Erased \notin Images /\ Torn \notin Images
  /\ None # Erased /\ None # Torn /\ Erased # Torn
  /\ Last \in Nat /\ LastSector \in Nat /\ MaxFaults \in Nat
  /\ Size \in [Images -> 2 .. Last]
  /\ Sector \in [0 .. Last -> 0 .. LastSector]

VARIABLES
  mode,                          \* what runs
  resume,                        \* the restart that was asked for is to start the application
  flash,
  current, manifest, received,   \* the Updater
  intact,                        \* what was staged is what the manifest says
  at, next,                      \* where the main loop is, and its sector or part
  mayExit,
  faults

staged == <<manifest, received, intact>>
loop == <<at, next, mayExit>>
vars == <<mode, resume, flash, current, staged, loop, faults>>

Parts == 0 .. Last

-----------------------------------------------------------------------------
(* The checks.                                                             *)

\* The image that validApplication() accepts in the flash.
ValidApplication(f) ==
  IF f[Last] \in Images /\ \A p \in 0 .. Size[f[Last]] - 1 : f[p] = f[Last]
  THEN f[Last] ELSE None

Bootable == ValidApplication(flash)

StagedWhole == manifest \in Images /\ received = Size[manifest] + 1

Written(i) == [p \in Parts |-> IF p < Size[i] \/ p = Last THEN i ELSE Erased]

-----------------------------------------------------------------------------
Init ==
  /\ mode = "off" /\ resume = FALSE
  /\ flash \in {[p \in Parts |-> Erased]} \union {Written(i) : i \in Images}
  /\ current = "Receiving" /\ manifest = None /\ received = 0 /\ intact = TRUE
  /\ at = "loop" /\ next = 0 /\ mayExit = FALSE
  /\ faults = 0

\* The memory of the bootloader after a reset.
Reset ==
  /\ current' = "Receiving" /\ manifest' = None /\ received' = 0 /\ intact' = TRUE
  /\ at' = "loop" /\ next' = 0

\* bootloaderInitApp() starts the application, if the updater is not asked for by a
\* command or a button and the application is valid.
Boot(updater) ==
  /\ mode = "off"
  /\ IF ~updater /\ Bootable # None
     THEN mode' = "app" /\ UNCHANGED mayExit
     ELSE mode' = "updater" /\ mayExit' = (Bootable # None)
  /\ resume' = FALSE
  /\ UNCHANGED <<flash, current, staged, at, next, faults>>

-----------------------------------------------------------------------------
(* The interrupt of USB.                                                   *)

\* Fault: a write is only refused while it would be overwritten anyway.
BusyInstalling == current \in {"Queued", "Restart"}

\* Nothing is taken while an image is installed.
Busy == current \in {"Queued", "Installing", "Restart"}

Usb == mode = "updater" /\ UNCHANGED <<mode, resume, flash, loop>>

\* Things only go wrong so often.
Fault(wrong) ==
  IF wrong THEN faults < MaxFaults /\ faults' = faults + 1 ELSE UNCHANGED faults

\* A write at StageAddress: the manifest of a new image.  If the write is longer than the
\* image it is refused, but the manifest is already the new one.
WriteHeader(i) ==
  /\ Usb /\ ~Busy
  /\ current' = "Receiving" /\ manifest' = i /\ received' \in {0, 1} /\ intact' = TRUE
  /\ Fault(received' = 0 \/ (current = "Receiving" /\ received # 0))

\* Fault: a block past the end of the image is taken.
WriteBlockAny(right) ==
  /\ Usb /\ current = "Receiving"
  /\ manifest \in Images /\ received # 0
  /\ received' = received + 1 /\ intact' = (intact /\ right)
  /\ Fault(~right)
  /\ UNCHANGED <<current, manifest>>

\* The block that comes next; what the host sends may not be what the manifest says.
WriteBlock(right) ==
  /\ Usb /\ current = "Receiving"
  /\ manifest \in Images /\ received \in 1 .. Size[manifest]
  /\ received' = received + 1 /\ intact' = (intact /\ right)
  /\ Fault(~right)
  /\ UNCHANGED <<current, manifest>>

\* APXSTART
Start ==
  /\ Usb /\ current = "Receiving" /\ StagedWhole
  /\ current' = "Queued" /\ UNCHANGED <<staged, faults>>

\* APXRESET
AskRestart ==
  /\ Usb /\ current = "Done"
  /\ current' = "Restart" /\ UNCHANGED <<staged, faults>>

-----------------------------------------------------------------------------
(* install(), called by the main loop.                                     *)

Goes(from, to) == mode = "updater" /\ at = from /\ at' = to

Kept == UNCHANGED <<mode, resume, staged>>

\* Fault: an image that could not be installed is tried again and again.
FailRetries == current' = "Queued" /\ at' = "left" /\ UNCHANGED next

Fail == current' = "Error" /\ at' = "left" /\ UNCHANGED next

Begin ==
  /\ Goes("loop", "check") /\ Kept
  /\ current = "Queued" /\ current' = "Installing"
  /\ mayExit' = FALSE
  /\ UNCHANGED <<flash, next, faults>>

\* Fault: the radio trusts the readback of the host.
CheckNothing ==
  /\ Goes("check", "erase") /\ Kept
  /\ next' = 0
  /\ UNCHANGED <<flash, current, mayExit, faults>>

Check ==
  /\ mode = "updater" /\ at = "check" /\ Kept
  /\ IF intact THEN at' = "erase" /\ next' = 0 /\ UNCHANGED current ELSE Fail
  /\ UNCHANGED <<flash, mayExit, faults>>

\* The parts that the operation on the flash at this point changes, and to what.
Touched ==
  CASE at = "erase" -> {p \in Parts : Sector[p] = next}
    [] at = "body" /\ next < Size[manifest] -> {next}
    [] at = "manifest" -> {Last}
    [] at = "vector1" -> {1}
    [] at = "vector0" -> {0}
    [] OTHER -> {}

Target(p) ==
  IF at = "erase" THEN Erased ELSE IF flash[p] = Erased THEN manifest ELSE Torn

Changed(done, torn) ==
  [p \in Parts |-> IF p \in torn THEN Torn ELSE IF p \in done THEN Target(p) ELSE flash[p]]

Partly == \E done \in SUBSET Touched, torn \in SUBSET Touched : flash' = Changed(done, torn)

Erase ==
  /\ mode = "updater" /\ at = "erase" /\ Kept
  /\ \/ /\ flash' = Changed(Touched, {}) /\ UNCHANGED current
        /\ IF next = LastSector THEN at' = "body" /\ next' = 2 ELSE at' = at /\ next' = next + 1
     \/ Partly /\ Fail
  /\ Fault(current' = "Error") /\ UNCHANGED mayExit

\* A block is programmed and read back; the vectors are left out.
ProgramBody ==
  /\ mode = "updater" /\ at = "body" /\ Kept
  /\ IF next >= Size[manifest]
     THEN at' = "manifest" /\ UNCHANGED <<flash, current, next>>
     ELSE \/ /\ flash' = Changed({next}, {}) /\ flash'[next] = manifest
             /\ next' = next + 1 /\ UNCHANGED <<current, at>>
          \/ Partly /\ Fail
  /\ Fault(current' = "Error") /\ UNCHANGED mayExit

ProgramManifest ==
  /\ mode = "updater" /\ at = "manifest" /\ Kept
  /\ \/ /\ flash' = Changed({Last}, {}) /\ flash'[Last] = manifest
        /\ at' = "vector1" /\ UNCHANGED <<current, next>>
     \/ Partly /\ Fail
  /\ Fault(current' = "Error") /\ UNCHANGED mayExit

\* The vectors are not read back one by one.
ProgramVector(from, to) ==
  /\ mode = "updater" /\ at = from /\ Kept
  /\ \/ Partly /\ at' = to /\ UNCHANGED <<current, next>>
     \/ Partly /\ Fail
  /\ Fault(current' = "Error" \/ flash' # Changed(Touched, {})) /\ UNCHANGED mayExit

\* The whole application is checked once more.
Verify ==
  /\ Goes("verify", "left") /\ Kept
  /\ current' = IF flash[Last] = manifest /\ Bootable # None THEN "Done" ELSE "Error"
  /\ UNCHANGED <<flash, next, mayExit, faults>>

\* Fault: what was found at the start is restored.
LeaveStale ==
  /\ Goes("left", "loop") /\ Kept
  /\ mayExit' = TRUE
  /\ UNCHANGED <<flash, current, next, faults>>

Leave ==
  /\ Goes("left", "loop") /\ Kept
  /\ mayExit' = (Bootable # None)
  /\ UNCHANGED <<flash, current, next, faults>>

Install ==
  \/ Begin \/ Check \/ Erase \/ ProgramBody \/ ProgramManifest
  \/ ProgramVector("vector1", "vector0") \/ ProgramVector("vector0", "verify")
  \/ Verify \/ Leave

-----------------------------------------------------------------------------
(* The end of the updater.                                                 *)

\* restartApplication(), once the host has asked for it.
Restart ==
  /\ mode = "updater" /\ at = "loop" /\ current = "Restart"
  /\ mode' = "off" /\ resume' = TRUE /\ Reset /\ UNCHANGED <<flash, mayExit, faults>>

\* The power button is held: the application is started, or power cut when there is none.
PowerButton ==
  /\ mode = "updater" /\ at = "loop" /\ Fault(TRUE)
  /\ mode' = "off" /\ resume' = mayExit /\ Reset /\ UNCHANGED <<flash, mayExit>>

\* Power is lost, or the watchdog runs out.
PowerLoss ==
  /\ mode # "off" /\ Fault(mode = "updater")
  /\ Partly
  /\ mode' = "off" /\ resume' = FALSE /\ Reset /\ UNCHANGED mayExit

Next ==
  \/ \E updater \in BOOLEAN : Boot(updater)
  \/ \E i \in Images : WriteHeader(i)
  \/ \E right \in BOOLEAN : WriteBlock(right)
  \/ Start \/ AskRestart \/ Install
  \/ Restart \/ PowerButton \/ PowerLoss

Spec == Init /\ [][Next]_vars

\* The radio is switched on, its main loop runs, and a host that finds an idle updater
\* sends an image and starts it.
FairSpec ==
  /\ Spec
  /\ WF_vars(\E updater \in BOOLEAN : Boot(updater))
  /\ WF_vars(Install)
  /\ WF_vars((received = 0 \/ current = "Error") /\ \E i \in Images : WriteHeader(i))
  /\ WF_vars(WriteBlock(TRUE)) /\ WF_vars(Start)

-----------------------------------------------------------------------------
(* Properties.                                                             *)

\* The types of the variables.
TypeOK ==
  /\ mode \in {"off", "app", "updater"} /\ resume \in BOOLEAN
  /\ flash \in [Parts -> Images \union {Erased, Torn}]
  /\ current \in {"Receiving", "Queued", "Installing", "Done", "Error", "Restart"}
  /\ manifest \in Images \union {None} /\ received \in 0 .. Last + 1 /\ intact \in BOOLEAN
  /\ at \in {"loop", "check", "erase", "body", "manifest", "vector1", "vector0", "verify", "left"}
  /\ next \in 0 .. Last + LastSector /\ mayExit \in BOOLEAN
  /\ faults \in 0 .. MaxFaults

\* The flash implements a slot: wherever an update fails or power is lost, the application
\* is only given up for an image that is staged whole and right, and what a start accepts
\* next is that image, never a mixture ("leave the vectors erased until all other bytes have
\* been read back").
Offered == IF StagedWhole /\ intact THEN manifest ELSE None

Slot == INSTANCE BootSlot WITH bootable <- Bootable, offered <- Offered
SlotSpec == Slot!Spec

\* A restart that skips the power button always finds an application to start, however
\* stale mayExit could be (boot_nb4_update.cpp).
ResumeStarts == resume => Bootable # None

\* No failure leaves the radio without a way to a new application: as long as a host
\* offers images, one is installed.
Recovers == Bootable = None ~> Bootable # None
=============================================================================
