--------------------------- MODULE BootUpdate_proofs ---------------------------
(***************************************************************************)
(* Proofs about BootUpdate, for any images, parts and sectors.             *)
(*                                                                         *)
(* The inductive invariant says what the staged image and the first vector *)
(* are by the step of the install: the vector is erased from the first     *)
(* sector on until everything else has been programmed.                    *)
(***************************************************************************)
EXTENDS BootUpdate, TLAPS

Operations == {"erase", "body", "manifest", "vector1", "vector0", "verify"}
Steps == Operations \union {"check"}

\* What is staged stays whole while it is installed.
Holding ==
  /\ mode # "updater" => at = "loop" /\ current = "Receiving"
  /\ at \in Steps => current = "Installing" /\ StagedWhole
  /\ at \in Operations => intact
  /\ current = "Queued" => StagedWhole
  /\ current = "Installing" => at \in Steps

\* Where the install is in the flash.
Progress ==
  /\ at = "erase" => next \in 0 .. LastSector /\ (Sector[0] < next => flash[0] = Erased)
  /\ at = "body" => next \in 2 .. Size[manifest]
  /\ at \in {"body", "manifest", "vector1", "vector0"} => flash[0] = Erased
  /\ at \in {"vector1", "vector0"} => flash[Last] = manifest

\* What says that there is an application is right.
Exits ==
  /\ resume => mode = "off" /\ Bootable # None
  /\ mode = "updater" /\ mayExit => at = "loop" /\ Bootable # None
  /\ current \in {"Done", "Restart"} => Bootable # None

Inv == TypeOK /\ Holding /\ Progress /\ Exits

-----------------------------------------------------------------------------
(* The flash.                                                              *)

\* What is accepted is an image, or nothing.
LEMMA BootableType == Bootable \in Images \union {None}
BY DEF Bootable, ValidApplication

\* With its first vector erased, no application is accepted.
LEMMA ErasedVector ==
  ASSUME TypeOK, flash[0] = Erased
  PROVE  Bootable = None
BY BootAssumption DEF TypeOK, Bootable, ValidApplication, Parts

\* The parts that an operation touches are parts of the flash.
LEMMA TouchedParts == ASSUME TypeOK, StagedWhole PROVE Touched \subseteq Parts
<1>1. Size[manifest] \in 2 .. Last /\ Last \in Nat
  BY BootAssumption DEF StagedWhole
<1>2. 0 \in Parts /\ 1 \in Parts /\ Last \in Parts
  BY <1>1 DEF Parts
<1>3. next \in Nat
  BY BootAssumption DEF TypeOK
<1>4. next < Size[manifest] => next \in Parts
  BY <1>1, <1>3 DEF Parts
<1> QED
  BY <1>2, <1>4 DEF Touched

\* However far an operation came, the flash is a flash.
LEMMA PartlyTyped ==
  ASSUME TypeOK, Partly, at \in Operations => StagedWhole
  PROVE  flash' \in [Parts -> Images \union {Erased, Torn}]
<1>1. PICK done \in SUBSET Touched, torn \in SUBSET Touched : flash' = Changed(done, torn)
  BY DEF Partly
<1>2. \A p \in done : Target(p) \in Images \union {Erased, Torn}
  <2>1. CASE done = {}
    BY <2>1
  <2>2. CASE done # {}
    <3>1. at \in Operations
      BY <2>2 DEF Touched, Operations
    <3>2. manifest \in Images
      BY <3>1 DEF StagedWhole
    <3> QED
      BY <3>2 DEF Target
  <2> QED
    BY <2>1, <2>2
<1> QED
  BY <1>1, <1>2 DEF Changed, TypeOK

\* An operation that succeeded is one that came as far as it can.
LEMMA WholeIsPartly == flash' = Changed(Touched, {}) => Partly
BY DEF Partly

\* Where nothing is touched, nothing changes.
LEMMA Untouched ==
  ASSUME TypeOK, Partly, at \in {"loop", "check", "verify", "left"}
  PROVE  flash' = flash
<1>1. Touched = {}
  BY DEF Touched
<1>2. flash' = Changed({}, {})
  BY <1>1 DEF Partly
<1> QED
  BY <1>2 DEF Changed, TypeOK

\* An operation that does not touch the first vector leaves it as it is.
LEMMA VectorKept ==
  ASSUME TypeOK, StagedWhole, Partly, at \in {"body", "manifest", "vector1"}, at = "body" => next # 0
  PROVE  flash'[0] = flash[0]
<1>1. Size[manifest] \in 2 .. Last /\ Last \in Nat /\ 0 \in Parts
  BY BootAssumption DEF StagedWhole, Parts
<1>2. 0 \notin Touched
  BY <1>1 DEF Touched
<1> QED
  BY <1>1, <1>2 DEF Partly, Changed

\* Erasing, as far as it came, leaves the application or makes it invalid.
LEMMA EraseEmpties ==
  ASSUME TypeOK, StagedWhole, Partly, at = "erase"
  PROVE  Bootable' \in {Bootable, None}
<1>1. PICK done \in SUBSET Touched, torn \in SUBSET Touched : flash' = Changed(done, torn)
  BY DEF Partly
<1>2. \A p \in Parts : flash'[p] \in {flash[p], Erased, Torn}
  BY <1>1 DEF Changed, Target
<1>3. Last \in Parts /\ \A i \in Images : Size[i] \in 2 .. Last
  BY BootAssumption DEF Parts
<1>4. \A i \in Images : \A p \in 0 .. Size[i] - 1 : p \in Parts
  BY <1>3, BootAssumption DEF Parts
<1>5. ASSUME flash'[Last] \in Images, \A p \in 0 .. Size[flash'[Last]] - 1 : flash'[p] = flash'[Last]
      PROVE  Bootable = flash'[Last]
  <2>1. flash[Last] = flash'[Last]
    BY <1>2, <1>3, <1>5, BootAssumption
  <2>2. \A p \in 0 .. Size[flash[Last]] - 1 : flash[p] = flash[Last]
    BY <1>2, <1>4, <1>5, <2>1, BootAssumption
  <2> QED
    BY <1>5, <2>1, <2>2 DEF Bootable, ValidApplication
<1> QED
  BY <1>5 DEF Bootable, ValidApplication

\* Programming the first vector, as far as it came, completes the staged image or nothing.
LEMMA VectorCompletes ==
  ASSUME TypeOK, StagedWhole, Partly, at = "vector0", flash[Last] = manifest
  PROVE  Bootable' \in {manifest, None}
<1>1. PICK done \in SUBSET Touched, torn \in SUBSET Touched : flash' = Changed(done, torn)
  BY DEF Partly
<1>2. Size[manifest] \in 2 .. Last /\ Last \in Nat
  BY BootAssumption DEF StagedWhole
<1>3. Last \in Parts /\ Last # 0
  BY <1>2 DEF Parts
<1>4. Touched = {0}
  BY DEF Touched
<1>5. flash'[Last] = manifest
  BY <1>1, <1>3, <1>4 DEF Changed
<1> QED
  BY <1>5 DEF Bootable, ValidApplication

-----------------------------------------------------------------------------
(* The invariant.                                                          *)

\* Zero is a sector, a part, a length and a count.
LEMMA ZeroTyped == 0 \in 0 .. Last + 1 /\ 0 \in 0 .. Last + LastSector /\ 0 \in 0 .. MaxFaults
BY BootAssumption

\* The radio is switched off at first.
LEMMA InitInv == Init => Inv
<1> SUFFICES ASSUME Init PROVE Inv
  OBVIOUS
<1>1. flash \in [Parts -> Images \union {Erased, Torn}]
  BY DEF Init, Written
<1>2. TypeOK
  BY <1>1, ZeroTyped DEF Init, TypeOK
<1> QED
  BY <1>2 DEF Init, Inv, Holding, Progress, Exits, Steps, Operations

\* A start, and what the interrupt of USB takes.
LEMMA UsbKeeps ==
  ASSUME Inv,
         \/ \E updater \in BOOLEAN : Boot(updater)
         \/ \E i \in Images : WriteHeader(i)
         \/ \E right \in BOOLEAN : WriteBlock(right)
         \/ Start \/ AskRestart
  PROVE  Inv'
<1> USE BootAssumption DEF Inv, Steps, Operations
<1>0. UNCHANGED flash /\ Bootable' = Bootable
  BY DEF Boot, WriteHeader, WriteBlock, Start, AskRestart, Usb, Bootable
<1>1. CASE \E updater \in BOOLEAN : Boot(updater)
  <2>1. PICK updater \in BOOLEAN : Boot(updater)
    BY <1>1
  <2>2. TypeOK'
    BY <2>1 DEF Boot, TypeOK, staged
  <2> QED
    BY <1>0, <2>1, <2>2 DEF Boot, TypeOK, Holding, Progress, Exits, StagedWhole, staged
<1>2. CASE \E i \in Images : WriteHeader(i)
  <2>1. PICK i \in Images : WriteHeader(i)
    BY <1>2
  <2>2. TypeOK'
    BY <2>1 DEF WriteHeader, Usb, Fault, TypeOK, loop
  <2> QED
    BY <1>0, <2>1, <2>2 DEF WriteHeader, Usb, Busy, TypeOK, Holding, Progress, Exits, loop
<1>3. CASE \E right \in BOOLEAN : WriteBlock(right)
  <2>1. PICK right \in BOOLEAN : WriteBlock(right)
    BY <1>3
  <2>2. Size[manifest] \in 2 .. Last
    BY <2>1 DEF WriteBlock
  <2>3. TypeOK'
    BY <2>1, <2>2 DEF WriteBlock, Usb, Fault, TypeOK, loop
  <2> QED
    BY <1>0, <2>1, <2>3 DEF WriteBlock, Usb, TypeOK, Holding, Progress, Exits, loop
<1>4. CASE Start \/ AskRestart
  <2>1. TypeOK'
    BY <1>4 DEF Start, AskRestart, Usb, TypeOK, loop, staged
  <2> QED
    BY <1>0, <1>4, <2>1
       DEF Start, AskRestart, Usb, TypeOK, Holding, Progress, Exits, StagedWhole, loop, staged
<1> QED
  BY <1>1, <1>2, <1>3, <1>4

\* The steps of an install that leave the flash alone.
LEMMA CheckKeeps == Inv /\ (Begin \/ Check \/ Verify \/ Leave) => Inv'
<1> SUFFICES ASSUME Inv, Begin \/ Check \/ Verify \/ Leave PROVE Inv'
  OBVIOUS
<1> USE BootAssumption DEF Inv, Steps, Operations, Kept, staged
<1>0. UNCHANGED flash /\ Bootable' = Bootable
  BY DEF Begin, Check, Verify, Leave, Bootable
<1>1. TypeOK'
  <2>1. CASE Begin
    BY <2>1 DEF Begin, Goes, TypeOK
  <2>2. CASE Check
    BY <2>2 DEF Check, Fail, TypeOK
  <2>3. CASE Verify
    BY <2>3 DEF Verify, Goes, TypeOK
  <2>4. CASE Leave
    BY <2>4 DEF Leave, Goes, TypeOK
  <2> QED
    BY <2>1, <2>2, <2>3, <2>4
<1>2. CASE Begin
  BY <1>0, <1>1, <1>2 DEF Begin, Goes, TypeOK, Holding, Progress, Exits, StagedWhole
<1>3. CASE Check
  BY <1>0, <1>1, <1>3 DEF Check, Fail, TypeOK, Holding, Progress, Exits, StagedWhole
<1>4. CASE Verify
  BY <1>0, <1>1, <1>4 DEF Verify, Goes, TypeOK, Holding, Progress, Exits, StagedWhole
<1>5. CASE Leave
  BY <1>0, <1>1, <1>5 DEF Leave, Goes, TypeOK, Holding, Progress, Exits, StagedWhole
<1> QED
  BY <1>2, <1>3, <1>4, <1>5

\* An operation on the flash.
Operate ==
  \/ Erase \/ ProgramBody \/ ProgramManifest
  \/ ProgramVector("vector1", "vector0") \/ ProgramVector("vector0", "verify")

\* What all operations have in common.
LEMMA OperateBasics ==
  ASSUME Inv, Operate
  PROVE  /\ at \in Operations \ {"verify"} /\ mode = "updater" /\ StagedWhole /\ intact
         /\ current = "Installing" /\ ~mayExit /\ ~mayExit' /\ ~resume /\ ~resume'
         /\ UNCHANGED <<mode, manifest, received, intact>>
         /\ Partly
         /\ faults' \in 0 .. MaxFaults
<1>1. at \in Operations \ {"verify"} /\ mode = "updater"
  BY DEF Operate, Erase, ProgramBody, ProgramManifest, ProgramVector, Operations
<1>2. StagedWhole /\ intact /\ current = "Installing" /\ ~mayExit /\ ~resume
  BY <1>1 DEF Inv, Holding, Exits, Steps, Operations, TypeOK
<1>3. UNCHANGED <<mode, manifest, received, intact, resume, mayExit>>
  BY DEF Operate, Erase, ProgramBody, ProgramManifest, ProgramVector, Kept, staged
<1>4. Partly
  <2>1. CASE Erase
    BY <2>1, WholeIsPartly DEF Erase
  <2>2. CASE ProgramBody
    <3>1. CASE next < Size[manifest]
      <4>1. Touched = {next}
        BY <2>2, <3>1 DEF ProgramBody, Touched
      <4>2. next \in Nat /\ Size[manifest] \in Nat
        BY <1>2, BootAssumption DEF Inv, TypeOK, StagedWhole
      <4> QED
        BY <2>2, <3>1, <4>1, <4>2, WholeIsPartly DEF ProgramBody
    <3>2. CASE ~(next < Size[manifest])
      <4>1. Touched = {}
        BY <2>2, <3>2 DEF ProgramBody, Touched
      <4>2. flash = Changed({}, {})
        BY DEF Changed, Inv, TypeOK
      <4>3. next \in Nat /\ Size[manifest] \in Nat
        BY <1>2, BootAssumption DEF Inv, TypeOK, StagedWhole
      <4>4. next >= Size[manifest]
        BY <3>2, <4>3
      <4> QED
        BY <2>2, <4>1, <4>2, <4>4 DEF ProgramBody, Partly
    <3> QED
      BY <3>1, <3>2
  <2>3. CASE ProgramManifest
    <3>1. Touched = {Last}
      BY <2>3 DEF ProgramManifest, Touched
    <3> QED
      BY <2>3, <3>1, WholeIsPartly DEF ProgramManifest
  <2>4. CASE ProgramVector("vector1", "vector0") \/ ProgramVector("vector0", "verify")
    BY <2>4 DEF ProgramVector
  <2> QED
    BY <2>1, <2>2, <2>3, <2>4 DEF Operate
<1>5. faults' \in 0 .. MaxFaults
  BY BootAssumption DEF Operate, Erase, ProgramBody, ProgramManifest, ProgramVector, Fault, Inv, TypeOK
<1> QED
  BY <1>1, <1>2, <1>3, <1>4, <1>5

\* An operation fails, or the install goes on.
LEMMA OperateKeeps == Inv /\ Operate => Inv'
<1> SUFFICES ASSUME Inv, Operate PROVE Inv'
  OBVIOUS
<1> USE DEF Operations, Steps
<1>1. at \in Operations \ {"verify"} /\ mode = "updater" /\ StagedWhole /\ intact
  BY OperateBasics
<1>2. current = "Installing" /\ ~mayExit /\ ~mayExit' /\ ~resume /\ ~resume'
  BY OperateBasics
<1>3. UNCHANGED <<mode, manifest, received, intact>> /\ Partly /\ faults' \in 0 .. MaxFaults
  BY OperateBasics
<1>4. flash' \in [Parts -> Images \union {Erased, Torn}]
  BY <1>1, <1>3, PartlyTyped DEF Inv
<1>5. manifest \in Images /\ Size[manifest] \in 2 .. Last /\ Last \in Nat /\ LastSector \in Nat
  BY <1>1, BootAssumption DEF StagedWhole
<1>6. StagedWhole'
  BY <1>1, <1>3 DEF StagedWhole
<1>7. resume' \in BOOLEAN /\ mayExit' \in BOOLEAN
  BY <1>2, <1>3 DEF Operate, Erase, ProgramBody, ProgramManifest, ProgramVector, Kept, Inv, TypeOK
<1>8. CASE Fail
  BY <1>1, <1>2, <1>3, <1>4, <1>6, <1>7, <1>8
     DEF Fail, Inv, TypeOK, Holding, Progress, Exits
<1>9. CASE ~Fail
  <2>1. UNCHANGED current
    BY <1>9 DEF Operate, Erase, ProgramBody, ProgramManifest, ProgramVector
  <2>2. at' \in Operations /\ next' \in 0 .. Last + LastSector /\ Progress'
    <3>1. CASE Erase
      <4>1. at = "erase" /\ next \in 0 .. LastSector /\ (Sector[0] < next => flash[0] = Erased)
        BY <3>1 DEF Erase, Inv, Progress
      <4>2. flash' = Changed(Touched, {})
        BY <1>9, <3>1 DEF Erase
      <4>3. 0 \in Parts /\ Sector[0] \in 0 .. LastSector
        BY <1>5, BootAssumption DEF Parts
      <4>4. Sector[0] <= next => flash'[0] = Erased
        <5>1. CASE Sector[0] = next
          <6>1. 0 \in Touched
            BY <4>1, <4>3, <5>1 DEF Touched
          <6> QED
            BY <4>1, <4>2, <4>3, <6>1 DEF Changed, Target
        <5>2. CASE Sector[0] < next
          BY <4>1, <4>2, <4>3, <5>2 DEF Changed, Target
        <5> QED
          BY <4>1, <4>3, <5>1, <5>2
      <4>5. CASE next = LastSector
        <5>1. at' = "body" /\ next' = 2
          BY <1>9, <3>1, <4>5 DEF Erase
        <5>2. flash'[0] = Erased
          BY <4>3, <4>4, <4>5, <1>5
        <5> QED
          BY <1>3, <1>5, <5>1, <5>2 DEF Progress
      <4>6. CASE next # LastSector
        <5>1. at' = "erase" /\ next' = next + 1
          BY <1>9, <3>1, <4>1, <4>6 DEF Erase
        <5>2. next' \in 0 .. LastSector /\ (Sector[0] < next' => flash'[0] = Erased)
          BY <1>5, <4>1, <4>3, <4>4, <4>6, <5>1
        <5> QED
          BY <1>5, <5>1, <5>2 DEF Progress
      <4> QED
        BY <4>5, <4>6
    <3>2. CASE ProgramBody
      <4>1. at = "body" /\ next \in 2 .. Size[manifest] /\ flash[0] = Erased
        BY <3>2 DEF ProgramBody, Inv, Progress
      <4>2. flash'[0] = Erased
        BY <1>1, <1>3, <4>1, VectorKept DEF Inv
      <4>3. CASE next >= Size[manifest]
        BY <1>5, <3>2, <4>1, <4>2, <4>3 DEF ProgramBody, Progress
      <4>4. CASE ~(next >= Size[manifest])
        BY <1>3, <1>5, <1>9, <3>2, <4>1, <4>2, <4>4 DEF ProgramBody, Progress
      <4> QED
        BY <4>3, <4>4
    <3>3. CASE ProgramManifest
      <4>1. flash'[0] = Erased
        BY <1>1, <1>3, <3>3, VectorKept DEF ProgramManifest, Inv, Progress
      <4> QED
        BY <1>3, <1>9, <3>3, <4>1 DEF ProgramManifest, Progress, Inv, TypeOK
    <3>4. CASE ProgramVector("vector1", "vector0")
      <4>1. flash'[0] = Erased
        BY <1>1, <1>3, <3>4, VectorKept DEF ProgramVector, Inv, Progress
      <4>2. Touched = {1} /\ Last \in Parts /\ Last # 1 /\ flash[Last] = manifest
        BY <1>5, <3>4 DEF ProgramVector, Touched, Parts, Inv, Progress
      <4>3. flash'[Last] = manifest
        BY <1>3, <4>2 DEF Partly, Changed
      <4> QED
        BY <1>3, <1>9, <3>4, <4>1, <4>3 DEF ProgramVector, Progress, Inv, TypeOK
    <3>5. CASE ProgramVector("vector0", "verify")
      BY <1>9, <3>5 DEF ProgramVector, Progress, Inv, TypeOK
    <3> QED
      BY <3>1, <3>2, <3>3, <3>4, <3>5 DEF Operate
  <2> QED
    BY <1>1, <1>2, <1>3, <1>4, <1>6, <1>7, <2>1, <2>2 DEF Inv, TypeOK, Holding, Exits
<1> QED
  BY <1>8, <1>9

\* The updater is left, by a restart or by a loss of power.
LEMMA ResetKeeps == Inv /\ (Restart \/ PowerButton \/ PowerLoss) => Inv'
<1> SUFFICES ASSUME Inv, Restart \/ PowerButton \/ PowerLoss PROVE Inv'
  OBVIOUS
<1> USE BootAssumption DEF Inv, Reset, Steps, Operations
<1>1. TypeOK'
  <2>1. flash' \in [Parts -> Images \union {Erased, Torn}]
    <3>1. CASE Restart \/ PowerButton
      BY <3>1 DEF Restart, PowerButton, TypeOK
    <3>2. CASE PowerLoss
      BY <3>2, PartlyTyped DEF PowerLoss, Holding
    <3> QED
      BY <3>1, <3>2
  <2>2. faults' \in 0 .. MaxFaults
    BY DEF Restart, PowerButton, PowerLoss, Fault, TypeOK
  <2> QED
    BY <2>1, <2>2, ZeroTyped DEF Restart, PowerButton, PowerLoss, TypeOK
<1>2. CASE Restart
  <2>1. Bootable # None /\ Bootable' = Bootable
    BY <1>2 DEF Restart, Exits, Bootable
  <2> QED
    BY <1>1, <1>2, <2>1 DEF Restart, Holding, Progress, Exits
<1>3. CASE PowerButton
  <2>1. (mayExit => Bootable # None) /\ Bootable' = Bootable
    BY <1>3 DEF PowerButton, Exits, Bootable
  <2> QED
    BY <1>1, <1>3, <2>1 DEF PowerButton, Holding, Progress, Exits
<1>4. CASE PowerLoss
  BY <1>1, <1>4 DEF PowerLoss, Holding, Progress, Exits
<1> QED
  BY <1>2, <1>3, <1>4

\* Every step keeps the invariant.
LEMMA StepInv == Inv /\ [Next]_vars => Inv'
<1> SUFFICES ASSUME Inv, [Next]_vars PROVE Inv'
  OBVIOUS
<1>1. CASE UNCHANGED vars
  BY <1>1 DEF vars, staged, loop, Inv, TypeOK, Holding, Progress, Exits, StagedWhole, Bootable
<1>2. CASE Install
  BY <1>2, CheckKeeps, OperateKeeps DEF Install, Operate
<1>3. CASE Restart \/ PowerButton \/ PowerLoss
  BY <1>3, ResetKeeps
<1>4. CASE Next /\ ~Install /\ ~(Restart \/ PowerButton \/ PowerLoss)
  BY <1>4, UsbKeeps DEF Next
<1> QED
  BY <1>1, <1>2, <1>3, <1>4

-----------------------------------------------------------------------------
(* The slot.                                                               *)

slotVars == <<Bootable, Offered>>

\* A step that leaves the flash alone offers something or nothing.
LEMMA OfferMaps == ASSUME TypeOK', UNCHANGED flash PROVE Slot!Next
<1>1. Offered' \in Images \union {None}
  BY DEF TypeOK, Offered
<1>2. UNCHANGED Bootable
  BY DEF Bootable
<1> QED
  BY <1>1, <1>2 DEF Slot!Next, Slot!Offer

\* An operation gives the application up for the staged image, or completes it.
LEMMA FlashMaps ==
  ASSUME Inv, TypeOK', Partly, at \in Operations \ {"verify"}
  PROVE  Slot!Next
<1>1. Offered' \in Images \union {None}
  BY DEF TypeOK, Offered
<1>2. StagedWhole /\ intact /\ Offered = manifest /\ manifest # None
  BY BootAssumption DEF Inv, Holding, Steps, Operations, Offered, StagedWhole
<1>3. CASE at = "erase"
  <2>1. Bootable' \in {Bootable, None}
    BY <1>2, <1>3, EraseEmpties DEF Inv
  <2> QED
    BY <1>1, <1>2, <2>1 DEF Slot!Next, Slot!Offer, Slot!Begin
<1>4. CASE at \in {"body", "manifest", "vector1"}
  <2>1. flash[0] = Erased /\ (at = "body" => next # 0)
    BY <1>4 DEF Inv, Progress
  <2>2. flash'[0] = Erased
    BY <1>2, <1>4, <2>1, VectorKept DEF Inv
  <2>3. Bootable = None
    BY <2>1, ErasedVector DEF Inv
  <2>4. Bootable' = None
    BY <2>2, BootAssumption DEF TypeOK, Bootable, ValidApplication, Parts
  <2> QED
    BY <1>1, <2>3, <2>4 DEF Slot!Next, Slot!Offer
<1>5. CASE at = "vector0"
  <2>1. flash[0] = Erased /\ flash[Last] = manifest
    BY <1>5 DEF Inv, Progress
  <2>2. Bootable = None
    BY <2>1, ErasedVector DEF Inv
  <2>3. Bootable' \in {manifest, None}
    BY <1>2, <1>5, <2>1, VectorCompletes DEF Inv
  <2> QED
    BY <1>1, <1>2, <2>2, <2>3 DEF Slot!Next, Slot!Offer, Slot!Commit, Slot!Begin
<1> QED
  BY <1>3, <1>4, <1>5 DEF Operations

\* Every step is a step of the slot or none.
LEMMA StepMaps == Inv /\ TypeOK' /\ [Next]_vars => [Slot!Next]_slotVars
<1> SUFFICES ASSUME Inv, TypeOK', [Next]_vars PROVE [Slot!Next]_slotVars
  OBVIOUS
<1>1. CASE UNCHANGED flash
  BY <1>1, OfferMaps
<1>2. CASE Operate
  BY <1>2, OperateBasics, FlashMaps
<1>3. CASE PowerLoss
  <2>1. CASE at \in Operations \ {"verify"}
    BY <1>3, <2>1, FlashMaps DEF PowerLoss
  <2>2. CASE at \notin Operations \ {"verify"}
    <3>1. at \in {"loop", "check", "verify", "left"}
      BY <2>2 DEF Inv, TypeOK, Operations
    <3> QED
      BY <1>1, <1>3, <3>1, Untouched DEF PowerLoss, Inv
  <2> QED
    BY <2>1, <2>2
<1>4. CASE ~Operate /\ ~PowerLoss
  <2>1. UNCHANGED flash
    BY <1>4 DEF Next, Boot, WriteHeader, WriteBlock, Start, AskRestart, Usb, Install, Operate, Begin,
                Check, Verify, Leave, Restart, PowerButton, vars
  <2> QED
    BY <1>1, <2>1
<1> QED
  BY <1>2, <1>3, <1>4

-----------------------------------------------------------------------------
(* The theorems.                                                           *)

\* The step of the install, what is staged and the first vector fit together in every
\* reachable state.
THEOREM InvAlways == Spec => []Inv
BY InitInv, StepInv, PTL DEF Spec

\* Every variable keeps its type for any images, parts and sectors.
THEOREM TypeCorrect == Spec => []TypeOK
<1>1. Inv => TypeOK
  BY DEF Inv
<1> QED
  BY <1>1, InvAlways, PTL

\* Wherever an update fails or power is lost, the application is only given up for an image
\* that is staged whole, and what a start accepts next is that image.
THEOREM ImplementsSlot == Spec => SlotSpec
<1>1. Init => Slot!Init
  BY BootableType, BootAssumption DEF Init, Slot!Init, Offered, StagedWhole
<1>2. Inv => TypeOK
  BY DEF Inv
<1>3. Spec => [][Slot!Next]_slotVars
  BY <1>2, InvAlways, StepMaps, PTL DEF Spec
<1>4. SlotSpec <=> Slot!Init /\ [][Slot!Next]_slotVars
  BY DEF SlotSpec, Slot!Spec, slotVars
<1> QED
  BY <1>1, <1>3, <1>4, PTL DEF Spec

\* A restart that skips the power button finds an application to start.
THEOREM ResumeSound == Spec => []ResumeStarts
<1>1. Inv => ResumeStarts
  BY DEF Inv, Exits, ResumeStarts
<1> QED
  BY <1>1, InvAlways, PTL
=============================================================================
