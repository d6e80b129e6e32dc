-------------------------- MODULE RfJournal_proofs --------------------------
(***************************************************************************)
(* The journal keeps its last verified record, for every content, every    *)
(* number of writes and every pattern of torn writes and unreadable files. *)
(***************************************************************************)
EXTENDS RfJournal, TLAPS

\* The file of the last record that was read back, and the one written next.
Kept == SlotOf(journalSequence)
Target == SlotOf(journalSequence + 1)

\* The record that journal() began and did not see verified.
Unverified == Valid(Target) /\ slots[Target].sequence = journalSequence + 1

\* Each record is in the file of its number, and two records have neighbouring numbers.
InTurn ==
  /\ \A i \in Slots : Valid(i) => slots[i].sequence \in 1 .. MaxSequence /\ SlotOf(slots[i].sequence) = i
  /\ Valid(0) /\ Valid(1) => \/ slots[0].sequence = slots[1].sequence + 1
                             \/ slots[1].sequence = slots[0].sequence + 1

\* What a writer may rely on: its kept file holds its last number, and only the target
\* file may hold something newer.
WriterView ==
  /\ journalSequence > 0 => Valid(Kept) /\ slots[Kept].sequence = journalSequence
  /\ journalSequence = 0 => slots[Kept] = NoRecord /\ (Valid(Target) => Unverified)
  /\ Unverified => slots[Target].content \in possible
  /\ slots[Target] # TornRecord /\ ~Unverified => slots[Kept].content \in possible
  /\ ~misread => slots[Kept].content \in possible

WriteInFlight ==
  writing # NoRecord =>
    /\ powered /\ usable
    /\ writing.sequence = journalSequence + 1 /\ writing.sequence \in 1 .. MaxSequence
    /\ writing.content \in Contents /\ writing.content \in possible

IInv ==
  /\ TypeOK /\ InTurn /\ WriteInFlight
  /\ usable => WriterView
  /\ CleanStartIsCurrent /\ VerifiedSurvives

-----------------------------------------------------------------------------

\* Consecutive numbers go to different files.
LEMMA Alternate ==
  ASSUME NEW n \in Nat
  PROVE  SlotOf(n) \in Slots /\ SlotOf(n + 1) = 1 - SlotOf(n)
BY DEF SlotOf, Slots

\* A start without complaint read every file.
LEMMA CleanReadsAll ==
  ASSUME NEW bad \in SUBSET Slots, ~Damaged(bad)
  PROVE  bad = {}
BY DEF Damaged, Spoils, Slots

\* A file holds a record, a torn one, or does not exist.
LEMMA SlotKinds ==
  ASSUME TypeOK, NEW i \in Slots
  PROVE  /\ Valid(i) <=> slots[i] \in Record
         /\ ~Valid(i) <=> slots[i] \in {NoRecord, TornRecord}
         /\ NoRecord # TornRecord /\ NoRecord \notin Record /\ TornRecord \notin Record
BY JournalAssumption DEF TypeOK, Valid, Record, Blank, NoRecord, TornRecord

\* No file yet, and a writer that has read nothing, satisfy the invariant.
LEMMA InitIInv == Init => IInv
<1> SUFFICES ASSUME Init PROVE IInv
  OBVIOUS
<1> USE JournalAssumption DEF Init
<1>1. TypeOK
  <2>1. slots \in [Slots -> Record \union Blank]
    BY DEF Blank
  <2>2. journalSequence \in 0 .. MaxSequence
    OBVIOUS
  <2>3. found \in Contents \union {Missing} /\ possible \subseteq Contents \union {Missing}
    OBVIOUS
  <2> QED
    BY <2>1, <2>2, <2>3 DEF TypeOK
<1>2. InTurn /\ WriteInFlight
  BY DEF InTurn, WriteInFlight, Valid, NoRecord, Slots
<1>3. CleanStartIsCurrent /\ VerifiedSurvives
  BY DEF CleanStartIsCurrent, VerifiedSurvives, Selected, Valid, NoRecord, Slots
<1> QED
  BY <1>1, <1>2, <1>3 DEF IInv

\* After a write, seen through or not, the target file holds one of three things.
LEMMA AfterWrite ==
  ASSUME IInv, writing # NoRecord, NEW record, Leaves(record),
         record \in {slots[Target], TornRecord, writing}
  PROVE  /\ slots' \in [Slots -> Record \union Blank]
         /\ slots'[Target] = record /\ slots'[Kept] = slots[Kept]
         /\ Target \in Slots /\ Kept = 1 - Target
<1>1. journalSequence \in Nat /\ Target \in Slots /\ Kept = 1 - Target
  BY Alternate, JournalAssumption DEF IInv, TypeOK, Kept, Target, Slots
<1>2. SlotOf(writing.sequence) = Target
  BY DEF IInv, WriteInFlight, Target
<1>3. record \in Record \union Blank
  BY <1>1 DEF IInv, TypeOK, Blank
<1>4. slots' = [slots EXCEPT ![Target] = record]
  BY <1>2 DEF Leaves
<1> QED
  BY <1>1, <1>3, <1>4 DEF IInv, TypeOK, Slots

\* What a start selects, in the writer's terms.
LEMMA SelectedInView ==
  ASSUME TypeOK, InTurn, WriterView
  PROVE  Selected({}) = IF Unverified THEN slots[Target] ELSE slots[Kept]
<1>1. journalSequence \in Nat /\ Target \in Slots /\ Kept = 1 - Target
  BY Alternate, JournalAssumption DEF TypeOK, Kept, Target, Slots
<1>2. Kept \in Slots /\ slots[Kept].sequence \in Nat
  BY <1>1 DEF TypeOK, Slots, Record, Blank, NoRecord, TornRecord
<1>3. Valid(Target) => slots[Target].sequence \in Nat
  BY <1>1 DEF InTurn
<1>4. CASE journalSequence = 0
  <2>1. slots[Kept] = NoRecord /\ ~Valid(Kept) /\ (Valid(Target) => Unverified)
    BY <1>2, <1>4, SlotKinds DEF WriterView
  <2> QED
    BY <1>1, <1>2, <2>1 DEF Selected, Unverified, Slots
<1>5. CASE journalSequence > 0
  <2>1. Valid(Kept) /\ slots[Kept].sequence = journalSequence
    BY <1>5 DEF WriterView
  <2>2. Valid(Target) => \/ slots[Target].sequence = journalSequence + 1
                         \/ slots[Target].sequence + 1 = journalSequence
    BY <1>1, <1>3, <2>1 DEF InTurn, Slots
  <2> QED
    BY <1>1, <1>3, <2>1, <2>2 DEF Selected, Unverified, Slots
<1> QED
  BY <1>1, <1>4, <1>5

\* The writer's view is enough for both properties.
LEMMA ViewSuffices ==
  TypeOK /\ InTurn /\ WriterView => CleanStartIsCurrent /\ VerifiedSurvives
<1> SUFFICES ASSUME TypeOK, InTurn, WriterView PROVE CleanStartIsCurrent /\ VerifiedSurvives
  OBVIOUS
<1>1. Target \in Slots
  BY Alternate, JournalAssumption DEF TypeOK, Target, Slots
<1>2. ~Damaged({}) => slots[Target] # TornRecord
  BY <1>1 DEF Damaged, Spoils
<1> QED
  BY <1>2, SelectedInView DEF WriterView, CleanStartIsCurrent, VerifiedSurvives


\* Beginning a write disturbs nothing.
LEMMA BeginKeeps ==
  ASSUME IInv, NEW c \in Contents, BeginWrite(c)
  PROVE  IInv'
<1>1. journalSequence \in Nat /\ journalSequence + 1 \in 1 .. MaxSequence
  BY JournalAssumption DEF IInv, TypeOK, BeginWrite
<1>2. TypeOK'
  BY <1>1 DEF IInv, TypeOK, BeginWrite, Record
<1>3. InTurn' /\ WriteInFlight'
  BY <1>1, JournalAssumption
  DEF IInv, InTurn, WriteInFlight, BeginWrite, Valid, NoRecord
<1>4. WriterView'
  BY DEF IInv, BeginWrite, WriterView, Unverified, Valid, Kept, Target
<1>5. (CleanStartIsCurrent /\ VerifiedSurvives)'
  BY <1>2, <1>3, <1>4, ViewSuffices, PTL
<1> QED
  BY <1>2, <1>3, <1>4, <1>5 DEF IInv

\* A write that is not seen through leaves the number alone; it may have torn the target
\* file or written it.
LEMMA InterruptedKeeps ==
  ASSUME IInv, writing # NoRecord, LeavesAnything,
         journalSequence' = journalSequence, writing' = NoRecord, powered' \in BOOLEAN,
         UNCHANGED <<usable, found, damaged, possible, misread>>
  PROVE  IInv'
<1> PICK record \in {slots[Target], TornRecord, writing} : Leaves(record)
  BY DEF LeavesAnything, IInv, WriteInFlight, Target
<1> USE AfterWrite
<1>1. /\ usable /\ WriterView /\ TypeOK /\ InTurn
      /\ writing.sequence = journalSequence + 1 /\ writing \in Record
      /\ writing.content \in Contents /\ writing.content \in possible
  BY DEF IInv, WriteInFlight, TypeOK
<1>2. journalSequence \in Nat /\ Target' = Target /\ Kept' = Kept
  BY <1>1, JournalAssumption DEF TypeOK, Target, Kept
<1>3. TypeOK'
  BY <1>1 DEF TypeOK
<1>4. InTurn'
  <2>2. CASE record = slots[Target]
    <3>1. slots' = slots
      BY <1>1, <2>2 DEF TypeOK, Slots
    <3> QED
      BY <1>1, <3>1 DEF InTurn, Valid
  <2>3. CASE record = TornRecord
    <3>1. slots'[Target].content = Torn
      BY <2>3 DEF TornRecord
    <3> QED
      BY <1>1, <3>1, JournalAssumption DEF InTurn, Valid, Slots
  <2>4. CASE record = writing
    <3>1. slots'[Target].sequence = journalSequence + 1 /\ journalSequence + 1 \in 1 .. MaxSequence
      BY <1>1, <2>4 DEF IInv, WriteInFlight
    <3>2. Valid(Kept) => slots[Kept].sequence = journalSequence
      BY <1>1, <1>2, JournalAssumption DEF WriterView, Valid, NoRecord
    <3> QED
      BY <1>1, <1>2, <3>1, <3>2 DEF InTurn, Valid, Slots, Target
  <2> QED
    BY <2>2, <2>3, <2>4
<1>5. WriterView'
  <2>1. CASE record = slots[Target]
    <3>1. slots' = slots
      BY <1>1, <2>1 DEF TypeOK, Slots
    <3> QED
      BY <1>1, <1>2, <3>1 DEF WriterView, Unverified, Valid
  <2>2. CASE record = TornRecord
    <3>1. ~Valid(Target)'
      BY <1>2, <2>2, JournalAssumption DEF Valid, TornRecord
    <3> QED
      BY <1>1, <1>2, <2>2, <3>1 DEF WriterView, Unverified, Valid
  <2>3. CASE record = writing
    <3>1. Unverified' /\ slots'[Target].content \in possible
      BY <1>1, <1>2, <2>3 DEF Unverified, Valid
    <3> QED
      BY <1>1, <1>2, <3>1 DEF WriterView, Valid
  <2> QED
    BY <2>1, <2>2, <2>3
<1>6. (CleanStartIsCurrent /\ VerifiedSurvives)'
  BY <1>3, <1>4, <1>5, ViewSuffices, PTL
<1>7. WriteInFlight'
  BY DEF WriteInFlight
<1> QED
  BY <1>3, <1>4, <1>5, <1>6, <1>7 DEF IInv


\* A verified write makes its file the kept one.
LEMMA VerifiedKeeps ==
  ASSUME IInv, WriteVerified
  PROVE  IInv'
<1>1. /\ usable /\ WriterView /\ TypeOK /\ InTurn /\ writing # NoRecord
      /\ writing.sequence = journalSequence + 1 /\ writing \in Record
      /\ writing.sequence \in 1 .. MaxSequence /\ writing.content \in Contents
      /\ Leaves(writing)
      /\ journalSequence' = writing.sequence /\ possible' = {writing.content}
      /\ writing' = NoRecord
      /\ UNCHANGED <<powered, usable, found, damaged, misread>>
  BY DEF IInv, WriteInFlight, TypeOK, WriteVerified
<1>2. /\ slots' \in [Slots -> Record \union Blank]
      /\ slots'[Target] = writing /\ slots'[Kept] = slots[Kept]
      /\ Target \in Slots /\ Kept = 1 - Target
  BY <1>1, AfterWrite
<1>3. journalSequence \in Nat /\ Kept' = Target /\ Target' = 1 - Target
  BY <1>1, Alternate, JournalAssumption DEF TypeOK, Target, Kept
<1>4. TypeOK'
  BY <1>1, <1>2 DEF TypeOK
<1>5. InTurn'
  <2>1. Valid(Kept) => slots[Kept].sequence = journalSequence
    BY <1>1, <1>3, JournalAssumption DEF WriterView, Valid, NoRecord
  <2>2. slots'[Target].sequence = journalSequence + 1
    BY <1>1, <1>2
  <2> QED
    BY <1>1, <1>2, <1>3, <2>1, <2>2 DEF InTurn, Valid, Slots, Target
<1>6. WriterView'
  <2>1. slots'[Target] \in Record /\ slots'[Target] # TornRecord
    BY <1>1, <1>2, JournalAssumption DEF Record, TornRecord
  <2>2. ~Unverified'
    <3>1. Valid(Target)' => slots[Kept].sequence = journalSequence
      BY <1>1, <1>2, <1>3, JournalAssumption DEF WriterView, Valid, NoRecord, Slots
    <3> QED
      BY <1>1, <1>2, <1>3, <3>1 DEF Unverified, Slots
  <2>3. Valid(Kept)' /\ slots'[Kept'].sequence = journalSequence' /\ slots'[Kept'].content \in possible'
    BY <1>1, <1>2, <1>3 DEF Valid
  <2>4. journalSequence' > 0
    BY <1>1, <1>3
  <2> QED
    BY <1>1, <2>2, <2>3, <2>4 DEF WriterView
<1>7. (CleanStartIsCurrent /\ VerifiedSurvives)'
  BY <1>4, <1>5, <1>6, ViewSuffices, PTL
<1>8. WriteInFlight'
  BY <1>1 DEF WriteInFlight
<1> QED
  BY <1>4, <1>5, <1>6, <1>7, <1>8 DEF IInv

\* A start takes over the newest record it can read.
LEMMA BootKeeps ==
  ASSUME IInv, NEW bad \in SUBSET Slots, Boot(bad)
  PROVE  IInv'
<1>1. TypeOK /\ InTurn /\ CleanStartIsCurrent /\ VerifiedSurvives /\ slots' = slots
  BY DEF IInv, Boot
<1>2. writing = NoRecord /\ writing' = NoRecord /\ WriteInFlight'
  BY DEF IInv, WriteInFlight, Boot
<1>3. bad = {} \/ Damaged(bad)
  BY CleanReadsAll
<1>4. possible' = IF Damaged(bad) THEN possible ELSE {Selected(bad).content}
  BY DEF Boot
<1>5. (CleanStartIsCurrent /\ VerifiedSurvives)'
  <2>1. Selected({})' = Selected({}) /\ Damaged({})' = Damaged({})
    BY <1>1 DEF Selected, Damaged, Spoils, Ambiguous, Valid
  <2>2. ~misread' => ~misread /\ bad = {}
    BY DEF Boot
  <2> QED
    BY <1>1, <1>3, <1>4, <2>1, <2>2 DEF CleanStartIsCurrent, VerifiedSurvives
<1>6. InTurn'
  BY <1>1 DEF InTurn, Valid
<1>7. powered' \in BOOLEAN /\ usable' \in BOOLEAN /\ damaged' \in BOOLEAN /\ misread' \in BOOLEAN
  <2>1. usable' = (Selected(bad) # NoRecord \/ ~Present(bad)) /\ misread' = (misread \/ bad # {})
        /\ powered' = TRUE
    BY DEF Boot
  <2>2. damaged' = ((\E i \in Slots : Spoils(i, bad)) \/ Ambiguous(bad))
    BY DEF Boot, Damaged
  <2>3. damaged' \in BOOLEAN
    BY <2>2, Zenon
  <2>4. usable' \in BOOLEAN /\ misread' \in BOOLEAN
    BY <2>1, Zenon
  <2> QED
    BY <2>1, <2>3, <2>4
<1>8. slots' = slots /\ writing' = writing
  BY DEF Boot
<1>9. CASE \A k \in Slots : ~(Valid(k) /\ k \notin bad)
  <2>1. Selected(bad) = NoRecord
    BY <1>9 DEF Selected, Slots
  <2>2. journalSequence' = 0 /\ found' = Missing
    BY <2>1 DEF Boot, NoRecord
  <2>3. usable' => WriterView'
    <3> SUFFICES ASSUME usable' PROVE WriterView'
      OBVIOUS
    <3>1. ~Present(bad)
      BY <2>1 DEF Boot
    <3>2. slots[0] = NoRecord /\ slots[1] = NoRecord
      BY <3>1 DEF Present, Slots
    <3>3. ~Damaged(bad)
      BY <3>1, <3>2, <1>9, JournalAssumption
      DEF Present, Damaged, Spoils, Ambiguous, Slots, NoRecord, TornRecord
    <3>4. possible' = {Missing}
      BY <1>4, <2>1, <3>3 DEF NoRecord
    <3>5. Kept' \in Slots /\ Target' \in Slots
      BY <2>2 DEF Kept, Target, SlotOf, Slots
    <3>6. slots'[Kept'] = NoRecord /\ ~Valid(Target)' /\ ~Unverified'
      BY <1>1, <3>2, <3>5, JournalAssumption DEF Valid, Unverified, Slots, NoRecord
    <3> QED
      BY <2>2, <3>4, <3>6 DEF WriterView, NoRecord
  <2>4. TypeOK'
    <3>1. possible' \subseteq Contents \union {Missing}
      BY <1>1, <1>4, <2>1 DEF TypeOK, NoRecord
    <3> QED
      BY <1>1, <1>7, <1>8, <2>2, <3>1, JournalAssumption DEF TypeOK
  <2> QED
    BY <1>2, <1>5, <1>6, <2>3, <2>4 DEF IInv
<1>10. ASSUME NEW k \in Slots, Valid(k), k \notin bad, Selected(bad) = slots[k]
      PROVE  IInv'
  <2> DEFINE j == 1 - k
  <2>1. /\ slots[k] \in Record /\ slots[k].content \in Contents
        /\ slots[k].sequence \in Nat \ {0} /\ j \in Slots
    BY <1>1, <1>10, SlotKinds DEF Record, Slots
  <2>2. journalSequence' = slots[k].sequence /\ found' = slots[k].content
    BY <1>10 DEF Boot
  <2>3. Kept' = k /\ Target' = j
    BY <1>1, <1>10, <2>1, <2>2, Alternate DEF InTurn, Kept, Target
  <2>4. ~Ambiguous({})
    BY <1>1, <1>10, <2>1 DEF Ambiguous, InTurn, Slots
  <2>5. slots[j] # TornRecord => Selected({}).content \in possible
    <3>1. slots[k] # TornRecord
      BY <2>1, JournalAssumption DEF Record, TornRecord
    <3> QED
      BY <1>1, <2>4, <3>1 DEF CleanStartIsCurrent, Damaged, Spoils, Slots
  <2>6. Valid(j) /\ slots[j].sequence = slots[k].sequence + 1 =>
          j \in bad /\ Selected({}) = slots[j]
    BY <1>1, <1>10, <2>1 DEF Selected, Slots
  <2>7. ~(Valid(j) /\ slots[j].sequence = slots[k].sequence + 1) => Selected({}) = slots[k]
    BY <1>1, <1>10, <2>1 DEF Selected, InTurn, Slots
  <2>8. Unverified' <=> Valid(j) /\ slots[j].sequence = slots[k].sequence + 1
    BY <1>1, <2>2, <2>3 DEF Unverified, Valid
  <2>9. Unverified' => slots[j].content \in possible'
    <3>1. Valid(j) => slots[j] # TornRecord
      BY JournalAssumption DEF Valid, TornRecord
    <3> QED
      BY <1>3, <1>4, <2>5, <2>6, <2>8, <3>1
  <2>10. slots[j] # TornRecord /\ ~Unverified' => slots[k].content \in possible'
    BY <1>4, <1>10, <2>5, <2>7, <2>8
  <2>11. ~misread' => slots[k].content \in possible'
    <3> SUFFICES ASSUME ~misread' PROVE slots[k].content \in possible'
      OBVIOUS
    <3>1. ~misread /\ bad = {}
      BY DEF Boot
    <3> QED
      BY <1>1, <1>4, <1>10, <3>1 DEF VerifiedSurvives
  <2>12. WriterView'
    BY <1>1, <1>10, <2>1, <2>2, <2>3, <2>9, <2>10, <2>11 DEF WriterView, Valid
  <2>13. journalSequence' \in 0 .. MaxSequence
    BY <1>1, <1>10, <2>1, <2>2 DEF InTurn
  <2>14. TypeOK'
    <3>1. possible' \subseteq Contents \union {Missing}
      BY <1>1, <1>4, <1>10, <2>1 DEF TypeOK
    <3> QED
      BY <1>1, <1>7, <1>8, <2>1, <2>2, <2>13, <3>1 DEF TypeOK
  <2> QED
    BY <1>2, <1>5, <1>6, <2>12, <2>14 DEF IInv
<1>11. (\A k \in Slots : ~(Valid(k) /\ k \notin bad)) \/
      \E k \in Slots : Valid(k) /\ k \notin bad /\ Selected(bad) = slots[k]
  BY DEF Selected, Slots
<1> QED
  BY <1>9, <1>10, <1>11

\* Every write, start and power loss keeps the invariant.
LEMMA StepIInv == IInv /\ [Next]_vars => IInv'
<1> SUFFICES ASSUME IInv, [Next]_vars PROVE IInv'
  OBVIOUS
<1>1. CASE UNCHANGED vars
  BY <1>1
  DEF IInv, TypeOK, InTurn, WriteInFlight, WriterView, Unverified, Kept, Target, Valid,
      CleanStartIsCurrent, VerifiedSurvives, Selected, Damaged, Spoils, Ambiguous, vars, memory
<1>2. CASE \E bad \in SUBSET Slots : Boot(bad)
  BY <1>2, BootKeeps
<1>3. CASE \E c \in Contents : BeginWrite(c)
  BY <1>3, BeginKeeps
<1>4. CASE WriteVerified
  BY <1>4, VerifiedKeeps
<1>5. CASE WriteFailed
  BY <1>5, InterruptedKeeps DEF WriteFailed, IInv, TypeOK
<1>6. CASE PowerLoss /\ writing # NoRecord
  BY <1>6, InterruptedKeeps DEF PowerLoss
<1>7. CASE PowerLoss /\ writing = NoRecord
  BY <1>7
  DEF PowerLoss, IInv, TypeOK, InTurn, WriteInFlight, WriterView, Unverified, Kept, Target, Valid,
      CleanStartIsCurrent, VerifiedSurvives, Selected, Damaged, Spoils, Ambiguous
<1> QED
  BY <1>1, <1>2, <1>3, <1>4, <1>5, <1>6, <1>7 DEF Next

-----------------------------------------------------------------------------
(* The theorems.                                                           *)

\* In every reachable state of journal() and readJournal() the writer knows which file
\* holds the last verified record, and the other one is the next to be written.
THEOREM InvariantHolds == Spec => []IInv
<1> QED
  BY InitIInv, StepIInv, PTL DEF Spec

\* Every variable keeps its type, and no record is numbered past the bound on writes.
THEOREM TypeCorrect == Spec => []TypeOK
<1>1. IInv => TypeOK
  BY DEF IInv
<1> QED
  BY <1>1, InvariantHolds, PTL

\* A start that reads both files without complaint never takes a record older than the
\* last one journal() reported as written.
THEOREM CleanStart == Spec => []CleanStartIsCurrent
<1>1. IInv => CleanStartIsCurrent
  BY DEF IInv
<1> QED
  BY <1>1, InvariantHolds, PTL

\* While files stay readable, no sequence of torn or failed writes and power losses
\* loses the last verified record.
THEOREM NothingLost == Spec => []VerifiedSurvives
<1>1. IInv => VerifiedSurvives
  BY DEF IInv
<1> QED
  BY <1>1, InvariantHolds, PTL

\* The two files are one durable value: each step of journal(), a start or a power loss
\* is a step of the register, or no step of it.
THEOREM ImplementsRegister == Spec => RegisterSpec
<1>1. Init => Register!Init
  BY DEF Init, Register!Init
<1>2. IInv /\ [Next]_vars => [Register!Next]_<<possible, found, damaged>>
  <2> SUFFICES ASSUME IInv, [Next]_vars
               PROVE  [Register!Next]_<<possible, found, damaged>>
    OBVIOUS
  <2>1. ASSUME NEW bad \in SUBSET Slots, Boot(bad), Damaged(bad)
        PROVE  Register!Next
    <3>1. Register!RestartDamaged(Selected(bad).content)
      BY <2>1 DEF Boot, Register!RestartDamaged
    <3>2. Selected(bad).content \in Contents \union {Missing}
      BY DEF Selected, Valid, NoRecord
    <3> QED
      BY <3>1, <3>2 DEF Register!Next
  <2>2. ASSUME NEW bad \in SUBSET Slots, Boot(bad), ~Damaged(bad)
        PROVE  Register!Next
    <3>1. bad = {}
      BY <2>2, CleanReadsAll
    <3>2. Selected(bad).content \in possible
      BY <2>2, <3>1 DEF IInv, CleanStartIsCurrent
    <3>3. Register!Restart(Selected(bad).content)
      BY <2>2, <3>2 DEF Boot, Register!Restart
    <3>4. Selected(bad).content \in Contents \union {Missing}
      BY DEF Selected, Valid, NoRecord
    <3> QED
      BY <3>3, <3>4 DEF Register!Next
  <2>3. ASSUME NEW c \in Contents, BeginWrite(c)
        PROVE  Register!Next
    BY <2>3 DEF BeginWrite, Register!Next, Register!Attempt
  <2>4. CASE WriteVerified
    <3>1. writing.content \in Contents /\ writing.content \in possible
      BY <2>4 DEF WriteVerified, IInv, WriteInFlight
    <3>2. Register!Acknowledge(writing.content)
      BY <2>4, <3>1 DEF WriteVerified, Register!Acknowledge
    <3> QED
      BY <3>1, <3>2 DEF Register!Next
  <2>5. CASE WriteFailed \/ PowerLoss \/ UNCHANGED vars
    BY <2>5 DEF WriteFailed, PowerLoss, vars, memory
  <2> QED
    BY <2>1, <2>2, <2>3, <2>4, <2>5 DEF Next
<1> QED
  BY <1>1, <1>2, InvariantHolds, PTL DEF Spec, RegisterSpec, Register!Spec
=============================================================================
