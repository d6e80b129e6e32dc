----------------------------- MODULE RfJournal -----------------------------
(***************************************************************************)
(* The journal of an RF update (journal(), readJournal() in                *)
(* nb4_rf_update.cpp): two files that are written in turn, each record     *)
(* under the number after the last one that was read back.                 *)
(*                                                                         *)
(* A write that fails or is cut off by the power leaves the file as it     *)
(* was, not readable as a record, or with the new record.  A file that     *)
(* holds a record may be unreadable at one start and readable at the next. *)
(***************************************************************************)
EXTENDS Integers

CONSTANTS
  Contents,      \* what a record may say: operation, phase, identity, peer
  Missing,       \* there is no such file
  Torn,          \* a file that does not hold a record
  MaxSequence    \* UINT32_MAX

ASSUME JournalAssumption ==
  /\ Missing \notin Contents /\ Torn \notin Contents /\ Missing # Torn
  /\ MaxSequence \in Nat \ {0}

VARIABLES
  slots,             \* the files journalPaths[0] and [1]
  journalSequence,   \* of the last record that was read back
  writing,           \* the record journal() is writing
  powered,           \* the journal was read since the last power-up
  usable,            \* no caller writes after a start that found files but no record
  found, damaged,    \* what readJournal() selected at that start, and its flag
  possible,          \* history: contents the journal may be expected to hold
  misread            \* history: some start met an unreadable file

memory == <<journalSequence, writing, powered, usable>>
vars == <<slots, memory, found, damaged, possible, misread>>

Record == [sequence : Nat \ {0}, content : Contents]
NoRecord == [sequence |-> 0, content |-> Missing]
TornRecord == [sequence |-> 0, content |-> Torn]
Blank == {NoRecord, TornRecord}
Slots == {0, 1}

Init ==
  /\ slots = [i \in Slots |-> NoRecord]
  /\ journalSequence = 0 /\ writing = NoRecord
  /\ powered = FALSE /\ usable = FALSE
  /\ found = Missing /\ damaged = FALSE
  /\ possible = {Missing} /\ misread = FALSE

-----------------------------------------------------------------------------
(* readJournal(), when the files in bad cannot be read.                    *)

Valid(i) == slots[i].content \in Contents

\* A file that is there but gives no record; a missing one is simply skipped.
Spoils(i, bad) == i \in bad \/ slots[i] = TornRecord

\* Two records of one number that differ.
Ambiguous(bad) ==
  /\ \A i \in Slots : Valid(i) /\ i \notin bad
  /\ slots[0].sequence = slots[1].sequence /\ slots[0] # slots[1]

\* Fault: a file that cannot be opened is skipped like a missing one.
DamagedUnlessUnreadable(bad) == (\E i \in Slots : slots[i] = TornRecord) \/ Ambiguous(bad)

Damaged(bad) == (\E i \in Slots : Spoils(i, bad)) \/ Ambiguous(bad)

\* Fault: the last file that holds a record is taken.
SelectedLast(bad) ==
  LET good == {i \in Slots : Valid(i) /\ i \notin bad}
  IN IF 1 \in good THEN slots[1] ELSE IF good # {} THEN slots[0] ELSE NoRecord

\* The record with the highest number, the first file's when they are equal.
Selected(bad) ==
  LET good(i) == Valid(i) /\ i \notin bad
  IN IF good(0) /\ (good(1) => slots[0].sequence >= slots[1].sequence) THEN slots[0]
     ELSE IF good(1) THEN slots[1]
     ELSE NoRecord

Present(bad) == \E i \in Slots : slots[i] # NoRecord \/ i \in bad

\* Power-up, first pass of the service loop.
Boot(bad) ==
  /\ ~powered /\ powered' = TRUE
  /\ journalSequence' = Selected(bad).sequence
  /\ found' = Selected(bad).content
  /\ damaged' = Damaged(bad)
  /\ usable' = (Selected(bad) # NoRecord \/ ~Present(bad))
  /\ possible' = IF Damaged(bad) THEN possible ELSE {Selected(bad).content}
  /\ misread' = (misread \/ bad # {})
  /\ UNCHANGED <<slots, writing>>

-----------------------------------------------------------------------------
(* journal()                                                               *)

\* Fault: both files are not used in turn.
SingleSlot(sequence) == 0

SlotOf(sequence) == sequence % 2

\* Fault: the end of the numbers is not looked at.
BeginWriteUnbounded(c) ==
  /\ powered /\ usable /\ writing = NoRecord
  /\ writing' = [sequence |-> journalSequence + 1, content |-> c]
  /\ possible' = possible \union {c}
  /\ UNCHANGED <<slots, journalSequence, powered, usable, found, damaged, misread>>

BeginWrite(c) ==
  /\ powered /\ usable /\ writing = NoRecord
  /\ journalSequence # MaxSequence
  /\ writing' = [sequence |-> journalSequence + 1, content |-> c]
  /\ possible' = possible \union {c}
  /\ UNCHANGED <<slots, journalSequence, powered, usable, found, damaged, misread>>

Leaves(record) == slots' = [slots EXCEPT ![SlotOf(writing.sequence)] = record]

\* A write that is not seen through: the file is as before, is torn or is written.
LeavesAnything ==
  \E record \in {slots[SlotOf(writing.sequence)], TornRecord, writing} : Leaves(record)

WriteVerified ==
  /\ writing # NoRecord
  /\ Leaves(writing)
  /\ journalSequence' = writing.sequence
  /\ possible' = {writing.content}
  /\ writing' = NoRecord
  /\ UNCHANGED <<powered, usable, found, damaged, misread>>

\* The record may be in the file all the same.
WriteFailed ==
  /\ writing # NoRecord
  /\ LeavesAnything
  /\ writing' = NoRecord
  /\ UNCHANGED <<journalSequence, powered, usable, found, damaged, possible, misread>>

\* The memory is lost as well: Boot assigns all of it before it is used again.
PowerLoss ==
  /\ powered /\ powered' = FALSE
  /\ \/ writing = NoRecord /\ UNCHANGED slots
     \/ writing # NoRecord /\ LeavesAnything
  /\ writing' = NoRecord
  /\ UNCHANGED <<journalSequence, usable, found, damaged, possible, misread>>

Next ==
  \/ \E bad \in SUBSET Slots : Boot(bad)
  \/ \E c \in Contents : BeginWrite(c)
  \/ WriteVerified
  \/ WriteFailed
  \/ PowerLoss

Spec == Init /\ [][Next]_vars

-----------------------------------------------------------------------------
(* Properties.                                                             *)

\* The types of the variables; a number stays within its width, and what a start takes
\* up was written by journal().
TypeOK ==
  /\ slots \in [Slots -> Record \union Blank]
  /\ journalSequence \in 0 .. MaxSequence
  /\ writing \in Record \union {NoRecord}
  /\ powered \in BOOLEAN /\ usable \in BOOLEAN
  /\ found \in Contents \union {Missing} /\ damaged \in BOOLEAN
  /\ possible \subseteq Contents \union {Missing} /\ misread \in BOOLEAN

\* A start that reads both files without complaint selects the record that was read
\* back last, or one whose write began after it (journal() never overwrites the file
\* of the last record it read back).
CleanStartIsCurrent == ~Damaged({}) => Selected({}).content \in possible

\* As long as no file was ever unreadable, the record that was read back last, or a
\* newer one, can be selected at any time: whatever writes were torn in between.
VerifiedSurvives == ~misread => Selected({}).content \in possible

\* The two files and their numbers implement a single durable value.
Register == INSTANCE DurableRegister
RegisterSpec == Register!Spec
=============================================================================
