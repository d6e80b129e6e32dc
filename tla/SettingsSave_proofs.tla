-------------------------- MODULE SettingsSave_proofs --------------------------
(***************************************************************************)
(* Proofs about SettingsSave, for any number of edits and any limit on     *)
(* failures: nobody writes a file at the same time as somebody else, no    *)
(* file goes back to older settings, and queueing forgets no edit.         *)
(***************************************************************************)
EXTENDS SettingsSave, TLAPS

InFlight(k) == state[k] \in {"pending", "writing"}

\* storageCheck(TRUE) is past its flush.
Checks == pc \in {"check", "save", "readMask", "writeMask"} \/ (pc = "poll" /\ after = "check")

\* Who writes a slot has claimed it, and no slot is claimed twice.
Claimed ==
  /\ worker # None => state[worker] = "writing"
  /\ pc = "flushing" => state[i] = "writing" /\ i # worker

\* What the flush left empty stays empty until storageCheck(TRUE) is over.
Drained == Checks => \A k \in Kinds : ~InFlight(k)

\* nb4QueueSettings() alone uses its local variables.
Sampled ==
  /\ pc = "poll" => queued = {} /\ (after # "queue" => mask = {})
  /\ pc \notin {"poll", "queue", "putBack"} => mask = {} /\ queued = {}

\* Nothing newer than memory is anywhere, and nothing older than the file is on its way there.
Ordered ==
  /\ \A k \in Kinds : disk[k] <= ram[k] /\ bytes[k] <= ram[k]
  /\ \A k \in Kinds : InFlight(k) => disk[k] <= bytes[k]
  /\ ram[Labels] <= ram[Model]
  /\ pc = "save" => disk[Kind] <= snapshot /\ snapshot <= ram[Kind] /\ Tries(Kind)

\* Only storageCheck(TRUE) takes the way past the queue.
OnlyQueued == ~immediate => ~Checks /\ after # "check"

IInv == TypeOK /\ Claimed /\ Drained /\ Sampled /\ Ordered /\ OnlyQueued /\ QueuedNotForgotten

-----------------------------------------------------------------------------

\* The kinds in the order of storageCheck().
LEMMA KindType == i \in Kinds => Kind \in Kinds
BY DEF Kinds, Kind, Order, Radio, Labels, Model

\* Nothing is edited yet.
LEMMA InitIInv == Init => IInv
<1> SUFFICES ASSUME Init PROVE IInv
  OBVIOUS
<1> USE SaveAssumption, KindType
    DEF Init, Tries, IInv, TypeOK, Claimed, Drained, Checks, InFlight, Sampled, Ordered,
        OnlyQueued,
   QueuedNotForgotten, NoEditForgotten, WillBeSaved, Kinds, Radio, Model, Labels, None,
   nb4SettingsPending, slotVars, uiVars, queueVars, checkVars
<1>1. TypeOK
  <2>1. state \in [Kinds -> {"idle", "pending", "writing", "done", "failed"}]
    OBVIOUS
  <2>2. /\ ram \in [Kinds -> 0 .. MaxEdits] /\ disk \in [Kinds -> 0 .. MaxEdits]
        /\ bytes \in [Kinds -> 0 .. MaxEdits] /\ retry \in [Kinds -> 0 .. RetryLimit]
    OBVIOUS
  <2>3. /\ storageDirtyMsk \subseteq Kinds /\ mask \subseteq Kinds
        /\ queued \subseteq Kinds /\ msk \subseteq Kinds
    OBVIOUS
  <2>4. snapshot \in 0 .. MaxEdits /\ i \in Kinds
    OBVIOUS
  <2> QED
    BY <2>1, <2>2, <2>3, <2>4
<1>2. Ordered
  OBVIOUS
<1> QED
  BY <1>1, <1>2

\* An edit is marked in the same step; labels are not edited by themselves.
LEMMA EditKeeps ==
  ASSUME IInv, NEW k \in Edited, Edit(k) PROVE IInv'
<1> USE SaveAssumption, KindType
    DEF Edit, IInv, TypeOK, Claimed, Drained, Checks, InFlight, Sampled, Ordered, OnlyQueued,
           QueuedNotForgotten, NoEditForgotten, WillBeSaved, Kinds, Radio, Model, Labels, None,
           nb4SettingsPending, slotVars, uiVars, queueVars, checkVars
<1>1. k \in {1, 2}
  OBVIOUS
<1>2. TypeOK'
  BY <1>1
<1>3. Ordered'
  <2>1. \A j \in Kinds : ram[j] <= ram'[j]
    BY <1>1
  <2>2. ram'[3] <= ram'[2]
    BY <1>1
  <2>3. Kind' = Kind /\ UNCHANGED <<disk, bytes, state, snapshot, pc, retry>>
    BY DEF Kind
  <2>4. Tries(Kind)' <=> Tries(Kind)
    BY <2>3 DEF Tries
  <2> HIDE DEF Edit
  <2> QED
    BY <2>1, <2>2, <2>3, <2>4, <1>2
<1>4. (Claimed /\ Drained /\ Sampled /\ OnlyQueued /\ QueuedNotForgotten)'
  BY <1>1
<1> QED
  BY <1>2, <1>3, <1>4

\* A mark is taken away only for a slot that holds the edit, or until it is put back.
LEMMA QueueingKeeps ==
  ASSUME IInv, Queueing PROVE IInv'
<1> USE SaveAssumption, KindType
    DEF IInv, TypeOK, Claimed, Drained, Checks, InFlight, Sampled, Ordered, OnlyQueued,
           QueuedNotForgotten, NoEditForgotten, WillBeSaved, Kinds, Radio, Model, Labels, None,
           nb4SettingsPending, slotVars, uiVars, queueVars, checkVars
<1>1. CASE StartPoll
  BY <1>1 DEF StartPoll, Ui
<1>2. CASE Poll
  <2>1. TypeOK'
    <3>1. (ram \in [Kinds -> 0 .. MaxEdits] /\ bytes \in [Kinds -> 0 .. MaxEdits])'
      BY <1>2 DEF Poll, Turn, Rearmed
    <3>2. (state \in [Kinds -> {"idle", "pending", "writing", "done", "failed"}])'
      BY <1>2 DEF Poll, Turn, Rearmed
    <3>3. (disk \in [Kinds -> 0 .. MaxEdits] /\ retry \in [Kinds -> 0 .. RetryLimit])'
      BY <1>2 DEF Poll, Turn, Rearmed
    <3>4. (storageDirtyMsk \subseteq Kinds /\ mask \subseteq Kinds /\ queued \subseteq Kinds)'
      BY <1>2 DEF Poll, Turn, Rearmed
    <3> QED
      BY <3>1, <3>2, <3>3, <3>4, <1>2 DEF Poll, Turn, Rearmed
  <2>2. (Claimed /\ Drained /\ Sampled /\ OnlyQueued)'
    BY <1>2 DEF Poll, Turn, Rearmed
  <2>3. Ordered'
    BY <1>2 DEF Poll, Turn, Rearmed
  <2>4. QueuedNotForgotten'
    BY <1>2 DEF Poll, Turn, Rearmed
  <2> QED
    BY <2>1, <2>2, <2>3, <2>4
<1>3. CASE StartQueue
  BY <1>3 DEF StartQueue, Ui
<1>4. CASE QueueSlot
  <2>1. TypeOK'
    <3>1. (ram \in [Kinds -> 0 .. MaxEdits] /\ bytes \in [Kinds -> 0 .. MaxEdits])'
      BY <1>4 DEF QueueSlot, Turn, Fillable, UpdateCell
    <3>2. (state \in [Kinds -> {"idle", "pending", "writing", "done", "failed"}])'
      BY <1>4 DEF QueueSlot, Turn, Fillable, UpdateCell
    <3>3. (disk \in [Kinds -> 0 .. MaxEdits] /\ retry \in [Kinds -> 0 .. RetryLimit])'
      BY <1>4 DEF QueueSlot, Turn, Fillable, UpdateCell
    <3>4. storageDirtyMsk' \subseteq storageDirtyMsk \union {3}
      BY <1>4 DEF QueueSlot, Turn, Fillable, UpdateCell
    <3>5. storageDirtyMsk' \subseteq Kinds
      BY <3>4
    <3>6. mask' \subseteq mask \union {3} /\ queued' \subseteq queued \union {i}
      BY <1>4 DEF QueueSlot, Turn, Fillable, UpdateCell
    <3>7. mask' \subseteq Kinds /\ queued' \subseteq Kinds
      BY <3>6
    <3> QED
      BY <3>1, <3>2, <3>3, <3>4, <3>5, <3>6, <3>7, <1>4 DEF
         QueueSlot, Turn, Fillable, UpdateCell
  <2>2. (Claimed /\ Drained /\ Sampled /\ OnlyQueued)'
    BY <1>4 DEF QueueSlot, Turn, Fillable, UpdateCell
  <2>3. Ordered'
    BY <1>4 DEF QueueSlot, Turn, Fillable, UpdateCell
  <2>4. QueuedNotForgotten'
    BY <1>4 DEF QueueSlot, Turn, Fillable, UpdateCell
  <2> QED
    BY <2>1, <2>2, <2>3, <2>4
<1>5. CASE PassOver
  BY <1>5 DEF PassOver, Turn, Fillable
<1>6. CASE PutBack
  BY <1>6 DEF PutBack, Ui, Unqueued
<1> QED
  BY <1>1, <1>2, <1>3, <1>4, <1>5, <1>6 DEF Queueing

\* A flush writes what nobody else writes, and waits for the rest.
LEMMA FlushingKeeps ==
  ASSUME IInv, Flushing PROVE IInv'
<1> USE SaveAssumption, KindType
    DEF IInv, TypeOK, Claimed, Drained, Checks, InFlight, Sampled, Ordered, OnlyQueued,
           QueuedNotForgotten, NoEditForgotten, WillBeSaved, Kinds, Radio, Model, Labels, None,
           nb4SettingsPending, slotVars, uiVars, queueVars, checkVars
<1>1. CASE StartFlush
  BY <1>1 DEF StartFlush, Ui
<1>2. CASE FlushClaims
  BY <1>2 DEF FlushClaims, Ui, Claim
<1>3. CASE FlushWrites
  <2>1. TypeOK'
    BY <1>3 DEF FlushWrites, Ui, Written
  <2>2. (Claimed /\ Drained /\ Sampled /\ OnlyQueued)'
    BY <1>3 DEF FlushWrites, Ui, Written
  <2>3. Ordered'
    BY <1>3 DEF FlushWrites, Ui, Written
  <2>4. QueuedNotForgotten'
    BY <1>3 DEF FlushWrites, Ui, Written
  <2> QED
    BY <2>1, <2>2, <2>3, <2>4
<1>4. CASE FlushEnds
  BY <1>4 DEF FlushEnds, Ui, Flushed
<1> QED
  BY <1>1, <1>2, <1>3, <1>4 DEF Flushing

\* storageCheck(TRUE) saves from memory while nothing is queued.
LEMMA CheckingKeeps ==
  ASSUME IInv, Checking PROVE IInv'
<1> USE SaveAssumption, KindType
    DEF IInv, TypeOK, Claimed, Drained, Checks, InFlight, Sampled, Ordered, OnlyQueued,
           QueuedNotForgotten, NoEditForgotten, WillBeSaved, Kinds, Radio, Model, Labels, None,
           nb4SettingsPending, slotVars, uiVars, queueVars, checkVars
<1>1. CASE StartImmediate
  BY <1>1 DEF StartImmediate, Ui
<1>2. CASE CheckSkips
  BY <1>2 DEF CheckSkips, Turn, Tries
<1>3. CASE CheckTakes
  BY <1>3 DEF CheckTakes, Ui, Tries, Kind
<1>4. CASE CheckSaves
  <2>1. TypeOK'
    <3>1. (ram \in [Kinds -> 0 .. MaxEdits] /\ bytes \in [Kinds -> 0 .. MaxEdits])'
      BY <1>4 DEF CheckSaves, Ui, Tries, CellAfter, UpdateCell
    <3>2. (state \in [Kinds -> {"idle", "pending", "writing", "done", "failed"}])'
      BY <1>4 DEF CheckSaves, Ui, Tries, CellAfter, UpdateCell
    <3>3. (disk \in [Kinds -> 0 .. MaxEdits] /\ retry \in [Kinds -> 0 .. RetryLimit])'
      BY <1>4 DEF CheckSaves, Ui, Tries, CellAfter, UpdateCell
    <3>4. storageDirtyMsk' \subseteq storageDirtyMsk \union {3}
      BY <1>4 DEF CheckSaves, Ui, Tries, CellAfter, UpdateCell
    <3>5. storageDirtyMsk' \subseteq Kinds
      BY <3>4
    <3>6. mask' \subseteq mask \union {3} /\ queued' \subseteq queued \union {i}
      BY <1>4 DEF CheckSaves, Ui, Tries, CellAfter, UpdateCell
    <3>7. mask' \subseteq Kinds /\ queued' \subseteq Kinds
      BY <3>6
    <3> QED
      BY <3>1, <3>2, <3>3, <3>4, <3>5, <3>6, <3>7, <1>4 DEF
         CheckSaves, Ui, Tries, CellAfter, UpdateCell
  <2>2. (Claimed /\ Drained /\ Sampled /\ OnlyQueued)'
    BY <1>4 DEF CheckSaves, Ui, Tries, CellAfter, UpdateCell
  <2>3. Ordered'
    BY <1>4 DEF CheckSaves, Ui, Tries, CellAfter, UpdateCell
  <2>4. QueuedNotForgotten'
    BY <1>4 DEF CheckSaves, Ui, Tries, CellAfter, UpdateCell
  <2> QED
    BY <2>1, <2>2, <2>3, <2>4
<1>5. CASE CheckFails
  <2>1. TypeOK'
    <3>1. (ram \in [Kinds -> 0 .. MaxEdits] /\ bytes \in [Kinds -> 0 .. MaxEdits])'
      BY <1>5 DEF CheckFails, Turn, Tries, CellAfter, UpdateCell
    <3>2. (state \in [Kinds -> {"idle", "pending", "writing", "done", "failed"}])'
      BY <1>5 DEF CheckFails, Turn, Tries, CellAfter, UpdateCell
    <3>3. (disk \in [Kinds -> 0 .. MaxEdits] /\ retry \in [Kinds -> 0 .. RetryLimit])'
      BY <1>5 DEF CheckFails, Turn, Tries, CellAfter, UpdateCell
    <3>4. storageDirtyMsk' \subseteq storageDirtyMsk \union {3}
      BY <1>5 DEF CheckFails, Turn, Tries, CellAfter, UpdateCell
    <3>5. storageDirtyMsk' \subseteq Kinds
      BY <3>4
    <3>6. mask' \subseteq mask \union {3} /\ queued' \subseteq queued \union {i}
      BY <1>5 DEF CheckFails, Turn, Tries, CellAfter, UpdateCell
    <3>7. mask' \subseteq Kinds /\ queued' \subseteq Kinds
      BY <3>6
    <3> QED
      BY <3>1, <3>2, <3>3, <3>4, <3>5, <3>6, <3>7, <1>5 DEF
         CheckFails, Turn, Tries, CellAfter, UpdateCell
  <2>2. (Claimed /\ Drained /\ Sampled /\ OnlyQueued)'
    BY <1>5 DEF CheckFails, Turn, Tries, CellAfter, UpdateCell
  <2>3. Ordered'
    BY <1>5 DEF CheckFails, Turn, Tries, CellAfter, UpdateCell
  <2>4. QueuedNotForgotten'
    BY <1>5 DEF CheckFails, Turn, Tries, CellAfter, UpdateCell
  <2> QED
    BY <2>1, <2>2, <2>3, <2>4
<1>6. CASE CheckReadsMask
  BY <1>6 DEF CheckReadsMask, Ui
<1>7. CASE CheckWritesMask
  <2>1. TypeOK'
    <3>1. (ram \in [Kinds -> 0 .. MaxEdits] /\ bytes \in [Kinds -> 0 .. MaxEdits])'
      BY <1>7 DEF CheckWritesMask, Turn
    <3>2. (state \in [Kinds -> {"idle", "pending", "writing", "done", "failed"}])'
      BY <1>7 DEF CheckWritesMask, Turn
    <3>3. (disk \in [Kinds -> 0 .. MaxEdits] /\ retry \in [Kinds -> 0 .. RetryLimit])'
      BY <1>7 DEF CheckWritesMask, Turn
    <3>4. (storageDirtyMsk \subseteq Kinds /\ mask \subseteq Kinds /\ queued \subseteq Kinds)'
      BY <1>7 DEF CheckWritesMask, Turn
    <3> QED
      BY <3>1, <3>2, <3>3, <3>4, <1>7 DEF CheckWritesMask, Turn
  <2>2. (Claimed /\ Drained /\ Sampled /\ OnlyQueued)'
    BY <1>7 DEF CheckWritesMask, Turn
  <2>3. Ordered'
    BY <1>7 DEF CheckWritesMask, Turn
  <2>4. QueuedNotForgotten'
    BY <1>7 DEF CheckWritesMask, Turn
  <2> QED
    BY <2>1, <2>2, <2>3, <2>4
<1> QED
  BY <1>1, <1>2, <1>3, <1>4, <1>5, <1>6, <1>7 DEF Checking

\* The worker writes only what it has claimed.
LEMMA WorkerKeeps ==
  ASSUME IInv, WorkerClaims \/ WorkerWrites PROVE IInv'
<1> USE SaveAssumption, KindType
    DEF IInv, TypeOK, Claimed, Drained, Checks, InFlight, Sampled, Ordered, OnlyQueued,
           QueuedNotForgotten, NoEditForgotten, WillBeSaved, Kinds, Radio, Model, Labels, None,
           nb4SettingsPending, slotVars, uiVars, queueVars, checkVars
<1>1. CASE WorkerClaims
  BY <1>1 DEF WorkerClaims, Claim
<1>2. CASE WorkerWrites
  <2>1. TypeOK'
    BY <1>2 DEF WorkerWrites, Written
  <2>2. (Claimed /\ Drained /\ Sampled /\ OnlyQueued)'
    BY <1>2 DEF WorkerWrites, Written
  <2>3. Ordered'
    BY <1>2 DEF WorkerWrites, Written
  <2>4. QueuedNotForgotten'
    BY <1>2 DEF WorkerWrites, Written
  <2> QED
    BY <2>1, <2>2, <2>3, <2>4
<1> QED
  BY <1>1, <1>2

-----------------------------------------------------------------------------
(* The theorems.                                                           *)

\* Every step of the user interface, of the worker and of an edit keeps IInv.
LEMMA Inductive == IInv /\ [Next]_vars => IInv'
<1> SUFFICES ASSUME IInv, [Next]_vars PROVE IInv'
  OBVIOUS
<1>1. CASE UNCHANGED vars
  BY <1>1 DEF vars, Tries, Kind,
              IInv, TypeOK, Claimed, Drained, Checks, InFlight, Sampled, Ordered, OnlyQueued,
              QueuedNotForgotten, NoEditForgotten, WillBeSaved, Kinds, Radio, Model, Labels, None,
              nb4SettingsPending, slotVars, uiVars, queueVars, checkVars
<1>2. CASE Next
  BY <1>2, EditKeeps, QueueingKeeps, FlushingKeeps, CheckingKeeps, WorkerKeeps DEF Next
<1> QED
  BY <1>1, <1>2

\* IInv holds in every reachable state.
LEMMA Always == Spec => []IInv
BY InitIInv, Inductive, PTL DEF Spec

\* Every variable has its type; a retry count never passes its limit, for any limit.
THEOREM TypeCorrect == Spec => []TypeOK
<1>1. IInv => TypeOK
  BY DEF IInv
<1> QED
  BY <1>1, Always, PTL

\* The worker and the user interface never write one file at the same time (the claim of
\* a slot in nb4WritePendingSettings(), the flush before an immediate save).
THEOREM NoSecondWriter == Spec => []OneWriter
<1>1. IInv => OneWriter
  BY KindType DEF IInv, TypeOK, Claimed, Drained, Checks, InFlight, OneWriter, None
<1> QED
  BY <1>1, Always, PTL

\* As long as settings are only queued, an edit that is not in its file is marked, sampled,
\* in a slot or in one that failed (nb4QueueSettings(), nb4PollSettings()).
THEOREM NothingForgotten == Spec => []QueuedNotForgotten
<1>1. IInv => QueuedNotForgotten
  BY DEF IInv
<1> QED
  BY <1>1, Always, PTL

\* A file never goes back to older settings, however queued and immediate saves alternate.
THEOREM FilesGoForward == Spec => NeverBackwards
<1> DEFINE Forward == \A k \in Kinds : disk'[k] >= disk[k]
<1>1. IInv /\ [Next]_vars => [Forward]_vars
  <2> SUFFICES ASSUME IInv, Next PROVE Forward
    BY DEF Forward
  <2> USE DEF IInv, TypeOK, Claimed, Ordered, InFlight, Kinds, None
  <2>1. CASE UNCHANGED disk
    BY <2>1
  <2>2. CASE WorkerWrites
    BY <2>2 DEF WorkerWrites, Written
  <2>3. CASE FlushWrites
    BY <2>3 DEF FlushWrites, Written, Ui
  <2>4. CASE CheckSaves \/ CheckFails
    BY <2>4, KindType DEF CheckSaves, CheckFails, Ui, Turn
  <2>5. UNCHANGED disk \/ WorkerWrites \/ FlushWrites \/ CheckSaves \/ CheckFails
    <3>1. CASE \E k \in Edited : Edit(k)
      BY <3>1 DEF Edit
    <3>2. CASE Queueing
      BY <3>2 DEF Queueing, StartPoll, Poll, StartQueue, QueueSlot, PassOver, PutBack
    <3>3. CASE Flushing
      BY <3>3 DEF Flushing, StartFlush, FlushClaims, FlushEnds
    <3>4. CASE Checking
      BY <3>4 DEF Checking, StartImmediate, CheckSkips, CheckTakes, CheckReadsMask,
                  CheckWritesMask
    <3>5. CASE WorkerClaims
      BY <3>5 DEF WorkerClaims
    <3> QED
      BY <3>1, <3>2, <3>3, <3>4, <3>5 DEF Next
  <2> QED
    BY <2>1, <2>2, <2>3, <2>4, <2>5
<1> QED
  BY <1>1, Always, PTL DEF Spec, NeverBackwards
=============================================================================
