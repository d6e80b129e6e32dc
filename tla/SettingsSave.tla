----------------------------- MODULE SettingsSave -----------------------------
(***************************************************************************)
(* From an edit to its file: storageDirtyMsk, storageCheck()               *)
(* (sdcard_common.cpp) and the three slots of settings that the user       *)
(* interface hands to the storage worker (sdcard_yaml.cpp).                *)
(*                                                                         *)
(* The mixer (switches, functions) edits and marks the model at any point. *)
(* The user interface and the worker share a priority: each access of      *)
(* theirs to the mask or to a slot is a step, and so is the write of a     *)
(* file.  What a file holds is the number of the last edit in it.  A       *)
(* blocked model, whose edits are dropped, is left out.                    *)
(***************************************************************************)
EXTENDS Integers, Sequences

CONSTANTS
  MaxEdits,     \* bound: edits of each kind
  Edited,       \* bound: the kinds that are edited (labels follow the model)
  RetryLimit,   \* writes that may fail in a row; 10 in the code
  Immediate     \* whether storageCheck(TRUE) is called

ASSUME SaveAssumption ==
  /\ MaxEdits \in Nat /\ Edited \subseteq {1, 2}
  /\ RetryLimit \in Nat \ {0} /\ Immediate \in BOOLEAN

VARIABLES
  ram, disk,         \* the edits in memory and in the file
  storageDirtyMsk,
  state, bytes,      \* of the slots settingsSaves[]
  pc, i, after,      \* where the user interface is
  mask, queued,      \* in nb4QueueSettings(), and what storageCheck() sampled
  retry,             \* the retry counts of storageCheck()
  snapshot, msk,     \* a file being written, a mask being changed
  immediate,         \* history: storageCheck(TRUE) was called
  worker             \* the slot that the worker has

slotVars == <<state, bytes>>
uiVars == <<pc, i, after>>
queueVars == <<mask, queued>>
checkVars == <<retry, snapshot, msk, immediate>>
vars == <<ram, disk, storageDirtyMsk, slotVars, uiVars, queueVars, checkVars, worker>>

Kinds == 1 .. 3
Radio == 1
Model == 2
Labels == 3
None == 0

Init ==
  /\ ram = [k \in Kinds |-> 0] /\ disk = [k \in Kinds |-> 0]
  /\ storageDirtyMsk = {}
  /\ state = [k \in Kinds |-> "idle"] /\ bytes = [k \in Kinds |-> 0]
  /\ pc = "loop" /\ i = 1 /\ after = "loop"
  /\ mask = {} /\ queued = {}
  /\ retry = [k \in Kinds |-> 0] /\ snapshot = 0 /\ msk = {}
  /\ immediate = FALSE
  /\ worker = None

nb4SettingsPending == \E k \in Kinds : state[k] \in {"pending", "writing"}

Ui(from, to) == pc = from /\ pc' = to

\* The next turn of a loop over the slots, or what comes after it.
Turn(at, then) ==
  /\ pc = at
  /\ IF i < 3 THEN i' = i + 1 /\ pc' = (IF at \in {"save", "writeMask"} THEN "check" ELSE at)
     ELSE i' = 1 /\ pc' = then

-----------------------------------------------------------------------------
(* Edits.                                                                  *)

\* storageDirty().  Only the user interface edits the settings of the radio.
Edit(k) ==
  /\ k = Radio => pc = "loop"
  /\ ram[k] < MaxEdits
  /\ ram' = [ram EXCEPT ![k] = @ + 1]
  /\ storageDirtyMsk' = storageDirtyMsk \union {k}
  /\ UNCHANGED <<disk, slotVars, uiVars, queueVars, checkVars, worker>>

\* updateCurrentModelCell(): the labels file holds the header of the model.
UpdateCell ==
  /\ ram' = [ram EXCEPT ![Labels] = ram[Model]]
  /\ storageDirtyMsk' = storageDirtyMsk \union {Labels}

-----------------------------------------------------------------------------
(* The user interface queues settings: storageCheck(FALSE).                *)

StartPoll ==
  /\ Ui("loop", "poll") /\ after' = "loop"
  /\ UNCHANGED <<ram, disk, storageDirtyMsk, slotVars, i, queueVars, checkVars, worker>>

\* Fault: a failed save is not marked again.
RearmedNever(k) == {}

Rearmed(k) == IF state[k] = "failed" THEN {k} ELSE {}

\* nb4PollSettings()
Poll ==
  /\ Turn("poll", after)
  /\ IF state[i] \in {"done", "failed"}
     THEN /\ storageDirtyMsk' = storageDirtyMsk \union Rearmed(i)
          /\ state' = [state EXCEPT ![i] = "idle"]
     ELSE UNCHANGED <<storageDirtyMsk, state>>
  /\ UNCHANGED <<ram, disk, bytes, after, queueVars, checkVars, worker>>

\* The marks of the edits that are about to be serialized are taken away.
StartQueue ==
  /\ storageDirtyMsk # {}
  /\ Ui("loop", "poll") /\ after' = "queue"
  /\ mask' = storageDirtyMsk /\ storageDirtyMsk' = {}
  /\ UNCHANGED <<ram, disk, slotVars, i, queued, checkVars, worker>>

Fillable(k) == state[k] = "idle"

\* A queued model takes its labels along.
QueueSlot ==
  /\ Turn("queue", "putBack")
  /\ i \in mask /\ Fillable(i)
  /\ bytes' = [bytes EXCEPT ![i] = ram[i]]
  /\ state' = [state EXCEPT ![i] = "pending"]
  /\ queued' = queued \union {i}
  /\ IF i = Model THEN mask' = mask \union {Labels} /\ UpdateCell
     ELSE UNCHANGED <<mask, ram, storageDirtyMsk>>
  /\ UNCHANGED <<disk, after, checkVars, worker>>

\* The slot is in use, was not asked for, or its text would be too long.
PassOver ==
  /\ Turn("queue", "putBack")
  /\ i \in mask /\ Fillable(i) => i # Labels
  /\ UNCHANGED <<ram, disk, storageDirtyMsk, slotVars, after, queueVars, checkVars, worker>>

\* Fault: what could not be queued is given up.
PutBackNothing == {}

Unqueued == mask \ queued

\* Labels that a model brought along are marked already when they stay behind.
PutBack ==
  /\ Ui("putBack", "loop")
  /\ storageDirtyMsk' = storageDirtyMsk \union Unqueued
  /\ mask' = {} /\ queued' = {}
  /\ UNCHANGED <<ram, disk, slotVars, i, after, checkVars, worker>>

-----------------------------------------------------------------------------
(* Writing a slot: nb4WritePendingSettings(), by the worker or by a flush. *)

Claim(k) ==
  /\ state[k] = "pending"
  /\ state' = [state EXCEPT ![k] = "writing"]

\* An error may be reported although the file was replaced.
Written(k) ==
  \/ /\ disk' = [disk EXCEPT ![k] = bytes[k]]
     /\ state' = [state EXCEPT ![k] = "done"]
  \/ /\ disk' \in {disk, [disk EXCEPT ![k] = bytes[k]]}
     /\ state' = [state EXCEPT ![k] = "failed"]

\* The slots are tried in their order, again and again.
WorkerClaims ==
  /\ worker = None
  /\ \E k \in Kinds : Claim(k) /\ worker' = k
  /\ UNCHANGED <<ram, disk, storageDirtyMsk, bytes, uiVars, queueVars, checkVars>>

WorkerWrites ==
  /\ worker # None /\ worker' = None
  /\ Written(worker)
  /\ UNCHANGED <<ram, storageDirtyMsk, bytes, uiVars, queueVars, checkVars>>

\* nb4FlushSettings(), before another model is loaded.
StartFlush ==
  /\ Ui("loop", "flush") /\ after' = "loop"
  /\ UNCHANGED <<ram, disk, storageDirtyMsk, slotVars, i, queueVars, checkVars, worker>>

FlushClaims ==
  /\ Ui("flush", "flushing")
  /\ \E k \in Kinds : Claim(k) /\ i' = k
  /\ UNCHANGED <<ram, disk, storageDirtyMsk, bytes, after, queueVars, checkVars, worker>>

FlushWrites ==
  /\ Ui("flushing", "flush") /\ i' = 1
  /\ Written(i)
  /\ UNCHANGED <<ram, storageDirtyMsk, bytes, after, queueVars, checkVars, worker>>

\* Fault: a slot that the worker is writing is not waited for.
NothingQueued == \A k \in Kinds : state[k] # "pending"

Flushed == ~nb4SettingsPending

FlushEnds ==
  /\ Ui("flush", "poll") /\ Flushed
  /\ UNCHANGED <<ram, disk, storageDirtyMsk, slotVars, i, after, queueVars, checkVars, worker>>

-----------------------------------------------------------------------------
(* storageCheck(TRUE): a flush, then what is still marked, in this order.  *)

Order == <<Radio, Labels, Model>>
Kind == Order[i]

StartImmediate ==
  /\ Immediate /\ immediate' = TRUE
  /\ Ui("loop", "flush") /\ after' = "check"
  /\ UNCHANGED <<ram, disk, storageDirtyMsk, slotVars, i, queueVars, retry, snapshot, msk, worker>>

\* Fault: failures are not counted up to the limit.
TriesAlways(k) == TRUE

Tries(k) == retry[k] < RetryLimit

\* Not marked, or failed too often: then it is tried again the next time.
CheckSkips ==
  /\ Turn("check", "loop")
  /\ \/ Kind \notin storageDirtyMsk /\ UNCHANGED retry
     \/ /\ Kind \in storageDirtyMsk /\ ~Tries(Kind)
        /\ retry' = [retry EXCEPT ![Kind] = RetryLimit \div 2]
  /\ UNCHANGED <<ram, disk, storageDirtyMsk, slotVars, after, queueVars, snapshot, msk, immediate, worker>>

\* writeGeneralSettings(), modelslist.save(), writeModel(): from memory.  Their
\* own flush finds nothing queued.
CheckTakes ==
  /\ Ui("check", "save")
  /\ Kind \in storageDirtyMsk /\ Tries(Kind)
  /\ snapshot' = ram[Kind]
  /\ UNCHANGED <<ram, disk, storageDirtyMsk, slotVars, i, after, queueVars, retry, msk, immediate, worker>>

CellAfter == IF Kind = Model THEN UpdateCell ELSE UNCHANGED <<ram, storageDirtyMsk>>

\* modelslist.save() looks at no result but that of its open.
CheckSaves ==
  /\ Ui("save", "readMask")
  /\ \/ disk' = [disk EXCEPT ![Kind] = snapshot]
     \/ Kind = Labels /\ disk' = disk
  /\ CellAfter
  /\ retry' = [retry EXCEPT ![Kind] = 0] /\ snapshot' = 0
  /\ UNCHANGED <<slotVars, i, after, queueVars, msk, immediate, worker>>

CheckFails ==
  /\ Turn("save", "loop")
  /\ \/ disk' = disk
     \/ Kind # Labels /\ disk' = [disk EXCEPT ![Kind] = snapshot]
  /\ CellAfter
  /\ retry' = [retry EXCEPT ![Kind] = @ + 1] /\ snapshot' = 0
  /\ UNCHANGED <<slotVars, after, queueVars, msk, immediate, worker>>

\* storageDirtyMsk &= ~mask is a load and a store.
CheckReadsMask ==
  /\ Ui("readMask", "writeMask")
  /\ msk' = storageDirtyMsk
  /\ UNCHANGED <<ram, disk, storageDirtyMsk, slotVars, i, after, queueVars, retry, snapshot, immediate, worker>>

CheckWritesMask ==
  /\ Turn("writeMask", "loop")
  /\ storageDirtyMsk' = msk \ {Kind} /\ msk' = {}
  /\ UNCHANGED <<ram, disk, slotVars, after, queueVars, retry, snapshot, immediate, worker>>

-----------------------------------------------------------------------------
Queueing == StartPoll \/ Poll \/ StartQueue \/ QueueSlot \/ PassOver \/ PutBack

Flushing == StartFlush \/ FlushClaims \/ FlushWrites \/ FlushEnds

Checking ==
  \/ StartImmediate \/ CheckSkips \/ CheckTakes \/ CheckSaves \/ CheckFails
  \/ CheckReadsMask \/ CheckWritesMask

Next ==
  \/ \E k \in Edited : Edit(k)
  \/ Queueing \/ Flushing \/ Checking
  \/ WorkerClaims \/ WorkerWrites

Spec == Init /\ [][Next]_vars

\* The worker and the user interface go on, the settings are queued again and
\* again, fit the slot and are written now and then.
FairSpec ==
  /\ Spec
  /\ WF_vars(StartPoll) /\ WF_vars(Poll)
  /\ WF_vars(QueueSlot \/ PassOver) /\ WF_vars(PutBack)
  /\ WF_vars(FlushClaims \/ FlushWrites \/ FlushEnds)
  /\ WF_vars(WorkerClaims) /\ WF_vars(WorkerWrites)
  /\ SF_vars(StartQueue)
  /\ \A k \in Edited \union {Labels} :
       /\ SF_vars(i = k /\ QueueSlot)
       /\ SF_vars(((worker = k /\ WorkerWrites) \/ (i = k /\ FlushWrites)) /\ state'[k] = "done")

-----------------------------------------------------------------------------
(* Properties.                                                             *)

\* The types of the variables; a retry count stays within its limit.
TypeOK ==
  /\ ram \in [Kinds -> 0 .. MaxEdits] /\ disk \in [Kinds -> 0 .. MaxEdits]
  /\ storageDirtyMsk \subseteq Kinds
  /\ state \in [Kinds -> {"idle", "pending", "writing", "done", "failed"}]
  /\ bytes \in [Kinds -> 0 .. MaxEdits]
  /\ pc \in {"loop", "poll", "queue", "putBack", "flush", "flushing", "check", "save",
             "readMask", "writeMask"}
  /\ i \in Kinds /\ after \in {"loop", "queue", "check"}
  /\ mask \subseteq Kinds /\ queued \subseteq Kinds
  /\ retry \in [Kinds -> 0 .. RetryLimit] /\ snapshot \in 0 .. MaxEdits /\ msk \subseteq Kinds
  /\ immediate \in BOOLEAN /\ worker \in Kinds \union {None}

\* What still leads to a save of the last edit of k: its mark, a mark that was
\* sampled, a slot with that edit, or one whose failure is yet to be seen.
WillBeSaved(k) ==
  \/ k \in storageDirtyMsk \union (mask \ queued)
  \/ state[k] \in {"pending", "writing"} /\ bytes[k] = ram[k]
  \/ state[k] = "failed"

\* No edit is both missing from its file and forgotten: a newer mark survives until
\* the next save (sdcard_common.cpp:100).
NoEditForgotten == \A k \in Kinds : disk[k] # ram[k] => WillBeSaved(k)

\* As long as settings are only queued, no edit is forgotten.
QueuedNotForgotten == ~immediate => NoEditForgotten

\* The worker and the user interface never write the same file, which both
\* would do through the same temporary file.
OneWriter ==
  worker # None =>
    /\ pc = "flushing" => i # worker
    /\ pc = "save" => Kind # worker

\* A queued text never replaces newer settings that were saved immediately.
NeverBackwards == [][\A k \in Kinds : disk'[k] >= disk[k]]_vars

\* As long as settings are only queued, every edit reaches its file, whatever fails on
\* the way now and then.
EditsSaved == \A k \in Kinds : (disk[k] # ram[k]) ~> (disk[k] = ram[k] \/ immediate)
=============================================================================
