----------------------------- MODULE RaceHistory -----------------------------
(***************************************************************************)
(* A race session and what becomes of its result: nb4_racing.cpp and the   *)
(* slots of nb4_history.cpp.                                               *)
(*                                                                         *)
(* Three tasks share them without a lock.  The mixer, of the highest       *)
(* priority, runs a command or a tick of the race timer to completion.     *)
(* The user interface and the storage worker can be interrupted between    *)
(* any two accesses to shared variables, so each such access is a step.    *)
(*                                                                         *)
(* Laps and their undo command change no slot and are left out: a result   *)
(* is the number of its race.  When the worker may run at all is the       *)
(* subject of StorageHandover.                                             *)
(***************************************************************************)
EXTENDS Integers, FiniteSets, FiniteSetsExt

CONSTANTS
  Slots,      \* the indices of slots[], in the order they are searched
  MaxId,      \* the largest record number, UINT32_MAX in the code
  MaxRaces,   \* bound: races finished in a behaviour
  User        \* bound: what the user does, of "view", "card" and "power"

ASSUME SlotsAssumption == IsFiniteSet(Slots) /\ Slots # {} /\ Slots = 1 .. Cardinality(Slots)
ASSUME BoundsAssumption == MaxId \in Nat \ {0} /\ MaxRaces \in Nat \ {0}
ASSUME UserAssumption == User \subseteq {"view", "card", "power"}

VARIABLES
  \* nb4_racing.cpp
  raceCommand, racePhase, racePaused, historySlot, resultToken,
  \* nb4_history.cpp: the members of the slots
  state, record, id, token, savedId,
  sessionSequence, status, retry, lastAssignedId,
  at, cur, again, ok,      \* where the worker is in its pass
  files,                   \* the record files by their number
  page, shown, wanted, seen,  \* the user interface: its request and its view of a result
  \* For the bound and the properties only: races before this power-up, and
  \* those finished whose result the radio must still have.
  before, finished

sessionVars == <<racePhase, racePaused, historySlot, resultToken>>
slotVars == <<state, record, id, token, savedId>>
workerVars == <<lastAssignedId, at, cur, again, ok>>
pageVars == <<page, shown, wanted, seen>>
ghostVars == <<before, finished>>
vars == <<raceCommand, sessionVars, slotVars, sessionSequence, status, retry, workerVars,
          files, pageVars, ghostVars>>

NoSlot == 0
NoFile == 0
Foreign == MaxRaces + 1   \* a record that no race of the behaviour wrote
Ids == 1 .. MaxId
Races == 1 .. MaxRaces

PowerUp ==
  /\ raceCommand = "none" /\ racePhase = "Ready" /\ racePaused = FALSE
  /\ historySlot = NoSlot /\ resultToken = 0
  /\ state = [s \in Slots |-> "Empty"] /\ record = [s \in Slots |-> 0]
  /\ id = [s \in Slots |-> 0] /\ token = [s \in Slots |-> 0] /\ savedId = [s \in Slots |-> 0]
  /\ sessionSequence = 0 /\ status = "Idle" /\ retry = FALSE /\ lastAssignedId = 0
  /\ at = "asleep" /\ cur = 1 /\ again = FALSE /\ ok = FALSE
  /\ page = "idle" /\ shown = NoSlot /\ wanted = 0 /\ seen = 0

Init ==
  /\ PowerUp
  /\ files \in [Ids -> {NoFile, Foreign}]
  /\ before = 0 /\ finished = {}

\* The race that gets a session token.  The counter is 32 bits wide.
Race(t) == before + t

-----------------------------------------------------------------------------
(* The slots, as the mixer uses them.                                      *)

Unsaved(s) == state[s] \in {"Pending", "Failed"}

nb4HistoryPending == {s \in Slots : Unsaved(s)}

EmptySlots == {s \in Slots : state[s] = "Empty"}

CanReserve == EmptySlots # {}

Running == racePhase = "Running"

\* nb4HistoryReserve().  The mixer is the only one to reserve, and SlotOwned
\* says that it never does so without a free slot.
ReserveNothing ==
  /\ historySlot' = NoSlot /\ status' = "Full"
  /\ UNCHANGED <<state, token, savedId>>

Reserve(s) ==
  /\ historySlot' = s
  /\ state' = [state EXCEPT ![s] = "Reserved"]
  /\ token' = [token EXCEPT ![s] = 0]
  /\ savedId' = [savedId EXCEPT ![s] = 0]
  /\ UNCHANGED status

beginRace ==
  /\ Race(sessionSequence) < MaxRaces
  /\ IF CanReserve THEN Reserve(Min(EmptySlots)) ELSE ReserveNothing
  /\ resultToken' = 0 /\ racePaused' = FALSE /\ racePhase' = "Running"
  /\ UNCHANGED <<record, id, sessionSequence, ghostVars>>

Release ==
  state' = [s \in Slots |-> IF s = historySlot /\ state[s] = "Reserved" THEN "Empty" ELSE state[s]]

\* Fault: the status goes on telling of an earlier race.
NewStatusForgotten == status

NewStatus == "Pending"

Publish(s) ==
  /\ sessionSequence' = sessionSequence + 1
  /\ record' = [record EXCEPT ![s] = Race(sessionSequence + 1)]
  /\ id' = [id EXCEPT ![s] = 0]
  /\ token' = [token EXCEPT ![s] = sessionSequence + 1]
  /\ savedId' = [savedId EXCEPT ![s] = 0]
  /\ state' = [state EXCEPT ![s] = "Pending"]
  /\ status' = NewStatus
  /\ resultToken' = sessionSequence + 1

PublishNowhere ==
  /\ resultToken' = 0
  /\ UNCHANGED <<slotVars, sessionSequence, status>>

finishRace ==
  /\ Running
  /\ IF historySlot \in Slots THEN Publish(historySlot) ELSE PublishNowhere
  /\ finished' = finished \union {Race(sessionSequence + 1)}
  /\ historySlot' = NoSlot /\ racePaused' = FALSE /\ racePhase' = "Finished"
  /\ UNCHANGED before

-----------------------------------------------------------------------------
(* The mixer: nb4RaceProcessCommands(), evalTimers(), nb4RacingTick().      *)

MixerOnly == UNCHANGED <<retry, workerVars, files, pageVars>>

IdleSession ==
  UNCHANGED <<sessionVars, slotVars, sessionSequence, status, ghostVars>>

Take(c) == raceCommand = c /\ raceCommand' = "none" /\ MixerOnly

\* A toggled pause is a start unless a race is running.
StartCommand ==
  /\ Take("start") \/ (Take("pause") /\ ~Running)
  /\ \/ ~Running /\ CanReserve /\ beginRace
     \/ (Running \/ ~CanReserve) /\ IdleSession

PauseCommand ==
  /\ Take("pause") /\ Running
  /\ racePaused' = ~racePaused
  /\ UNCHANGED <<racePhase, historySlot, resultToken, slotVars, sessionSequence, status, ghostVars>>

FinishCommand == Take("finish") /\ (finishRace \/ (~Running /\ IdleSession))

ResetCommand ==
  /\ Take("reset")
  /\ Release
  /\ historySlot' = NoSlot /\ racePaused' = FALSE /\ racePhase' = "Ready"
  /\ UNCHANGED <<resultToken, record, id, token, savedId, sessionSequence, status, ghostVars>>

\* Fault: the timer of a new race runs although no slot is free.
TimerHeldTwoCauses == racePaused \/ racePhase = "Finished"

nb4RaceTimerHeld ==
  racePaused \/ racePhase = "Finished" \/ (racePhase = "Ready" /\ ~CanReserve)

\* The native timer advances: it starts a race, or ends one at the lap limit.
TimerTick ==
  /\ ~nb4RaceTimerHeld
  /\ (racePhase = "Ready" /\ beginRace) \/ finishRace
  /\ UNCHANGED raceCommand /\ MixerOnly

Mixer ==
  \/ StartCommand \/ PauseCommand \/ FinishCommand \/ ResetCommand
  \/ TimerTick

-----------------------------------------------------------------------------
(* The storage worker: the history part of nb4StorageProcess().            *)

WorkerStep(from, to) ==
  /\ at = from /\ at' = to
  /\ UNCHANGED <<raceCommand, sessionVars, record, token, sessionSequence, pageVars, ghostVars>>

\* Fault: the loop goes past the last slot.
AfterThisPastEnd == IF cur \in Slots THEN "slot" ELSE "summary"

AfterThis == IF cur + 1 \in Slots THEN "slot" ELSE "summary"

StartPass ==
  /\ WorkerStep("asleep", "slot")
  /\ again' = retry /\ retry' = FALSE /\ cur' = 1
  /\ UNCHANGED <<state, id, savedId, status, lastAssignedId, ok, files>>

\* Fault: a retry is noted and not acted on.
DuePendingOnly(s) == state[s] = "Pending"

Due(s) == state[s] = "Pending" \/ (again /\ state[s] = "Failed")

SkipSlot ==
  /\ WorkerStep("slot", AfterThis)
  /\ ~Due(cur)
  /\ cur' = cur + 1
  /\ UNCHANGED <<state, id, savedId, status, retry, lastAssignedId, again, ok, files>>

\* The card is missing or belongs to the USB host.
Unavailable ==
  /\ WorkerStep("slot", "state")
  /\ Due(cur)
  /\ status' = "Unavailable" /\ ok' = FALSE
  /\ UNCHANGED <<state, id, savedId, retry, lastAssignedId, cur, again, files>>

BeginSave ==
  /\ WorkerStep("slot", "save")
  /\ Due(cur)
  /\ status' = "Saving"
  /\ UNCHANGED <<state, id, savedId, retry, lastAssignedId, cur, again, ok, files>>

\* saveRecord(), on a record nobody else touches.  Any call into FatFs may
\* fail, the rename also after it was done.

Numbers == {n \in Ids : files[n] # NoFile}

Highest == Max(Numbers \union {lastAssignedId})

\* Fault: every attempt takes a new number.
RecordIdsAnew(s) == IF Highest = MaxId THEN {} ELSE {Highest + 1}

\* The number of the record: its own if it was tried before.
RecordIds(s) ==
  IF id[s] # 0 THEN {id[s]}
  ELSE IF Highest = MaxId THEN {} ELSE {Highest + 1}

\* Fault: f_stat() is not asked.
AttemptedOver(n, r) == {files[n], r}

\* The file after the attempt: an existing one is only read.
Attempted(n, r) == IF files[n] = NoFile THEN {NoFile, r} ELSE {files[n]}

SaveRecord ==
  /\ WorkerStep("save", "savedId")
  /\ \E n \in RecordIds(cur) :
       /\ id' = [id EXCEPT ![cur] = n]
       /\ lastAssignedId' = IF id[cur] = 0 THEN n ELSE lastAssignedId
       /\ \E f \in Attempted(n, record[cur]) :
            /\ files' = [files EXCEPT ![n] = f]
            /\ ok' \in {FALSE, f = record[cur]}
  /\ UNCHANGED <<state, savedId, status, retry, cur, again>>

\* An error before the record has a number, or no number left.
SaveDenied ==
  /\ WorkerStep("save", "savedId")
  /\ ok' = FALSE
  /\ UNCHANGED <<state, id, savedId, status, retry, lastAssignedId, cur, again, files>>

StoreSavedId ==
  /\ WorkerStep("savedId", "status")
  /\ savedId' = IF ok THEN [savedId EXCEPT ![cur] = id[cur]] ELSE savedId
  /\ UNCHANGED <<state, id, status, retry, lastAssignedId, cur, again, ok, files>>

StoreStatus ==
  /\ WorkerStep("status", "state")
  /\ status' = IF ok THEN "Saved" ELSE "Failed"
  /\ UNCHANGED <<state, id, savedId, retry, lastAssignedId, cur, again, ok, files>>

\* Fault: a result that cannot be saved makes room for the next one.
OutcomeEvicts == "Empty"

Outcome == IF ok THEN "Empty" ELSE "Failed"

StoreState ==
  /\ WorkerStep("state", AfterThis)
  /\ state' = [state EXCEPT ![cur] = Outcome]
  /\ cur' = cur + 1 /\ ok' = FALSE
  /\ UNCHANGED <<id, savedId, status, retry, lastAssignedId, again, files>>

\* "Saved" must not stand over a result that is not.
Summary ==
  /\ WorkerStep("summary", IF nb4HistoryPending # {} /\ status = "Saved" THEN "verdict" ELSE "asleep")
  /\ again' = FALSE
  /\ UNCHANGED <<state, id, savedId, status, retry, lastAssignedId, cur, ok, files>>

Verdict ==
  /\ WorkerStep("verdict", "asleep")
  /\ status' = "Failed"
  /\ UNCHANGED <<state, id, savedId, retry, lastAssignedId, cur, again, ok, files>>

Worker ==
  \/ StartPass \/ SkipSlot \/ Unavailable \/ BeginSave \/ SaveRecord \/ SaveDenied
  \/ StoreSavedId \/ StoreStatus \/ StoreState \/ Summary \/ Verdict

-----------------------------------------------------------------------------
(* The user interface, physical controls and the user.                     *)

PageStep(from, to) ==
  /\ page = from /\ page' = to
  /\ UNCHANGED <<sessionVars, slotVars, sessionSequence, status, workerVars, files, ghostVars>>

\* queueCommand(), from any task: finish, pause and the native reset.
QueueCommand ==
  /\ raceCommand = "none"
  /\ raceCommand' \in {"finish", "pause", "reset"}
  /\ UNCHANGED <<sessionVars, slotVars, sessionSequence, status, retry, workerVars, files,
                 pageVars, ghostVars>>

nb4RaceStart ==
  /\ CanReserve /\ ~Running
  /\ PageStep("idle", "start")
  /\ UNCHANGED <<raceCommand, retry, shown, wanted, seen>>

\* A start takes the place of a queued reset, and of nothing else.
QueueStart ==
  /\ PageStep("start", "idle")
  /\ raceCommand' = IF raceCommand \in {"none", "reset"} THEN "start" ELSE raceCommand
  /\ UNCHANGED <<retry, shown, wanted, seen>>

nb4HistoryRetry ==
  /\ PageStep("idle", "idle")
  /\ retry' = TRUE
  /\ UNCHANGED <<raceCommand, shown, wanted, seen>>

\* "View result": nb4HistorySavedId(nb4RaceResultToken()), access by access.
ViewResult ==
  /\ "view" \in User
  /\ resultToken # 0
  /\ PageStep("idle", "token")
  /\ wanted' = resultToken
  /\ UNCHANGED <<raceCommand, retry, shown, seen>>

Leave ==
  /\ PageStep(page, "idle")
  /\ shown' = NoSlot /\ wanted' = 0 /\ seen' = 0
  /\ UNCHANGED <<raceCommand, retry>>

\* A token is in one slot and never in another one, so the search of the
\* slots in their order finds it where it is when that slot is looked at.
ReadToken ==
  \/ \E s \in Slots :
       /\ token[s] = wanted
       /\ PageStep("token", "savedId")
       /\ shown' = s
       /\ UNCHANGED <<raceCommand, retry, wanted, seen>>
  \/ page = "token" /\ (\A s \in Slots : token[s] # wanted) /\ Leave

ReadSavedId ==
  /\ PageStep("savedId", "recheck")
  /\ seen' = savedId[shown]
  /\ UNCHANGED <<raceCommand, retry, shown, wanted>>

\* Fault: the slot is not looked at again.
SameTokenAssumed == TRUE

SameToken == token[shown] = wanted

RecheckToken ==
  \/ /\ PageStep("recheck", "phase")
     /\ SameToken /\ seen # 0
     /\ UNCHANGED <<raceCommand, retry, shown, wanted, seen>>
  \/ page = "recheck" /\ (~SameToken \/ seen = 0) /\ Leave

\* nb4OpenRaceRecord(seen), if no new race has begun.
Opens == page = "phase" /\ racePhase = "Finished"

ReadPhase == page = "phase" /\ Leave

\* nb4RacingReset() in postModelLoad(): the mixer has been stopped.
LoadModel ==
  /\ page = "idle"
  /\ Release
  /\ raceCommand' = "none" /\ racePhase' = "Ready" /\ racePaused' = FALSE
  /\ historySlot' = NoSlot /\ resultToken' = 0
  /\ UNCHANGED <<record, id, token, savedId, sessionSequence, status, retry, workerVars, files,
                 pageVars, ghostVars>>

\* The user deletes a record, or copies one from elsewhere onto the card.
ChangeCard ==
  /\ "card" \in User
  /\ page = "idle"
  /\ \E n \in Ids :
       /\ files' = [files EXCEPT ![n] = IF files[n] = NoFile THEN Foreign ELSE NoFile]
       /\ finished' = finished \ {files[n]}
  /\ UNCHANGED <<raceCommand, sessionVars, slotVars, sessionSequence, status, retry, workerVars,
                 pageVars, before>>

\* Power is lost: what was not saved is gone.
Restart ==
  /\ "power" \in User
  /\ raceCommand' = "none" /\ racePhase' = "Ready" /\ racePaused' = FALSE
  /\ historySlot' = NoSlot /\ resultToken' = 0
  /\ state' = [s \in Slots |-> "Empty"] /\ record' = [s \in Slots |-> 0]
  /\ id' = [s \in Slots |-> 0] /\ token' = [s \in Slots |-> 0] /\ savedId' = [s \in Slots |-> 0]
  /\ sessionSequence' = 0 /\ status' = "Idle" /\ retry' = FALSE /\ lastAssignedId' = 0
  /\ at' = "asleep" /\ cur' = 1 /\ again' = FALSE /\ ok' = FALSE
  /\ page' = "idle" /\ shown' = NoSlot /\ wanted' = 0 /\ seen' = 0
  /\ before' = Race(sessionSequence)
  /\ finished' = {files[n] : n \in Numbers} \ {Foreign}
  /\ UNCHANGED files

Interface ==
  \/ QueueCommand \/ nb4RaceStart \/ QueueStart \/ nb4HistoryRetry
  \/ ViewResult \/ ReadToken \/ ReadSavedId \/ RecheckToken \/ ReadPhase
  \/ LoadModel

Next == Mixer \/ Worker \/ Interface \/ ChangeCard \/ Restart

\* The worker wakes every 25 ms and shares its priority with one other task.
Spec == Init /\ [][Next]_vars /\ WF_vars(Worker)

-----------------------------------------------------------------------------
(* Properties.                                                             *)

\* The types of the variables; a record number never exceeds its 32 bits.
TypeOK ==
  /\ raceCommand \in {"none", "start", "finish", "pause", "reset"}
  /\ racePhase \in {"Ready", "Running", "Finished"} /\ racePaused \in BOOLEAN
  /\ historySlot \in Slots \union {NoSlot}
  /\ resultToken \in 0 .. MaxRaces
  /\ state \in [Slots -> {"Empty", "Reserved", "Pending", "Failed"}]
  /\ record \in [Slots -> 0 .. MaxRaces]
  /\ id \in [Slots -> 0 .. MaxId] /\ savedId \in [Slots -> 0 .. MaxId]
  /\ token \in [Slots -> 0 .. MaxRaces]
  /\ sessionSequence \in 0 .. MaxRaces /\ before \in 0 .. MaxRaces
  /\ status \in {"Idle", "Pending", "Saving", "Saved", "Unavailable", "Failed", "Full"}
  /\ retry \in BOOLEAN /\ again \in BOOLEAN /\ ok \in BOOLEAN
  /\ lastAssignedId \in 0 .. MaxId
  /\ at \in {"asleep", "slot", "save", "savedId", "status", "state", "summary", "verdict"}
  /\ cur \in Nat /\ (at \in {"slot", "save", "savedId", "status", "state"} => cur \in Slots)
  /\ files \in [Ids -> 0 .. Foreign]
  /\ page \in {"idle", "start", "token", "savedId", "recheck", "phase"}
  /\ shown \in Slots \union {NoSlot} /\ wanted \in 0 .. MaxRaces /\ seen \in 0 .. MaxId
  /\ finished \subseteq Races

\* A running race has a slot of its own to put its result into, and no slot
\* is held for a race that is not running (beginRace, finishRace, the resets).
SlotOwned ==
  {s \in Slots : state[s] = "Reserved"} = IF Running THEN {historySlot} ELSE {}

Stored == {files[n] : n \in Numbers}

\* Every race that finished since power-up is in a file or in a slot that a
\* retry looks at; a result is never evicted (nb4_history.h:24).
NothingLost ==
  finished \subseteq Stored \union {record[s] : s \in nb4HistoryPending}

\* A save tried again after an error that came too late makes no second file
\* of the race (nb4_history.cpp:165).
OneFilePerRace ==
  \A m, n \in Numbers : files[m] = files[n] /\ files[m] # Foreign => m = n

\* The worker never changes a file that exists, whoever made it.
FilesKept ==
  [][at = "save" /\ at' = "savedId" => \A n \in Numbers : files'[n] = files[n]]_vars

\* The record that "View result" opens is the one of the session whose token
\* was read, unless the user has since removed or replaced its file
\* (docs/nb4/MENUS.md, "Race results").
OwnResultOpened ==
  Opens /\ files[seen] \in Races => files[seen] = Race(wanted)

\* Between two passes "Saved" is only shown when no result waits to be saved.
SavedMeansSaved ==
  at = "asleep" /\ status = "Saved" => nb4HistoryPending = {}

\* A retry makes the worker take up every failed result again.
RetryTried ==
  \A s \in Slots :
    (retry /\ state[s] = "Failed") ~> (state[s] # "Failed" \/ (at # "slot" /\ cur = s))
=============================================================================
