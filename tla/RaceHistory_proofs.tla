-------------------------- MODULE RaceHistory_proofs --------------------------
(***************************************************************************)
(* Proofs about RaceHistory, for any number of slots, record numbers and   *)
(* races: a running race owns a slot, no finished race is lost or put into *)
(* two files, and what the display says of results is true.                *)
(***************************************************************************)
EXTENDS RaceHistory, WellFoundedInduction, FiniteSetTheorems, TLAPS

Saving == at \in {"save", "savedId", "status", "state"}

\* TypeOK in two parts: what is kept for each slot and file, and the rest.
SlotsTyped ==
  /\ state \in [Slots -> {"Empty", "Reserved", "Pending", "Failed"}]
  /\ record \in [Slots -> 0 .. MaxRaces] /\ token \in [Slots -> 0 .. MaxRaces]
  /\ id \in [Slots -> 0 .. MaxId] /\ savedId \in [Slots -> 0 .. MaxId]
  /\ files \in [Ids -> 0 .. Foreign]

Scalars ==
  /\ raceCommand \in {"none", "start", "finish", "pause", "reset"}
  /\ racePhase \in {"Ready", "Running", "Finished"} /\ racePaused \in BOOLEAN
  /\ historySlot \in Slots \union {NoSlot} /\ resultToken \in 0 .. MaxRaces
  /\ sessionSequence \in 0 .. MaxRaces /\ before \in 0 .. MaxRaces
  /\ status \in {"Idle", "Pending", "Saving", "Saved", "Unavailable", "Failed", "Full"}

Positions ==
  /\ retry \in BOOLEAN /\ again \in BOOLEAN /\ ok \in BOOLEAN
  /\ lastAssignedId \in 0 .. MaxId
  /\ at \in {"asleep", "slot", "save", "savedId", "status", "state", "summary", "verdict"}
  /\ cur \in Nat /\ (at = "slot" \/ Saving => cur \in Slots)
  /\ page \in {"idle", "start", "token", "savedId", "recheck", "phase"}
  /\ shown \in Slots \union {NoSlot} /\ wanted \in 0 .. MaxRaces /\ seen \in 0 .. MaxId
  /\ page \in {"savedId", "recheck"} => shown \in Slots

\* SlotOwned and NothingLost, slot by slot and race by race.
Owned ==
  /\ Running => historySlot \in Slots
  /\ \A s \in Slots : state[s] = "Reserved" <=> Running /\ s = historySlot

Filed(r) == \E n \in Ids : files[n] = r

Waiting(r) == \E s \in Slots : record[s] = r /\ Unsaved(s)

Kept == \A r \in finished : Filed(r) \/ Waiting(r)

\* What the worker saves stays unsaved until the worker says otherwise, and it only says
\* so of a result whose file it has seen, unless the user has removed that file since.
InWork ==
  /\ Saving => Unsaved(cur)
  /\ ok => at \in {"savedId", "status", "state"}
  /\ ok /\ record[cur] \in finished => Filed(record[cur])

\* The bound on races leaves room for the result of a running one; no slot has a later one.
Counted ==
  /\ before + sessionSequence \in 0 .. MaxRaces
  /\ Running => before + sessionSequence < MaxRaces
  /\ \A s \in Slots : record[s] <= before + sessionSequence
  /\ \A r \in finished : r \in 1 .. MaxRaces

Inv == SlotsTyped /\ Scalars /\ Positions /\ Owned /\ Kept /\ InWork /\ Counted

-----------------------------------------------------------------------------
(* The smallest and the largest of a set of numbers.                       *)

\* Slots are numbered from 1.
LEMMA SlotNumbers == Slots \subseteq Nat \ {0} /\ 1 \in Slots
<1>1. Cardinality(Slots) \in Nat
  BY SlotsAssumption, FS_CardinalityType
<1> QED
  BY <1>1, SlotsAssumption

\* A nonempty set of natural numbers has a smallest element.
LEMMA Smallest ==
  ASSUME NEW S \in SUBSET Nat, S # {}
  PROVE  \E n \in S : \A m \in S : n <= m
<1>1. \E Less : IsWellFoundedOn(Less, Nat) /\ \A x, y \in Nat : x < y => <<x, y>> \in Less
  <2> DEFINE L == OpToRel(<, Nat)
  <2>1. \A x, y \in Nat : x < y => <<x, y>> \in L
    BY DEF OpToRel
  <2>2. IsWellFoundedOn(L, Nat)
    BY NatLessThanWellFounded
  <2> HIDE DEF L
  <2> QED
    BY <2>1, <2>2
<1>2. PICK Less : IsWellFoundedOn(Less, Nat) /\ \A x, y \in Nat : x < y => <<x, y>> \in Less
  BY <1>1
<1>3. PICK n \in S : \A m \in S : ~ (<<m, n>> \in Less)
  <2>1. IsWellFoundedOn(Less, Nat) /\ S \subseteq Nat
    BY <1>2
  <2> QED
    BY ONLY <2>1, S # {}, WFMin, Zenon
<1>4. ASSUME NEW m \in S PROVE n <= m
  <2>1. m \in Nat /\ n \in Nat /\ ~ (m < n)
    BY <1>2, <1>3
  <2> QED
    BY <2>1
<1> QED
  BY <1>4

\* The free slot that Reserve takes is free.
LEMMA MinFree == CanReserve => Min(EmptySlots) \in EmptySlots
<1> SUFFICES ASSUME CanReserve PROVE Min(EmptySlots) \in EmptySlots
  OBVIOUS
<1>1. EmptySlots \in SUBSET Nat /\ EmptySlots # {}
  BY SlotNumbers DEF CanReserve, EmptySlots
<1>2. \E n \in EmptySlots : \A m \in EmptySlots : n <= m
  BY <1>1, Smallest
<1> QED
  BY <1>2 DEF Min

\* The highest number in use is one of those in use, and none is higher.
LEMMA HighestBound ==
  ASSUME SlotsTyped, Positions
  PROVE  /\ Highest \in 0 .. MaxId
         /\ \A n \in Numbers \union {lastAssignedId} : n <= Highest
<1> DEFINE S == Numbers \union {lastAssignedId}
           T == {n \in Nat : MaxId - n \in S}
<1>1. S \subseteq 0 .. MaxId /\ lastAssignedId \in S
  BY BoundsAssumption DEF SlotsTyped, Positions, Numbers, Ids
<1>2. \A x \in S : MaxId - x \in Nat /\ MaxId - (MaxId - x) = x
  BY <1>1, BoundsAssumption
<1>3. T \in SUBSET Nat /\ \A x \in S : MaxId - x \in T
  BY <1>2
<1>4. \E n \in T : \A m \in T : n <= m
  <2>1. T # {}
    BY <1>1, <1>3
  <2> HIDE DEF T
  <2> QED
    BY <1>3, <2>1, Smallest
<1>5. PICK n \in T : \A m \in T : n <= m
  BY <1>4
<1>6. n \in Nat /\ MaxId - n \in S
  OBVIOUS
<1>7. \A x \in S : MaxId - n >= x
  <2> SUFFICES ASSUME NEW x \in S PROVE MaxId - n >= x
    OBVIOUS
  <2>1. n <= MaxId - x
    BY <1>3, <1>5
  <2>2. x \in 0 .. MaxId
    BY <1>1
  <2> QED
    BY <2>1, <2>2, <1>6, BoundsAssumption
<1>8. Max(S) \in S /\ \A x \in S : Max(S) >= x
  <2> HIDE DEF S
  <2> QED
    BY <1>6, <1>7 DEF Max
<1> QED
  BY <1>1, <1>8, BoundsAssumption DEF Highest

-----------------------------------------------------------------------------

\* At power-up every slot is free.
LEMMA InitInv == Init => Inv
<1> SUFFICES ASSUME Init PROVE Inv
  OBVIOUS
<1> USE SlotNumbers, BoundsAssumption DEF Init, PowerUp, Inv, SlotsTyped, Scalars, Positions,
                                          Owned, Kept, Filed, Waiting, InWork, Counted, Saving,
        Unsaved, Running, Race, Ids, Races, Foreign, NoSlot, NoFile,
        sessionVars, slotVars, workerVars, pageVars, ghostVars
<1>1. SlotsTyped
  OBVIOUS
<1>2. racePaused \in BOOLEAN /\ retry \in BOOLEAN /\ again \in BOOLEAN /\ ok \in BOOLEAN
  OBVIOUS
<1>3. Scalars /\ Positions
  BY <1>2
<1> QED
  BY <1>1, <1>2, <1>3

\* A race reserves a slot that was free.
LEMMA BeginKeeps ==
  ASSUME Inv, CanReserve, ~Running, beginRace, MixerOnly,
         raceCommand' \in {"none", "start", "finish", "pause", "reset"}
  PROVE  Inv'
<1> DEFINE f == Min(EmptySlots)
<1>1. f \in Slots /\ state[f] = "Empty"
  BY MinFree DEF EmptySlots
<1>2. /\ state' = [state EXCEPT ![f] = "Reserved"] /\ token' = [token EXCEPT ![f] = 0]
      /\ savedId' = [savedId EXCEPT ![f] = 0] /\ historySlot' = f
      /\ racePhase' = "Running" /\ racePaused' = FALSE /\ resultToken' = 0
      /\ before + sessionSequence < MaxRaces
      /\ UNCHANGED <<record, id, sessionSequence, ghostVars, status>>
      /\ UNCHANGED <<retry, workerVars, files, pageVars>>
  BY DEF beginRace, Reserve, MixerOnly, Race
<1> HIDE DEF f
<1> USE SlotNumbers, BoundsAssumption
    DEF Inv, Saving, Unsaved, Running, Race, Ids, Races, Foreign, NoSlot, NoFile,
        sessionVars, slotVars, workerVars, pageVars, ghostVars
<1>3. SlotsTyped'
  <2>1. (state \in [Slots -> {"Empty", "Reserved", "Pending", "Failed"}])'
    BY <1>1, <1>2 DEF SlotsTyped
  <2>2. (record \in [Slots -> 0 .. MaxRaces] /\ token \in [Slots -> 0 .. MaxRaces])'
    BY <1>1, <1>2 DEF SlotsTyped
  <2>3. (id \in [Slots -> 0 .. MaxId] /\ savedId \in [Slots -> 0 .. MaxId]
         /\ files \in [Ids -> 0 .. Foreign])'
    BY <1>1, <1>2 DEF SlotsTyped
  <2> QED
    BY <2>1, <2>2, <2>3 DEF SlotsTyped
<1>4. Scalars'
  <2>1. racePaused' \in BOOLEAN
    BY <1>1, <1>2
  <2> QED
    BY <1>1, <1>2, <2>1 DEF Scalars
<1>5. Positions'
  BY <1>2 DEF Positions
<1>6. Owned'
  BY <1>1, <1>2 DEF Owned, SlotsTyped
<1>7. \A s \in Slots : s # f => state'[s] = state[s]
  BY <1>1, <1>2 DEF SlotsTyped
<1>8. Kept'
  <2>1. \A r : Filed(r)' <=> Filed(r)
    BY <1>2 DEF Filed
  <2>2. \A r : Waiting(r) => Waiting(r)'
    BY <1>1, <1>2, <1>7 DEF Waiting
  <2> QED
    BY <1>2, <2>1, <2>2 DEF Kept
<1>9. InWork'
  <2>1. cur # f \/ ~Saving
    BY <1>1 DEF InWork
  <2> QED
    BY <1>1, <1>2, <1>7, <2>1 DEF InWork, Filed, Positions
<1>10. Counted'
  BY <1>2 DEF Counted, Scalars, SlotsTyped
<1> QED
  BY <1>3, <1>4, <1>5, <1>6, <1>8, <1>9, <1>10

\* The result of a race is published in the slot that was reserved for it.
LEMMA FinishKeeps ==
  ASSUME Inv, finishRace, MixerOnly,
         raceCommand' \in {"none", "start", "finish", "pause", "reset"}
  PROVE  Inv'
<1> DEFINE h == historySlot
           new == sessionSequence + 1
<1>1. h \in Slots /\ state[h] = "Reserved" /\ Running
  BY DEF Inv, Owned, finishRace
<1>2. new \in 1 .. MaxRaces /\ before + new \in 1 .. MaxRaces
  BY <1>1, BoundsAssumption DEF Inv, Counted, Scalars
<1>3. /\ state' = [state EXCEPT ![h] = "Pending"] /\ record' = [record EXCEPT ![h] = before + new]
      /\ token' = [token EXCEPT ![h] = new] /\ savedId' = [savedId EXCEPT ![h] = 0]
      /\ id' = [id EXCEPT ![h] = 0] /\ sessionSequence' = new /\ resultToken' = new
      /\ status' = "Pending" /\ finished' = finished \union {before + new}
      /\ historySlot' = NoSlot /\ racePaused' = FALSE /\ racePhase' = "Finished"
      /\ UNCHANGED before
      /\ UNCHANGED <<retry, workerVars, files, pageVars>>
  BY <1>1 DEF finishRace, Publish, NewStatus, MixerOnly, Race
<1>4. h \notin {NoSlot}
  BY <1>1, SlotNumbers DEF NoSlot
<1>5. Inv /\ historySlot = h
  OBVIOUS
<1>6. new = sessionSequence + 1
  OBVIOUS
<1> HIDE DEF h, new
<1> USE SlotNumbers, BoundsAssumption
    DEF Inv, Saving, Unsaved, Running, Race, Ids, Races, Foreign, NoSlot, NoFile,
        sessionVars, slotVars, workerVars, pageVars, ghostVars
<1>7. SlotsTyped'
  <2>1. (state \in [Slots -> {"Empty", "Reserved", "Pending", "Failed"}])'
    BY <1>1, <1>2, <1>3, <1>5 DEF SlotsTyped
  <2>2. (record \in [Slots -> 0 .. MaxRaces] /\ token \in [Slots -> 0 .. MaxRaces])'
    BY <1>1, <1>2, <1>3, <1>5 DEF SlotsTyped
  <2>3. (id \in [Slots -> 0 .. MaxId] /\ savedId \in [Slots -> 0 .. MaxId]
         /\ files \in [Ids -> 0 .. Foreign])'
    BY <1>1, <1>2, <1>3, <1>5 DEF SlotsTyped
  <2> QED
    BY <2>1, <2>2, <2>3 DEF SlotsTyped
<1>8. Scalars'
  <2>1. racePaused' \in BOOLEAN
    BY <1>2, <1>3, <1>5
  <2> QED
    BY <1>2, <1>3, <1>5, <2>1 DEF Scalars
<1>9. Positions'
  BY <1>3, <1>5 DEF Positions
<1>10. Owned'
  BY <1>1, <1>3, <1>4, <1>5 DEF Owned, SlotsTyped
<1>11. \A s \in Slots : s # h => state'[s] = state[s] /\ record'[s] = record[s]
  BY <1>1, <1>3, <1>5 DEF SlotsTyped
<1>12. Kept'
  <2>1. \A r : Filed(r)' <=> Filed(r)
    BY <1>3 DEF Filed
  <2>2. \A r : Waiting(r) => Waiting(r)'
    BY <1>1, <1>11 DEF Waiting
  <2>3. \E s \in Slots : record'[s] = before + new /\ Unsaved(s)'
    BY <1>1, <1>3, <1>5 DEF Waiting, SlotsTyped
  <2> QED
    BY <1>3, <1>5, <2>1, <2>2, <2>3 DEF Kept, Waiting
<1>13. InWork'
  <2>1. cur # h \/ ~Saving
    BY <1>1, <1>5 DEF InWork
  <2>2. \A r : Filed(r)' <=> Filed(r)
    BY <1>3 DEF Filed
  <2>3. Saving => record'[cur] = record[cur] /\ record[cur] # before + new
    BY <1>6, <1>2, <1>3, <1>5, <1>11, <2>1 DEF Counted, Positions, Scalars, SlotsTyped
  <2> QED
    BY <1>3, <1>5, <1>11, <2>1, <2>2, <2>3 DEF InWork, Positions
<1>14. Counted'
  <2>1. \A s \in Slots : record'[s] <= before' + sessionSequence'
    <3>1. record'[h] = before + new /\ before' + sessionSequence' = before + new
      BY <1>1, <1>3 DEF SlotsTyped
    <3>2. \A s \in Slots : record[s] <= before + new
      BY <1>6 DEF Counted, Scalars, SlotsTyped
    <3>3. \A s \in Slots : s = h \/ record'[s] = record[s]
      BY <1>11
    <3> QED
      BY ONLY <1>2, <3>1, <3>2, <3>3
  <2>2. \A r \in finished' : r \in 1 .. MaxRaces
    BY <1>2, <1>3 DEF Counted
  <2> QED
    BY <1>2, <1>3, <1>5, <2>1, <2>2 DEF Counted
<1> QED
  BY <1>7, <1>8, <1>9, <1>10, <1>12, <1>13, <1>14

\* A command or a tick of the timer runs to completion.
LEMMA MixerKeeps ==
  ASSUME Inv, Mixer PROVE Inv'
<1>1. raceCommand' \in {"none", "start", "finish", "pause", "reset"}
  BY DEF Mixer, StartCommand, PauseCommand, FinishCommand, ResetCommand, TimerTick, Take, Inv,
         Scalars
<1>2. MixerOnly
  BY DEF Mixer, StartCommand, PauseCommand, FinishCommand, ResetCommand, TimerTick, Take
<1>3. CASE CanReserve /\ ~Running /\ beginRace
  BY <1>1, <1>2, <1>3, BeginKeeps
<1>4. CASE finishRace
  BY <1>1, <1>2, <1>4, FinishKeeps
<1>5. CASE IdleSession
  <2> USE <1>2, <1>5 DEF IdleSession, MixerOnly, Inv, Saving, Unsaved, Running, Race, Ids,
                         Races, Foreign, NoSlot, NoFile,
        sessionVars, slotVars, workerVars, pageVars, ghostVars
  <2>1. SlotsTyped'
    BY DEF SlotsTyped
  <2>2. Scalars'
    BY <1>1 DEF Scalars
  <2>3. Positions'
    BY DEF Positions
  <2>4. Owned'
    BY DEF Owned
  <2>5. (Kept /\ InWork /\ Counted)'
    BY DEF Kept, InWork, Counted, Filed, Waiting
  <2> QED
    BY <2>1, <2>2, <2>3, <2>4, <2>5
<1>6. CASE PauseCommand
  <2> USE <1>2, <1>6 DEF PauseCommand, MixerOnly, Inv, Saving, Unsaved, Running, Race, Ids,
                         Races, Foreign, NoSlot, NoFile,
        sessionVars, slotVars, workerVars, pageVars, ghostVars
  <2>1. SlotsTyped'
    BY DEF SlotsTyped
  <2>2. Scalars'
    BY <1>1 DEF Scalars
  <2>3. Positions'
    BY DEF Positions
  <2>4. Owned'
    BY DEF Owned
  <2>5. (Kept /\ InWork /\ Counted)'
    BY DEF Kept, InWork, Counted, Filed, Waiting
  <2> QED
    BY <2>1, <2>2, <2>3, <2>4, <2>5
<1>7. CASE ResetCommand
  <2> USE SlotNumbers, <1>2, <1>7
      DEF ResetCommand, Release, MixerOnly, Inv, Saving, Unsaved, Running, Race, Ids, Races,
          Foreign, NoSlot, NoFile,
        sessionVars, slotVars, workerVars, pageVars, ghostVars
  <2>1. SlotsTyped'
    BY DEF SlotsTyped
  <2>2. Scalars'
    BY <1>1 DEF Scalars
  <2>3. Positions'
    BY DEF Positions
  <2>4. Owned'
    BY DEF Owned, SlotsTyped
  <2>5. \A s \in Slots : Unsaved(s) => Unsaved(s)'
    BY DEF SlotsTyped
  <2>6. (Kept /\ InWork /\ Counted)'
    BY <2>5 DEF Kept, InWork, Counted, Filed, Waiting, Positions
  <2> QED
    BY <2>1, <2>2, <2>3, <2>4, <2>6
<1>8. \/ CanReserve /\ ~Running /\ beginRace
      \/ finishRace \/ IdleSession \/ PauseCommand \/ ResetCommand
  <2>1. CASE TimerTick
    BY <2>1 DEF TimerTick, nb4RaceTimerHeld, Running
  <2> QED
    BY <2>1 DEF Mixer, StartCommand, FinishCommand
<1> QED
  BY <1>3, <1>4, <1>5, <1>6, <1>7, <1>8

\* The worker frees only a slot whose result is in a file.
LEMMA WorkerKeeps ==
  ASSUME Inv, Worker PROVE Inv'
<1> USE SlotNumbers, BoundsAssumption
    DEF Inv, Saving, Unsaved, Running, Race, Ids, Races, Foreign, NoSlot, NoFile,
        sessionVars, slotVars, workerVars, pageVars, ghostVars
<1>1. CASE StartPass
  <2> USE <1>1 DEF StartPass, WorkerStep
  <2>1. SlotsTyped'
    BY DEF SlotsTyped, Positions, InWork
  <2>2. Scalars'
    BY DEF Scalars
  <2>3. Positions'
    BY DEF Positions, InWork, SlotsTyped
  <2>4. Owned'
    BY DEF Owned, SlotsTyped, InWork, Positions
  <2>5. (Kept /\ InWork /\ Counted)'
    BY DEF Kept, InWork, Counted, Filed, Waiting, SlotsTyped, Positions
  <2> QED
    BY <2>1, <2>2, <2>3, <2>4, <2>5
<1>2. CASE SkipSlot
  <2> USE <1>2 DEF SkipSlot, WorkerStep, AfterThis
  <2>1. SlotsTyped'
    BY DEF SlotsTyped, Positions, InWork
  <2>2. Scalars'
    BY DEF Scalars
  <2>3. Positions'
    BY DEF Positions, InWork, SlotsTyped
  <2>4. Owned'
    BY DEF Owned, SlotsTyped, InWork, Positions
  <2>5. (Kept /\ InWork /\ Counted)'
    BY DEF Kept, InWork, Counted, Filed, Waiting, SlotsTyped, Positions
  <2> QED
    BY <2>1, <2>2, <2>3, <2>4, <2>5
<1>3. CASE Unavailable
  <2> USE <1>3 DEF Unavailable, WorkerStep, Due
  <2>1. SlotsTyped'
    BY DEF SlotsTyped, Positions, InWork
  <2>2. Scalars'
    BY DEF Scalars
  <2>3. Positions'
    BY DEF Positions, InWork, SlotsTyped
  <2>4. Owned'
    BY DEF Owned, SlotsTyped, InWork, Positions
  <2>5. (Kept /\ InWork /\ Counted)'
    BY DEF Kept, InWork, Counted, Filed, Waiting, SlotsTyped, Positions
  <2> QED
    BY <2>1, <2>2, <2>3, <2>4, <2>5
<1>4. CASE BeginSave
  <2> USE <1>4 DEF BeginSave, WorkerStep, Due
  <2>1. SlotsTyped'
    BY DEF SlotsTyped, Positions, InWork
  <2>2. Scalars'
    BY DEF Scalars
  <2>3. Positions'
    BY DEF Positions, InWork, SlotsTyped
  <2>4. Owned'
    BY DEF Owned, SlotsTyped, InWork, Positions
  <2>5. (Kept /\ InWork /\ Counted)'
    BY DEF Kept, InWork, Counted, Filed, Waiting, SlotsTyped, Positions
  <2> QED
    BY <2>1, <2>2, <2>3, <2>4, <2>5
<1>5. CASE SaveRecord
  <2>1. PICK n \in RecordIds(cur) :
          /\ id' = [id EXCEPT ![cur] = n]
          /\ lastAssignedId' = IF id[cur] = 0 THEN n ELSE lastAssignedId
          /\ \E f \in Attempted(n, record[cur]) :
               /\ files' = [files EXCEPT ![n] = f]
               /\ ok' \in {FALSE, f = record[cur]}
    BY <1>5 DEF SaveRecord
  <2>2. PICK f \in Attempted(n, record[cur]) :
          files' = [files EXCEPT ![n] = f] /\ ok' \in {FALSE, f = record[cur]}
    BY <2>1
  <2>3. cur \in Slots /\ at = "save" /\ at' = "savedId"
    BY <1>5 DEF SaveRecord, WorkerStep, Positions
  <2>4. UNCHANGED <<raceCommand, sessionVars, record, token, sessionSequence, pageVars,
  ghostVars>>
        /\ UNCHANGED <<state, savedId, status, retry, cur, again>>
    BY <1>5 DEF SaveRecord, WorkerStep
  <2>5. n \in Ids
    <3>1. Highest \in 0 .. MaxId /\ id[cur] \in 0 .. MaxId
      BY <2>3, HighestBound DEF SlotsTyped
    <3> QED
      BY <2>1, <3>1 DEF RecordIds
  <2>6. f \in 0 .. Foreign /\ (files[n] # NoFile => f = files[n])
    BY <2>2, <2>3, <2>5 DEF Attempted, SlotsTyped
  <2>7. SlotsTyped'
    <3>1. id' \in [Slots -> 0 .. MaxId]
      BY <2>1, <2>3, <2>5 DEF SlotsTyped
    <3>2. files' \in [Ids -> 0 .. Foreign]
      BY <2>2, <2>5, <2>6 DEF SlotsTyped
    <3> QED
      BY <2>4, <3>1, <3>2 DEF SlotsTyped
  <2>8. Scalars'
    BY <2>4 DEF Scalars
  <2>9. Positions'
    <3>1. ok' \in BOOLEAN
      BY <2>2
    <3>2. lastAssignedId' \in 0 .. MaxId
      BY <2>1, <2>5 DEF Positions
    <3> QED
      BY <2>3, <2>4, <3>1, <3>2 DEF Positions
  <2>10. Owned'
    BY <2>4 DEF Owned
  <2>11. \A r \in finished : Filed(r) => Filed(r)'
    BY <2>2, <2>5, <2>6 DEF Filed, SlotsTyped, Counted
  <2>12. ok' => Filed(record[cur])'
    BY <2>2, <2>4, <2>5 DEF Filed, SlotsTyped
  <2>13. (Kept /\ InWork /\ Counted)'
    BY <2>3, <2>4, <2>11, <2>12 DEF Kept, Waiting, InWork, Counted
  <2> QED
    BY <2>7, <2>8, <2>9, <2>10, <2>13
<1>6. CASE SaveDenied
  <2> USE <1>6 DEF SaveDenied, WorkerStep
  <2>1. SlotsTyped'
    BY DEF SlotsTyped, Positions, InWork
  <2>2. Scalars'
    BY DEF Scalars
  <2>3. Positions'
    BY DEF Positions, InWork, SlotsTyped
  <2>4. Owned'
    BY DEF Owned, SlotsTyped, InWork, Positions
  <2>5. (Kept /\ InWork /\ Counted)'
    BY DEF Kept, InWork, Counted, Filed, Waiting, SlotsTyped, Positions
  <2> QED
    BY <2>1, <2>2, <2>3, <2>4, <2>5
<1>7. CASE StoreSavedId
  <2> USE <1>7 DEF StoreSavedId, WorkerStep
  <2>1. SlotsTyped'
    BY DEF SlotsTyped, Positions, InWork
  <2>2. Scalars'
    BY DEF Scalars
  <2>3. Positions'
    BY DEF Positions, InWork, SlotsTyped
  <2>4. Owned'
    BY DEF Owned, SlotsTyped, InWork, Positions
  <2>5. (Kept /\ InWork /\ Counted)'
    BY DEF Kept, InWork, Counted, Filed, Waiting, SlotsTyped, Positions
  <2> QED
    BY <2>1, <2>2, <2>3, <2>4, <2>5
<1>8. CASE StoreStatus
  <2> USE <1>8 DEF StoreStatus, WorkerStep
  <2>1. SlotsTyped'
    BY DEF SlotsTyped, Positions, InWork
  <2>2. Scalars'
    BY DEF Scalars
  <2>3. Positions'
    BY DEF Positions, InWork, SlotsTyped
  <2>4. Owned'
    BY DEF Owned, SlotsTyped, InWork, Positions
  <2>5. (Kept /\ InWork /\ Counted)'
    BY DEF Kept, InWork, Counted, Filed, Waiting, SlotsTyped, Positions
  <2> QED
    BY <2>1, <2>2, <2>3, <2>4, <2>5
<1>9. CASE StoreState
  <2> USE <1>9 DEF StoreState, WorkerStep, AfterThis, Outcome
  <2>1. cur \in Slots /\ state[cur] # "Reserved"
    BY DEF Positions, InWork
  <2>2. SlotsTyped'
    BY <2>1 DEF SlotsTyped
  <2>3. Scalars'
    BY DEF Scalars
  <2>4. Positions'
    <3>1. ok' \in BOOLEAN
      OBVIOUS
    <3>2. cur' \in Nat /\ (at' = "slot" => cur' \in Slots)
      BY <2>1
    <3> QED
      BY <3>1, <3>2 DEF Positions
  <2>5. Owned'
    BY <2>1 DEF Owned, SlotsTyped
  <2>6. Kept'
    <3>1. \A r : Filed(r)' <=> Filed(r)
      BY DEF Filed
    <3>2. \A r \in finished : Waiting(r) => Filed(r) \/ Waiting(r)'
      BY <2>1 DEF Waiting, InWork, SlotsTyped
    <3> QED
      BY <3>1, <3>2 DEF Kept
  <2>7. (InWork /\ Counted)'
    BY DEF InWork, Counted
  <2> QED
    BY <2>2, <2>3, <2>4, <2>5, <2>6, <2>7
<1>10. CASE Summary
  <2> USE <1>10 DEF Summary, WorkerStep
  <2>1. SlotsTyped'
    BY DEF SlotsTyped, Positions, InWork
  <2>2. Scalars'
    BY DEF Scalars
  <2>3. Positions'
    BY DEF Positions, InWork, SlotsTyped
  <2>4. Owned'
    BY DEF Owned, SlotsTyped, InWork, Positions
  <2>5. (Kept /\ InWork /\ Counted)'
    BY DEF Kept, InWork, Counted, Filed, Waiting, SlotsTyped, Positions
  <2> QED
    BY <2>1, <2>2, <2>3, <2>4, <2>5
<1>11. CASE Verdict
  <2> USE <1>11 DEF Verdict, WorkerStep
  <2>1. SlotsTyped'
    BY DEF SlotsTyped, Positions, InWork
  <2>2. Scalars'
    BY DEF Scalars
  <2>3. Positions'
    BY DEF Positions, InWork, SlotsTyped
  <2>4. Owned'
    BY DEF Owned, SlotsTyped, InWork, Positions
  <2>5. (Kept /\ InWork /\ Counted)'
    BY DEF Kept, InWork, Counted, Filed, Waiting, SlotsTyped, Positions
  <2> QED
    BY <2>1, <2>2, <2>3, <2>4, <2>5
<1> QED
  BY <1>1, <1>2, <1>3, <1>4, <1>5, <1>6, <1>7, <1>8, <1>9, <1>10, <1>11 DEF Worker

\* A page only reads what the other tasks write.
LEMMA PageKeeps ==
  ASSUME Inv,
         UNCHANGED <<sessionVars, slotVars, sessionSequence, status, workerVars, files,
         ghostVars>>,
         raceCommand' \in {"none", "start", "finish", "pause", "reset"}, retry' \in BOOLEAN,
         page' \in {"idle", "start", "token", "savedId", "recheck", "phase"},
         shown' \in Slots \union {NoSlot}, page' \in {"savedId", "recheck"} => shown' \in Slots,
         wanted' \in 0 .. MaxRaces, seen' \in 0 .. MaxId
  PROVE  Inv'
<1> USE DEF Inv, Saving, Unsaved, Running, Race, Ids, Races, Foreign, NoSlot, NoFile,
        sessionVars, slotVars, workerVars, pageVars, ghostVars
<1>1. SlotsTyped' /\ Scalars' /\ Owned'
  BY DEF SlotsTyped, Scalars, Owned
<1>3. Positions'
  BY DEF Positions
<1>2. (Kept /\ InWork /\ Counted)'
  BY DEF Kept, Filed, Waiting, InWork, Counted
<1> QED
  BY <1>1, <1>2, <1>3

\* A page reads; only the load of a model gives a reserved slot back.
LEMMA InterfaceKeeps ==
  ASSUME Inv, Interface PROVE Inv'
<1> USE SlotNumbers, BoundsAssumption
    DEF Inv, Saving, Unsaved, Running, Race, Ids, Races, Foreign, NoSlot, NoFile,
        sessionVars, slotVars, workerVars, pageVars, ghostVars
<1>1. CASE QueueCommand
  BY <1>1, PageKeeps DEF QueueCommand, Positions, Scalars, SlotsTyped
<1>2. CASE nb4RaceStart
  BY <1>2, PageKeeps DEF nb4RaceStart, PageStep, Positions, Scalars, SlotsTyped
<1>3. CASE QueueStart
  BY <1>3, PageKeeps DEF QueueStart, PageStep, Positions, Scalars, SlotsTyped
<1>4. CASE nb4HistoryRetry
  BY <1>4, PageKeeps DEF nb4HistoryRetry, PageStep, Positions, Scalars, SlotsTyped
<1>5. CASE ViewResult
  BY <1>5, PageKeeps DEF ViewResult, PageStep, Positions, Scalars, SlotsTyped
<1>6. CASE ReadToken
  <2>1. CASE Leave
    BY <2>1, PageKeeps DEF Leave, PageStep, Positions, Scalars
  <2>2. CASE \E s \in Slots : token[s] = wanted /\ PageStep("token", "savedId") /\ shown' = s
                                 /\ UNCHANGED <<raceCommand, retry, wanted, seen>>
    BY <2>2, PageKeeps DEF PageStep, Positions, Scalars, SlotsTyped
  <2> QED
    BY <1>6, <2>1, <2>2 DEF ReadToken
<1>7. CASE ReadSavedId
  BY <1>7, PageKeeps DEF ReadSavedId, PageStep, Positions, Scalars, SlotsTyped
<1>8. CASE RecheckToken
  <2>1. CASE Leave
    BY <2>1, PageKeeps DEF Leave, PageStep, Positions, Scalars
  <2>2. CASE PageStep("recheck", "phase") /\ UNCHANGED <<raceCommand, retry, shown, wanted, seen>>
    BY <2>2, PageKeeps DEF PageStep, Positions, Scalars, SlotsTyped
  <2> QED
    BY <1>8, <2>1, <2>2 DEF RecheckToken
<1>9. CASE ReadPhase
  <2>1. CASE Leave
    BY <2>1, PageKeeps DEF Leave, PageStep, Positions, Scalars
  <2> QED
    BY <1>9, <2>1 DEF ReadPhase
<1>10. CASE LoadModel
  <2> USE <1>10 DEF LoadModel, Release
  <2>1. SlotsTyped'
    BY DEF SlotsTyped
  <2>2. racePaused' \in BOOLEAN
    OBVIOUS
  <2>3. Scalars'
    BY <2>2 DEF Scalars
  <2>4. Positions'
    BY DEF Positions
  <2>5. Owned'
    BY DEF Owned
  <2>6. (Kept /\ InWork /\ Counted)'
    BY DEF Kept, InWork, Counted, Filed, Waiting, Positions
  <2> QED
    BY <2>1, <2>3, <2>4, <2>5, <2>6
<1> QED
  BY <1>1, <1>2, <1>3, <1>4, <1>5, <1>6, <1>7, <1>8, <1>9, <1>10 DEF Interface

\* What the user removes or a power loss takes from memory is not counted any more.
LEMMA UserKeeps ==
  ASSUME Inv, ChangeCard \/ Restart PROVE Inv'
<1> USE SlotNumbers, BoundsAssumption
    DEF Inv, Saving, Unsaved, Running, Race, Ids, Races, Foreign, NoSlot, NoFile,
        sessionVars, slotVars, workerVars, pageVars, ghostVars
<1>1. CASE ChangeCard
  <2>1. PICK n \in Ids :
          /\ files' = [files EXCEPT ![n] = IF files[n] = NoFile THEN Foreign ELSE NoFile]
          /\ finished' = finished \ {files[n]}
    BY <1>1 DEF ChangeCard
  <2>2. UNCHANGED <<raceCommand, sessionVars, slotVars, sessionSequence, status, retry,
  workerVars,
                    pageVars, before>>
    BY <1>1 DEF ChangeCard
  <2>3. SlotsTyped'
    <3>1. Foreign \in 0 .. Foreign /\ NoFile \in 0 .. Foreign
      OBVIOUS
    <3>2. files' \in [Ids -> 0 .. Foreign]
      BY <2>1, <3>1 DEF SlotsTyped
    <3> QED
      BY <2>2, <3>2 DEF SlotsTyped
  <2>4. Scalars' /\ Positions' /\ Owned'
    BY <2>2 DEF Scalars, Positions, Owned
  <2>5. \A r \in finished' : Filed(r) => Filed(r)'
    BY <2>1 DEF Filed, SlotsTyped
  <2>6. (Kept /\ InWork /\ Counted)'
    BY <2>1, <2>2, <2>5 DEF Kept, Waiting, InWork, Counted
  <2> QED
    BY <2>3, <2>4, <2>6
<1>2. CASE Restart
  <2> USE <1>2 DEF Restart
  <2>1. SlotsTyped'
    BY DEF SlotsTyped
  <2>2. (racePaused \in BOOLEAN /\ retry \in BOOLEAN /\ again \in BOOLEAN /\ ok \in BOOLEAN)'
    OBVIOUS
  <2>3. Scalars' /\ Positions'
    BY <2>2 DEF Scalars, Positions, Counted
  <2>4. Owned'
    BY DEF Owned
  <2>5. Kept'
    BY DEF Kept, Filed, Numbers
  <2>6. InWork'
    BY DEF InWork
  <2>7. \A r \in finished' : r \in 1 .. MaxRaces
    BY DEF SlotsTyped, Numbers
  <2>8. before' \in 0 .. MaxRaces /\ sessionSequence' = 0 /\ ~Running'
    BY DEF Counted
  <2>9. Counted'
    BY <2>7, <2>8 DEF Counted
  <2> QED
    BY <2>1, <2>3, <2>4, <2>5, <2>6, <2>9
<1> QED
  BY <1>1, <1>2

-----------------------------------------------------------------------------
(* The files and numbers of the races.                                     *)

\* No race has two files, and every race that has one was begun.
OneFile ==
  /\ \A m, n \in Ids : files[m] = files[n] /\ files[m] \in Races => m = n
  /\ \A n \in Ids : files[n] \in Races => files[n] <= before + sessionSequence

\* No race is in two slots.  A result that waits is in no file but the one whose number
\* its slot keeps from an earlier attempt.
OwnFile ==
  /\ \A s, t \in Slots : record[s] = record[t] /\ record[s] # 0 => s = t
  /\ \A s \in Slots : Unsaved(s) => record[s] # 0
  /\ \A s \in Slots : \A n \in Ids : Unsaved(s) /\ files[n] = record[s] => n = id[s]

\* A number that was assigned is in one slot and below the next one to be assigned; its
\* file is of the race of the slot, unless the user removed or replaced it.
OwnNumber ==
  /\ \A s \in Slots : id[s] <= lastAssignedId /\ savedId[s] \in {0, id[s]}
  /\ \A s, t \in Slots : id[s] = id[t] /\ id[s] # 0 => s = t
  /\ \A s \in Slots : id[s] # 0 => files[id[s]] \in {NoFile, Foreign, record[s]}

\* A token is given once between two power-ups, to the race of its slot.
OwnToken ==
  /\ resultToken <= sessionSequence
  /\ \A s \in Slots : token[s] # 0 => token[s] <= sessionSequence /\ record[s] = before + token[s]

Filing == OneFile /\ OwnFile /\ OwnNumber /\ OwnToken

\* A step that assigns nothing, files nothing and gives no slot a result.
Quiet ==
  /\ UNCHANGED <<files, record, id, token, savedId, sessionSequence, before, lastAssignedId>>
  /\ resultToken' \in {resultToken, 0}
  /\ \A s \in Slots : Unsaved(s)' => Unsaved(s)

\* What the steps do to the slots and the files.
LEMMA Kinds ==
  ASSUME Inv, Next
  PROVE  \/ Quiet
         \/ CanReserve /\ beginRace /\ MixerOnly
         \/ finishRace /\ MixerOnly
         \/ SaveRecord \/ StoreSavedId \/ ChangeCard \/ Restart
<1> USE DEF Quiet, Unsaved, sessionVars, slotVars, workerVars, pageVars, ghostVars
<1>1. CASE Mixer
  <2>1. MixerOnly
    BY <1>1 DEF Mixer, StartCommand, PauseCommand, FinishCommand, ResetCommand, TimerTick, Take
  <2>2. CASE IdleSession
    BY <2>1, <2>2 DEF IdleSession, MixerOnly
  <2>3. CASE PauseCommand
    BY <2>1, <2>3 DEF PauseCommand, MixerOnly
  <2>4. CASE ResetCommand
    BY <2>1, <2>4 DEF ResetCommand, Release, MixerOnly, Inv, SlotsTyped
  <2>5. CASE TimerTick
    BY <2>1, <2>5 DEF TimerTick, nb4RaceTimerHeld
  <2> QED
    BY <1>1, <2>1, <2>2, <2>3, <2>4, <2>5 DEF Mixer, StartCommand, FinishCommand
<1>2. CASE Worker
  <2>1. CASE StoreState
    <3>1. cur \in Slots /\ Unsaved(cur)
      BY <2>1 DEF StoreState, WorkerStep, Inv, Positions, InWork, Saving
    <3> QED
      BY <2>1, <3>1 DEF StoreState, WorkerStep, Outcome, Inv, SlotsTyped
  <2> QED
    BY <1>2, <2>1 DEF Worker, StartPass, SkipSlot, Unavailable, BeginSave, SaveDenied, StoreStatus,
                      Summary, Verdict, WorkerStep
<1>3. CASE Interface
  <2>1. CASE LoadModel
    BY <2>1 DEF LoadModel, Release, Inv, SlotsTyped
  <2> QED
    BY <1>3, <2>1 DEF Interface, QueueCommand, nb4RaceStart, QueueStart, nb4HistoryRetry,
       ViewResult, ReadToken, ReadSavedId, RecheckToken, ReadPhase, Leave, PageStep
<1> QED
  BY <1>1, <1>2, <1>3 DEF Next

\* What an attempt to save does: a new number is above all of those in use.
LEMMA SaveEffect ==
  ASSUME Inv, SaveRecord
  PROVE  \E n \in Ids : \E f \in {NoFile, record[cur], files[n]} :
           /\ id' = [id EXCEPT ![cur] = n] /\ files' = [files EXCEPT ![n] = f]
           /\ files[n] # NoFile => f = files[n]
           /\ id[cur] # 0 => n = id[cur] /\ lastAssignedId' = lastAssignedId
           /\ id[cur] = 0 => n > lastAssignedId /\ lastAssignedId' = n /\ files[n] = NoFile
<1>1. PICK n \in RecordIds(cur) :
        /\ id' = [id EXCEPT ![cur] = n]
        /\ lastAssignedId' = IF id[cur] = 0 THEN n ELSE lastAssignedId
        /\ \E f \in Attempted(n, record[cur]) : files' = [files EXCEPT ![n] = f]
  BY DEF SaveRecord
<1>2. PICK f \in Attempted(n, record[cur]) : files' = [files EXCEPT ![n] = f]
  BY <1>1
<1>3. /\ Highest \in 0 .. MaxId /\ \A m \in Numbers \union {lastAssignedId} : m <= Highest
      /\ lastAssignedId \in 0 .. MaxId
  BY HighestBound DEF Inv, Positions
<1>4. cur \in Slots /\ id[cur] \in 0 .. MaxId
  BY DEF SaveRecord, WorkerStep, Inv, Positions, Saving, SlotsTyped
<1>5. CASE id[cur] # 0
  <2>1. n = id[cur] /\ n \in Ids
    BY <1>1, <1>4, <1>5 DEF RecordIds, Ids
  <2>2. f \in {NoFile, record[cur], files[n]} /\ (files[n] # NoFile => f = files[n])
    BY <1>2 DEF Attempted
  <2> QED
    BY <1>1, <1>2, <1>5, <2>1, <2>2
<1>6. CASE id[cur] = 0
  <2>1. n = Highest + 1 /\ n \in Ids
    BY <1>1, <1>3, <1>6, BoundsAssumption DEF RecordIds, Ids
  <2>2. n > lastAssignedId /\ n \notin Numbers
    BY <1>3, <2>1
  <2> QED
    BY <1>1, <1>2, <1>6, <2>1, <2>2 DEF Attempted, Numbers
<1> QED
  BY <1>5, <1>6

\* At power-up no race has a file, a slot or a number.
LEMMA InitFiling == Init => Filing
BY SlotNumbers, BoundsAssumption
DEF Init, PowerUp, Filing, OneFile, OwnFile, OwnNumber, OwnToken, Ids, Races, Foreign, NoFile,
    Unsaved

\* A race takes a free slot; the number of its last result is still known there.
LEMMA BeginFiling ==
  ASSUME Inv, Filing, CanReserve, beginRace, MixerOnly PROVE Filing'
<1> DEFINE f == Min(EmptySlots)
<1>1. f \in Slots /\ state[f] = "Empty"
  BY MinFree DEF EmptySlots
<1>2. /\ state' = [state EXCEPT ![f] = "Reserved"] /\ token' = [token EXCEPT ![f] = 0]
      /\ savedId' = [savedId EXCEPT ![f] = 0] /\ resultToken' = 0
      /\ UNCHANGED <<files, record, id, sessionSequence, before, lastAssignedId>>
  BY DEF beginRace, Reserve, MixerOnly, ghostVars, workerVars
<1>3. sessionSequence \in Nat
  BY DEF Inv, Scalars
<1> HIDE DEF f
<1>4. \A s \in Slots : /\ Unsaved(s)' => Unsaved(s)
                       /\ savedId'[s] \in {0, savedId[s]} /\ token'[s] \in {0, token[s]}
  BY <1>1, <1>2 DEF Inv, SlotsTyped, Unsaved
<1>5. OneFile' /\ OwnFile'
  BY <1>2, <1>4 DEF Filing, OneFile, OwnFile, Ids, Races
<1>6. OwnNumber' /\ OwnToken'
  BY <1>2, <1>3, <1>4 DEF Filing, OwnNumber, OwnToken, NoFile, Foreign
<1> QED
  BY <1>5, <1>6 DEF Filing

\* The race that ends is later than every race in a slot or a file.
LEMMA FinishFiling ==
  ASSUME Inv, Filing, finishRace, MixerOnly PROVE Filing'
<1> DEFINE h == historySlot
           q == sessionSequence
           new == before + (q + 1)
<1>1. h \in Slots /\ q \in Nat /\ before \in Nat /\ new \in Races
  BY BoundsAssumption DEF Inv, Owned, finishRace, Counted, Scalars, Races
<1>2. /\ state' = [state EXCEPT ![h] = "Pending"] /\ record' = [record EXCEPT ![h] = new]
      /\ token' = [token EXCEPT ![h] = q + 1] /\ savedId' = [savedId EXCEPT ![h] = 0]
      /\ id' = [id EXCEPT ![h] = 0] /\ sessionSequence' = q + 1 /\ resultToken' = q + 1
      /\ UNCHANGED <<files, before, lastAssignedId>>
  BY <1>1 DEF finishRace, Publish, MixerOnly, Race, ghostVars, workerVars
<1>3. /\ \A s \in Slots : record[s] \in Nat /\ record[s] < new /\ token[s] \in Nat
      /\ \A n \in Ids : files[n] \in Races => files[n] < new
  BY <1>1 DEF Inv, Counted, Filing, OneFile, SlotsTyped, Races
<1>4. /\ lastAssignedId \in Nat
      /\ before' + sessionSequence' = new /\ before + sessionSequence < new
      /\ sessionSequence' = q + 1 /\ resultToken' = sessionSequence' /\ q + 1 > q
      /\ sessionSequence = q
  BY <1>1, <1>2 DEF Inv, Positions
<1>5. /\ state'[h] = "Pending" /\ record'[h] = new /\ id'[h] = 0
      /\ savedId'[h] = 0 /\ token'[h] = q + 1
      /\ \A s \in Slots \ {h} : /\ state'[s] = state[s] /\ record'[s] = record[s]
                                /\ id'[s] = id[s] /\ savedId'[s] = savedId[s]
                                /\ token'[s] = token[s]
  BY <1>1, <1>2 DEF Inv, SlotsTyped
<1>6. new # 0 /\ new = before + (q + 1)
  BY <1>1 DEF Races
<1> HIDE DEF h, q, new
<1>7. OneFile'
  BY <1>1, <1>2, <1>3, <1>4 DEF Filing, OneFile, Races, Ids
<1>8. OwnFile'
  <2>1. \A n \in Ids : files'[n] # new
    BY <1>1, <1>2, <1>3 DEF Races
  <2>2. \A s \in Slots \ {h} : Unsaved(s)' => Unsaved(s)
    BY <1>5 DEF Unsaved
  <2>3. \A s, t \in Slots : record'[s] = record'[t] /\ record'[s] # 0 => s = t
    BY <1>3, <1>5 DEF Filing, OwnFile
  <2>4. \A s \in Slots : Unsaved(s)' => record'[s] # 0
    BY <1>5, <1>6, <2>2 DEF Filing, OwnFile
  <2>5. \A s \in Slots : \A n \in Ids : Unsaved(s)' /\ files'[n] = record'[s] => n = id'[s]
    BY <1>2, <1>5, <2>1, <2>2 DEF Filing, OwnFile
  <2> QED
    BY <2>3, <2>4, <2>5 DEF OwnFile, Ids
<1>9. OwnNumber'
  BY <1>1, <1>2, <1>4, <1>5 DEF Filing, OwnNumber, NoFile, Foreign
<1>10. OwnToken'
  BY <1>1, <1>2, <1>3, <1>4, <1>5, <1>6 DEF Filing, OwnToken
<1> QED
  BY <1>7, <1>8, <1>9, <1>10 DEF Filing

\* An attempt creates at most the one file of the race, and only under a number of its own.
LEMMA SaveFiling ==
  ASSUME Inv, Filing, SaveRecord PROVE Filing'
<1>0. PICK n \in Ids : \E f \in {NoFile, record[cur], files[n]} :
        /\ id' = [id EXCEPT ![cur] = n] /\ files' = [files EXCEPT ![n] = f]
        /\ files[n] # NoFile => f = files[n]
        /\ id[cur] # 0 => n = id[cur] /\ lastAssignedId' = lastAssignedId
        /\ id[cur] = 0 => n > lastAssignedId /\ lastAssignedId' = n /\ files[n] = NoFile
  BY SaveEffect
<1>1. PICK f \in {NoFile, record[cur], files[n]} :
        /\ id' = [id EXCEPT ![cur] = n] /\ files' = [files EXCEPT ![n] = f]
        /\ files[n] # NoFile => f = files[n]
        /\ id[cur] # 0 => n = id[cur] /\ lastAssignedId' = lastAssignedId
        /\ id[cur] = 0 => n > lastAssignedId /\ lastAssignedId' = n /\ files[n] = NoFile
  BY <1>0
<1>2. cur \in Slots /\ Unsaved(cur) /\ id[cur] \in 0 .. MaxId /\ n \in Nat /\ n # 0
  BY DEF SaveRecord, WorkerStep, Inv, Positions, Saving, SlotsTyped, InWork, Ids
<1>3. UNCHANGED <<state, record, token, savedId, sessionSequence, before, resultToken>>
  BY DEF SaveRecord, WorkerStep, sessionVars, ghostVars
<1>4. /\ id'[cur] = n /\ \A s \in Slots \ {cur} : id'[s] = id[s]
      /\ files'[n] = f /\ \A m \in Ids \ {n} : files'[m] = files[m]
  BY <1>1, <1>2 DEF Inv, SlotsTyped
<1>5. /\ lastAssignedId \in Nat /\ lastAssignedId' \in Nat /\ lastAssignedId <= lastAssignedId'
      /\ n <= lastAssignedId' /\ \A s \in Slots : id[s] \in Nat
  <2>1. lastAssignedId \in Nat /\ \A s \in Slots : id[s] \in Nat /\ id[s] <= lastAssignedId
    BY DEF Inv, Positions, Filing, OwnNumber, SlotsTyped
  <2> QED
    BY <1>1, <1>2, <2>1
<1>6. record[cur] \in Races /\ record[cur] # NoFile /\ record[cur] <= before + sessionSequence
  BY <1>2 DEF Inv, SlotsTyped, Filing, OwnFile, Races, Counted, NoFile
<1>7. \A m \in Ids : files[m] = record[cur] => m = n
  <2>1. \A m \in Ids : files[m] = record[cur] => m = id[cur] /\ m # 0
    BY <1>2 DEF Filing, OwnFile, Ids
  <2> QED
    BY <1>1, <2>1
<1>8. \A s \in Slots \ {cur} : id[s] # n
  BY <1>1, <1>2, <1>5 DEF Filing, OwnNumber
<1>9. OneFile'
  <2>1. \A m \in Ids : files'[m] \in Races =>
          files'[m] = files[m] \/ (m = n /\ files'[m] = record[cur])
    BY <1>1, <1>4 DEF Races, NoFile
  <2>2. \A l, m \in Ids : files'[l] = files'[m] /\ files'[l] \in Races => l = m
    BY <1>7, <2>1 DEF Filing, OneFile
  <2>3. \A m \in Ids : files'[m] \in Races => files'[m] <= before + sessionSequence
    BY <1>6, <2>1 DEF Filing, OneFile
  <2> QED
    BY <1>3, <2>2, <2>3 DEF OneFile, Races, Ids
<1>10. OwnFile'
  <2>1. \A s \in Slots : \A m \in Ids :
          Unsaved(s) /\ files'[m] = record[s] => m = id'[s]
    <3> SUFFICES ASSUME NEW s \in Slots, NEW m \in Ids, Unsaved(s), files'[m] = record[s]
                 PROVE  m = id'[s]
      OBVIOUS
    <3>1. record[s] # NoFile
      BY DEF Filing, OwnFile, NoFile
    <3>2. CASE s = cur
      BY <1>4, <1>7, <3>2
    <3>3. CASE s # cur
      <4>1. record[s] # record[cur]
        BY <1>2, <3>1, <3>3 DEF Filing, OwnFile, NoFile
      <4>2. files'[m] = files[m]
        BY <1>1, <1>4, <3>1, <4>1
      <4> QED
        BY <1>4, <3>3, <4>2 DEF Filing, OwnFile
    <3> QED
      BY <3>2, <3>3
  <2> QED
    BY <1>3, <2>1 DEF Filing, OwnFile, Unsaved, Ids
<1>11. OwnNumber'
  <2>1. \A s \in Slots : id'[s] <= lastAssignedId' /\ savedId[s] \in {0, id'[s]}
    BY <1>1, <1>2, <1>4, <1>5 DEF Filing, OwnNumber
  <2>2. \A s, t \in Slots : id'[s] = id'[t] /\ id'[s] # 0 => s = t
    BY <1>4, <1>8 DEF Filing, OwnNumber
  <2>3. f \in {NoFile, Foreign, record[cur]}
    BY <1>1, <1>2 DEF Filing, OwnNumber
  <2>4. ASSUME NEW s \in Slots, id'[s] # 0 PROVE files'[id'[s]] \in {NoFile, Foreign, record[s]}
    <3>1. CASE s = cur
      BY <1>4, <2>3, <3>1
    <3>2. CASE s # cur
      <4>1. id[s] \in Ids
        BY <1>4, <2>4, <3>2 DEF Inv, SlotsTyped, Ids
      <4> QED
        BY <1>4, <1>8, <2>4, <3>2, <4>1 DEF Filing, OwnNumber
    <3> QED
      BY <3>1, <3>2
  <2> QED
    BY <1>3, <2>1, <2>2, <2>4 DEF OwnNumber, NoFile, Foreign
<1>12. OwnToken'
  BY <1>3 DEF Filing, OwnToken
<1> QED
  BY <1>9, <1>10, <1>11, <1>12 DEF Filing

\* Every step keeps Filing; after a power loss the slots are empty and only files count.
LEMMA StepFiling ==
  ASSUME Inv, Filing, [Next]_vars PROVE Filing'
<1>1. CASE Quiet
  <2>1. sessionSequence \in Nat /\ resultToken' <= sessionSequence'
    BY <1>1 DEF Quiet, Inv, Scalars, Filing, OwnToken
  <2> QED
    BY <1>1, <2>1 DEF Quiet, Filing, OneFile, OwnFile, OwnNumber, OwnToken, NoFile, Foreign, Ids,
                      Races
<1>2. CASE StoreSavedId
  <2>1. UNCHANGED <<files, record, id, token, state, sessionSequence, before, lastAssignedId,
                    resultToken>>
    BY <1>2 DEF StoreSavedId, WorkerStep, sessionVars, ghostVars
  <2>2. cur \in Slots /\ savedId' \in {[savedId EXCEPT ![cur] = id[cur]], savedId}
    BY <1>2 DEF StoreSavedId, WorkerStep, Inv, Positions, Saving
  <2>3. \A s \in Slots : savedId'[s] \in {savedId[s], id[s]}
    BY <2>2 DEF Inv, SlotsTyped
  <2>4. OneFile' /\ OwnFile' /\ OwnToken'
    BY <2>1 DEF Filing, OneFile, OwnFile, OwnToken, Ids, Races, Unsaved
  <2>5. OwnNumber'
    BY <2>1, <2>3 DEF Filing, OwnNumber, NoFile, Foreign
  <2> QED
    BY <2>4, <2>5 DEF Filing
<1>3. CASE ChangeCard
  <2>1. PICK n \in Ids :
          files' = [files EXCEPT ![n] = IF files[n] = NoFile THEN Foreign ELSE NoFile]
    BY <1>3 DEF ChangeCard
  <2>2. UNCHANGED <<record, id, token, savedId, state, sessionSequence, before, lastAssignedId,
                    resultToken>>
    BY <1>3 DEF ChangeCard, slotVars, sessionVars, workerVars
  <2>3. /\ \A m \in Ids : files'[m] \in {NoFile, Foreign, files[m]}
        /\ NoFile \notin Races /\ Foreign \notin Races
    BY <2>1, BoundsAssumption DEF Inv, SlotsTyped, NoFile, Foreign, Races
  <2>4. \A s \in Slots : /\ Unsaved(s) => record[s] \in Races
                         /\ id[s] # 0 => id[s] \in Ids
    BY DEF Inv, SlotsTyped, Filing, OwnFile, Races, Ids
  <2>5. OneFile'
    BY <2>2, <2>3 DEF Filing, OneFile, Ids, Races
  <2>6. OwnFile'
    <3>1. \A s \in Slots : Unsaved(s)' <=> Unsaved(s)
      BY <2>2 DEF Unsaved
    <3>2. \A s \in Slots : \A m \in Ids : Unsaved(s) /\ files'[m] = record[s] => m = id[s]
      BY <2>3, <2>4 DEF Filing, OwnFile
    <3> QED
      BY <2>2, <3>1, <3>2 DEF Filing, OwnFile, Ids
  <2>7. OwnNumber' /\ OwnToken'
    BY <2>2, <2>3, <2>4 DEF Filing, OwnNumber, OwnToken, NoFile, Foreign
  <2> QED
    BY <2>5, <2>6, <2>7 DEF Filing
<1>4. CASE Restart
  <2>1. /\ before' + sessionSequence' = before + sessionSequence
        /\ sessionSequence' = 0 /\ resultToken' = 0
    BY <1>4 DEF Restart, Race, Inv, Scalars
  <2> QED
    BY <1>4, <2>1 DEF Restart, Filing, OneFile, OwnFile, OwnNumber, OwnToken, Unsaved, Races, Ids
<1>5. CASE UNCHANGED vars
  BY <1>5 DEF vars, slotVars, sessionVars, workerVars, ghostVars, Filing, OneFile, OwnFile,
              OwnNumber, OwnToken, NoFile, Foreign, Ids, Races, Unsaved
<1> QED
  BY <1>1, <1>2, <1>3, <1>4, <1>5, Kinds, BeginFiling, FinishFiling, SaveFiling

-----------------------------------------------------------------------------
(* The view of a result.                                                   *)

\* The page keeps a token that was given.  The number it has read is the one of the slot
\* for as long as the slot keeps that token, and once the token has been seen again it is
\* the number of the wanted race, whatever becomes of the slot.
Viewing ==
  /\ page \notin {"idle", "start"} => wanted \in 1 .. sessionSequence
  /\ page = "recheck" /\ SameToken /\ seen # 0 => seen = id[shown]
  /\ page = "phase" =>
       /\ seen \in 1 .. lastAssignedId
       /\ files[seen] \in {NoFile, Foreign, before + wanted}
       /\ \A s \in Slots : id[s] = seen => record[s] = before + wanted

\* The steps of the other tasks do not spoil what the page has read.
LEMMA OthersView ==
  ASSUME Inv, Filing, Viewing, UNCHANGED pageVars,
         \/ Quiet
         \/ CanReserve /\ beginRace /\ MixerOnly
         \/ finishRace /\ MixerOnly
         \/ SaveRecord \/ StoreSavedId
  PROVE  Viewing'
<1>1. /\ page' = page /\ shown' = shown /\ wanted' = wanted /\ seen' = seen
      /\ page = "recheck" => shown \in Slots
      /\ sessionSequence \in Nat /\ lastAssignedId \in Nat /\ MaxId \in Nat
      /\ lastAssignedId <= MaxId /\ before \in Nat
  BY BoundsAssumption DEF pageVars, Inv, Positions, Scalars
<1>2. CASE Quiet
  BY <1>1, <1>2 DEF Quiet, Viewing, SameToken, NoFile, Foreign
<1>3. CASE CanReserve /\ beginRace /\ MixerOnly
  <2> DEFINE f == Min(EmptySlots)
  <2>1. f \in Slots
    BY <1>3, MinFree DEF EmptySlots
  <2>2. /\ token' = [token EXCEPT ![f] = 0]
        /\ UNCHANGED <<files, record, id, sessionSequence, before, lastAssignedId>>
    BY <1>3 DEF beginRace, Reserve, MixerOnly, ghostVars, workerVars
  <2>3. \A s \in Slots : token'[s] \in {0, token[s]}
    BY <2>1, <2>2 DEF Inv, SlotsTyped
  <2> HIDE DEF f
  <2> QED
    BY <1>1, <2>2, <2>3 DEF Viewing, SameToken, NoFile, Foreign
<1>4. CASE finishRace /\ MixerOnly
  <2> DEFINE h == historySlot
             q == sessionSequence
  <2>1. h \in Slots
    BY <1>4 DEF Inv, Owned, finishRace
  <2>2. /\ record' = [record EXCEPT ![h] = before + (q + 1)] /\ sessionSequence' = q + 1
        /\ token' = [token EXCEPT ![h] = q + 1] /\ id' = [id EXCEPT ![h] = 0]
        /\ UNCHANGED <<files, before, lastAssignedId>>
    BY <1>4, <2>1 DEF finishRace, Publish, MixerOnly, Race, ghostVars, workerVars
  <2>3. /\ id'[h] = 0 /\ token'[h] = q + 1
        /\ \A s \in Slots \ {h} : /\ record'[s] = record[s] /\ id'[s] = id[s]
                                  /\ token'[s] = token[s]
    BY <2>1, <2>2 DEF Inv, SlotsTyped
  <2>4. \A n \in 1 .. q : n \in 1 .. q + 1 /\ n # q + 1
    BY <1>1
  <2>5. q = sessionSequence
    OBVIOUS
  <2> HIDE DEF h, q
  <2>6. (page \notin {"idle", "start"} => wanted \in 1 .. sessionSequence)'
    BY <1>1, <2>2, <2>4, <2>5 DEF Viewing
  <2>7. page = "recheck" /\ token'[shown] = wanted /\ seen # 0 => seen = id'[shown]
    BY <1>1, <2>3, <2>4, <2>5 DEF Viewing, SameToken
  <2>8. page = "phase" => /\ seen \in 1 .. lastAssignedId
                          /\ files[seen] \in {NoFile, Foreign, before + wanted}
                          /\ \A s \in Slots : id'[s] = seen => record'[s] = before + wanted
    BY <1>1, <2>1, <2>3 DEF Viewing
  <2> QED
    BY <1>1, <2>2, <2>6, <2>7, <2>8 DEF Viewing, SameToken, NoFile, Foreign
<1>5. CASE SaveRecord
  <2>0. PICK n \in Ids : \E f \in {NoFile, record[cur], files[n]} :
          /\ id' = [id EXCEPT ![cur] = n] /\ files' = [files EXCEPT ![n] = f]
          /\ files[n] # NoFile => f = files[n]
          /\ id[cur] # 0 => n = id[cur] /\ lastAssignedId' = lastAssignedId
          /\ id[cur] = 0 => n > lastAssignedId /\ lastAssignedId' = n /\ files[n] = NoFile
    BY <1>5, SaveEffect
  <2>1. PICK f \in {NoFile, record[cur], files[n]} :
          /\ id' = [id EXCEPT ![cur] = n] /\ files' = [files EXCEPT ![n] = f]
          /\ files[n] # NoFile => f = files[n]
          /\ id[cur] # 0 => n = id[cur] /\ lastAssignedId' = lastAssignedId
          /\ id[cur] = 0 => n > lastAssignedId /\ lastAssignedId' = n /\ files[n] = NoFile
    BY <2>0
  <2>2. cur \in Slots /\ n \in Nat
    BY <1>5 DEF SaveRecord, WorkerStep, Inv, Positions, Saving, Ids
  <2>3. UNCHANGED <<record, token, sessionSequence, before>>
    BY <1>5 DEF SaveRecord, WorkerStep, ghostVars
  <2>4. /\ id'[cur] = n /\ \A s \in Slots \ {cur} : id'[s] = id[s]
        /\ files'[n] = f /\ \A m \in Ids \ {n} : files'[m] = files[m]
        /\ \A s \in Slots : id[s] \in Nat
    BY <2>1, <2>2 DEF Inv, SlotsTyped
  <2>5. (page = "recheck" /\ SameToken /\ seen # 0 => seen = id[shown])'
    <3>1. page = "recheck" /\ SameToken /\ seen # 0 => seen = id[shown] /\ id'[shown] = id[shown]
      BY <1>1, <2>1, <2>2, <2>4 DEF Viewing
    <3> QED
      BY <1>1, <2>3, <3>1 DEF SameToken
  <2>6. ASSUME page = "phase"
        PROVE  /\ seen \in 1 .. lastAssignedId'
               /\ files'[seen] \in {NoFile, Foreign, before + wanted}
               /\ \A s \in Slots : id'[s] = seen => record[s] = before + wanted
    <3>1. /\ seen \in 1 .. lastAssignedId /\ seen \in Ids
          /\ files[seen] \in {NoFile, Foreign, before + wanted}
          /\ \A s \in Slots : id[s] = seen => record[s] = before + wanted
      BY <1>1, <2>6 DEF Viewing, Ids
    <3>2. seen \in 1 .. lastAssignedId'
      BY <1>1, <2>1, <2>2, <2>4, <3>1
    <3>3. n = seen => id[cur] = seen
      BY <1>1, <2>1, <2>2, <2>4, <3>1
    <3>4. files'[seen] \in {NoFile, Foreign, before + wanted}
      BY <2>1, <2>2, <2>4, <3>1, <3>3
    <3>5. \A s \in Slots : id'[s] = seen => record[s] = before + wanted
      BY <2>2, <2>4, <3>1, <3>3
    <3> QED
      BY <3>2, <3>4, <3>5
  <2> QED
    BY <1>1, <2>3, <2>5, <2>6 DEF Viewing, NoFile, Foreign
<1>6. CASE StoreSavedId
  <2>1. UNCHANGED <<files, record, id, token, sessionSequence, before, lastAssignedId>>
    BY <1>6 DEF StoreSavedId, WorkerStep, ghostVars
  <2> QED
    BY <1>1, <2>1 DEF Viewing, SameToken, NoFile, Foreign
<1> QED
  BY <1>2, <1>3, <1>4, <1>5, <1>6

\* The page looks at the token again after it has read the number.
LEMMA PageView ==
  ASSUME Inv, Filing, Viewing, Interface PROVE Viewing'
<1>1. CASE page' \in {"idle", "start"}
  BY <1>1 DEF Viewing
<1>2. CASE UNCHANGED pageVars
  <2>1. Quiet
    BY <1>2, Kinds DEF Next, Interface, QueueCommand, nb4RaceStart, QueueStart, nb4HistoryRetry,
       ViewResult, ReadToken, ReadSavedId, RecheckToken, ReadPhase, LoadModel, Leave, PageStep,
       Quiet, sessionVars, slotVars, workerVars, pageVars, ghostVars, Release, Inv, SlotsTyped,
       Unsaved
  <2> QED
    BY <1>2, <2>1, OthersView
<1>3. CASE page' \notin {"idle", "start"} /\ ~UNCHANGED pageVars
  <2>1. /\ UNCHANGED <<files, record, id, token, savedId, sessionSequence, before, lastAssignedId>>
        /\ \/ page' = "token" /\ wanted' = resultToken /\ resultToken # 0
           \/ page = "token" /\ page' = "savedId" /\ wanted' = wanted
           \/ /\ page = "savedId" /\ page' = "recheck" /\ seen' = savedId[shown]
              /\ shown' = shown /\ wanted' = wanted
           \/ /\ page = "recheck" /\ page' = "phase" /\ SameToken /\ seen # 0
              /\ UNCHANGED <<shown, wanted, seen>>
    BY <1>3 DEF Interface, QueueCommand, nb4RaceStart, QueueStart, nb4HistoryRetry, ViewResult,
       ReadToken, ReadSavedId, RecheckToken, ReadPhase, LoadModel, Leave, PageStep,
       slotVars, workerVars, pageVars, ghostVars
  <2>2. /\ sessionSequence \in Nat /\ resultToken \in Nat /\ resultToken <= sessionSequence
        /\ page \in {"savedId", "recheck"} => shown \in Slots
    BY DEF Inv, Scalars, Positions, Filing, OwnToken
  <2>3. (page \notin {"idle", "start"} => wanted \in 1 .. sessionSequence)'
    BY <2>1, <2>2 DEF Viewing
  <2>4. (page = "recheck" /\ SameToken /\ seen # 0 => seen = id[shown])'
    BY <2>1, <2>2 DEF Filing, OwnNumber
  <2>5. ASSUME page' = "phase"
        PROVE  /\ seen \in 1 .. lastAssignedId
               /\ files[seen] \in {NoFile, Foreign, before + wanted}
               /\ \A s \in Slots : id[s] = seen => record[s] = before + wanted
    <3>1. /\ page = "recheck" /\ shown \in Slots /\ token[shown] = wanted /\ seen = id[shown]
          /\ seen # 0 /\ wanted \in 1 .. sessionSequence /\ seen \in Nat /\ lastAssignedId \in Nat
      BY <2>1, <2>2, <2>5 DEF Viewing, SameToken, Inv, SlotsTyped, Positions
    <3>2. record[shown] = before + wanted /\ wanted # 0
      BY <2>2, <3>1 DEF Filing, OwnToken
    <3>3. seen \in 1 .. lastAssignedId
      BY <3>1 DEF Filing, OwnNumber
    <3> QED
      BY <3>1, <3>2, <3>3 DEF Filing, OwnNumber
  <2> QED
    BY <2>1, <2>3, <2>4, <2>5 DEF Viewing, NoFile, Foreign
<1> QED
  BY <1>1, <1>2, <1>3

\* Every step keeps Viewing; the card is not changed under an open page.
LEMMA StepViewing ==
  ASSUME Inv, Filing, Viewing, [Next]_vars PROVE Viewing'
<1>1. CASE Mixer \/ Worker
  <2>1. UNCHANGED pageVars
    BY <1>1 DEF Mixer, StartCommand, PauseCommand, FinishCommand, ResetCommand, TimerTick, Take,
       MixerOnly, Worker, StartPass, SkipSlot, Unavailable, BeginSave, SaveRecord, SaveDenied,
       StoreSavedId, StoreStatus, StoreState, Summary, Verdict, WorkerStep
  <2>2. CASE ChangeCard \/ Restart
    BY <2>1, <2>2 DEF ChangeCard, Restart, pageVars, Viewing
  <2> QED
    BY <1>1, <2>1, <2>2, Kinds, OthersView DEF Next
<1>2. CASE Interface
  BY <1>2, PageView
<1>3. CASE ChangeCard \/ Restart
  BY <1>3 DEF ChangeCard, Restart, pageVars, Viewing
<1>4. CASE UNCHANGED vars
  <2>1. Quiet /\ UNCHANGED pageVars
    BY <1>4 DEF vars, slotVars, sessionVars, workerVars, ghostVars, Quiet, Unsaved
  <2> QED
    BY <2>1, OthersView
<1> QED
  BY <1>1, <1>2, <1>3, <1>4 DEF Next

-----------------------------------------------------------------------------
(* The theorems.                                                           *)

\* Every step of the three tasks and of the user keeps Inv.
LEMMA StepInv == Inv /\ [Next]_vars => Inv'
<1> SUFFICES ASSUME Inv, [Next]_vars PROVE Inv'
  OBVIOUS
<1>1. CASE UNCHANGED vars
  <2> USE <1>1 DEF vars, Inv, Saving, Unsaved, Running, Race, Ids, Races, Foreign, NoSlot, NoFile,
        sessionVars, slotVars, workerVars, pageVars, ghostVars
  <2>1. SlotsTyped' /\ Scalars' /\ Positions' /\ Owned'
    BY DEF SlotsTyped, Scalars, Positions, Owned
  <2>2. (Kept /\ InWork /\ Counted)'
    BY DEF Kept, Filed, Waiting, InWork, Counted
  <2> QED
    BY <2>1, <2>2
<1>2. CASE Next
  BY <1>2, MixerKeeps, WorkerKeeps, InterfaceKeeps, UserKeeps DEF Next
<1> QED
  BY <1>1, <1>2

\* Inv holds in every reachable state.
LEMMA InvAlways == Spec => []Inv
BY InitInv, StepInv, PTL DEF Spec

\* Every variable has its type; record numbers stay within their limit.
THEOREM TypeCorrect == Spec => []TypeOK
<1>1. Inv => TypeOK
  BY DEF Inv, SlotsTyped, Scalars, Positions, Counted, Races, Saving, TypeOK
<1> QED
  BY <1>1, InvAlways, PTL

\* With any number of slots a running race has one for its result, and nothing else has
\* (beginRace, finishRace, nb4RaceTimerHeld and the resets of nb4_racing.cpp).
THEOREM OneSlotPerRace == Spec => []SlotOwned
<1>1. Inv => SlotOwned
  BY DEF Inv, Owned, SlotOwned
<1> QED
  BY <1>1, InvAlways, PTL

\* However commands, saves, failures and retries interleave, a finished race is in a file
\* or in a slot that a retry looks at (nb4StorageProcess(), nb4_history.h:24).
THEOREM NoResultLost == Spec => []NothingLost
<1>1. Inv => NothingLost
  <2> SUFFICES ASSUME Inv, NEW r \in finished
               PROVE  r \in Stored \/ r \in {record[s] : s \in nb4HistoryPending}
    BY DEF NothingLost
  <2>1. r # NoFile
    BY DEF Inv, Counted, NoFile
  <2>2. CASE Filed(r)
    BY <2>1, <2>2 DEF Filed, Stored, Numbers
  <2>3. CASE Waiting(r)
    BY <2>3 DEF Waiting, nb4HistoryPending
  <2> QED
    BY <2>2, <2>3 DEF Inv, Kept
<1> QED
  BY <1>1, InvAlways, PTL

\* The worker never changes a file that exists (saveRecord()).
THEOREM ExistingKept == Spec => FilesKept
<1> DEFINE Kind == at = "save" /\ at' = "savedId" => \A n \in Numbers : files'[n] = files[n]
<1>1. Inv /\ [Next]_vars => [Kind]_vars
  <2> SUFFICES ASSUME Inv, Next, at = "save", at' = "savedId", NEW n \in Numbers
               PROVE  files'[n] = files[n]
    OBVIOUS
  <2>1. CASE SaveDenied
    BY <2>1 DEF SaveDenied
  <2>2. CASE SaveRecord
    <3>1. PICK m \in RecordIds(cur) : \E f \in Attempted(m,
    record[cur]) : files' = [files EXCEPT ![m] = f]
      BY <2>2 DEF SaveRecord
    <3>2. n \in Ids /\ files[n] # NoFile /\ files \in [Ids -> 0 .. Foreign]
      BY DEF Numbers, Inv, SlotsTyped
    <3> QED
      BY <3>1, <3>2 DEF Attempted
  <2>3. CASE Worker
    BY <2>1, <2>2, <2>3 DEF Worker, StartPass, SkipSlot, Unavailable, BeginSave, StoreSavedId,
       StoreStatus, StoreState, Summary, Verdict, WorkerStep
  <2>4. ~ (Mixer \/ Interface \/ ChangeCard \/ Restart)
    <3>1. at # at'
      OBVIOUS
    <3>2. ~Mixer
      BY <3>1 DEF Mixer, StartCommand, PauseCommand, FinishCommand, ResetCommand, TimerTick, Take,
         MixerOnly, workerVars
    <3>3. ~Interface
      BY <3>1 DEF Interface, QueueCommand, nb4RaceStart, QueueStart, nb4HistoryRetry, ViewResult,
         ReadToken, ReadSavedId, RecheckToken, ReadPhase, LoadModel, Leave, PageStep, workerVars
    <3>4. ~ChangeCard /\ ~Restart
      BY <3>1 DEF ChangeCard, Restart, workerVars
    <3> QED
      BY <3>2, <3>3, <3>4
  <2> QED
    BY <2>3, <2>4 DEF Next
<1> QED
  BY <1>1, InvAlways, PTL DEF Spec, FilesKept
\* Filing and Viewing hold in every reachable state.
LEMMA ViewingAlways == Spec => [](Inv /\ Filing /\ Viewing)
<1>1. Init => Viewing
  BY DEF Init, PowerUp, Viewing
<1>2. Inv /\ Filing /\ Viewing /\ [Next]_vars => (Inv /\ Filing /\ Viewing)'
  BY StepInv, StepFiling, StepViewing
<1> QED
  BY InitInv, InitFiling, <1>1, <1>2, PTL DEF Spec

\* However often a save fails after its rename and is tried again, and whatever the user
\* does to the card, no race is in two files (saveRecord(), nb4_history.cpp:165).
THEOREM OneFileOnly == Spec => []OneFilePerRace
<1>1. Inv /\ Filing => OneFilePerRace
  <2> SUFFICES ASSUME Inv, Filing, NEW m \in Numbers, NEW n \in Numbers,
                      files[m] = files[n], files[m] # Foreign
               PROVE  m = n
    BY DEF OneFilePerRace
  <2>1. m \in Ids /\ n \in Ids /\ files[m] \in Races
    BY BoundsAssumption DEF Numbers, Inv, SlotsTyped, Races, Foreign, NoFile
  <2> QED
    BY <2>1 DEF Filing, OneFile
<1> QED
  BY <1>1, ViewingAlways, PTL

\* "View result" opens no record of another race, although it reads the token, the number
\* and the token again without a lock while results are finished, saved and replaced
\* (nb4HistorySavedId(), nb4RaceResultToken()).
THEOREM ViewsOwnResult == Spec => []OwnResultOpened
<1>1. Inv /\ Filing /\ Viewing => OwnResultOpened
  BY BoundsAssumption
  DEF Inv, Viewing, OwnResultOpened, Opens, Race, Races, NoFile, Foreign
<1> QED
  BY <1>1, ViewingAlways, PTL

\* Whatever the mixer publishes during a pass, "Saved" does not stay on the screen while a
\* result waits (nb4StorageProcess(), the verdict at the end of the pass).
THEOREM SavedIsTrue == Spec => []SavedMeansSaved
<1>1. Init => SavedMeansSaved
  BY DEF Init, PowerUp, SavedMeansSaved
<1>2. Inv /\ SavedMeansSaved /\ [Next]_vars => SavedMeansSaved'
  <2> SUFFICES ASSUME Inv, SavedMeansSaved, [Next]_vars, at' = "asleep", status' = "Saved"
               PROVE  nb4HistoryPending' = {}
    BY DEF SavedMeansSaved
  <2> USE DEF nb4HistoryPending, Unsaved
  <2>1. CASE Mixer
    <3>1. MixerOnly
      BY <2>1 DEF Mixer, StartCommand, PauseCommand, FinishCommand, ResetCommand, TimerTick, Take
    <3>2. ~finishRace
      BY DEF Inv, Owned, finishRace, Publish, NewStatus
    <3>3. CASE beginRace
      <4>1. CanReserve
        BY <3>3 DEF beginRace, ReserveNothing
      <4>2. /\ state' = [state EXCEPT ![Min(EmptySlots)] = "Reserved"] /\ status' = status
            /\ at' = at
        BY <3>1, <3>3, <4>1 DEF beginRace, Reserve, MixerOnly, workerVars
      <4> QED
        BY <4>2 DEF SavedMeansSaved, Inv, SlotsTyped
    <3>4. CASE IdleSession \/ PauseCommand \/ ResetCommand
      <4>1. status' = status /\ at' = at
        BY <3>1, <3>4 DEF IdleSession, PauseCommand, ResetCommand, MixerOnly, workerVars
      <4>2. \A s \in Slots : state'[s] \in {state[s], "Empty"}
        BY <3>4 DEF IdleSession, PauseCommand, ResetCommand, slotVars, Release
      <4> QED
        BY <4>1, <4>2 DEF SavedMeansSaved
    <3>5. CASE TimerTick
      BY <3>2, <3>3, <3>5 DEF TimerTick
    <3> QED
      BY <2>1, <3>2, <3>3, <3>4, <3>5 DEF Mixer, StartCommand, FinishCommand
  <2>2. CASE Worker
    <3>1. Summary \/ Verdict
      BY <2>2 DEF Worker, StartPass, SkipSlot, Unavailable, BeginSave, SaveRecord, SaveDenied,
         StoreSavedId, StoreStatus, StoreState, Summary, Verdict, WorkerStep, AfterThis
    <3> QED
      BY <3>1 DEF Summary, Verdict, WorkerStep
  <2>3. CASE Interface \/ ChangeCard \/ UNCHANGED vars
    <3>1. status' = status /\ at' = at
      BY <2>3 DEF Interface, ChangeCard, vars, QueueCommand, nb4RaceStart, QueueStart,
         nb4HistoryRetry, ViewResult, ReadToken, ReadSavedId, RecheckToken, ReadPhase, LoadModel,
         Leave, PageStep, workerVars
    <3>2. \A s \in Slots : state'[s] \in {state[s], "Empty"}
      BY <2>3 DEF Interface, ChangeCard, vars, QueueCommand, nb4RaceStart, QueueStart,
         nb4HistoryRetry, ViewResult, ReadToken, ReadSavedId, RecheckToken, ReadPhase, LoadModel,
         Leave, PageStep, slotVars, Release
    <3> QED
      BY <3>1, <3>2 DEF SavedMeansSaved
  <2>4. CASE Restart
    BY <2>4 DEF Restart
  <2> QED
    BY <2>1, <2>2, <2>3, <2>4 DEF Next
<1> QED
  BY <1>1, <1>2, InvAlways, PTL DEF Spec
=============================================================================
