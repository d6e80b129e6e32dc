------------------------ MODULE StorageHandover_proofs ------------------------
(***************************************************************************)
(* Proofs about StorageHandover.                                           *)
(*                                                                         *)
(* Handed is inductive: from the moment a request to stay away is granted  *)
(* until the worker is resumed, the worker is asleep or about to read      *)
(* paused, and what was looked at when the request was made still holds.   *)
(***************************************************************************)
EXTENDS StorageHandover, TLAPS

\* The Boolean variables.
Flags ==
  /\ paused \in BOOLEAN /\ busy \in BOOLEAN /\ dirty \in BOOLEAN /\ shutdown \in BOOLEAN
  /\ cable \in BOOLEAN /\ seen \in BOOLEAN /\ started \in BOOLEAN

\* The worker does not use the volume, and will not.
KeptAway == paused /\ worker \in {"asleep", "entered"}

\* On the way from the request for the USB host to the end of edgeTxClose().
Closing == main \in {"closing", "closeAsked", "refused", "flush"} /\ ~shutdown
HandingOver == main = "hostAsked" \/ Closing

\* The worker stays away from whom it was granted to.
Away == HostOwns \/ Closing \/ main \in {"flush", "marker"} => KeptAway

\* A request that is not answered yet has been made.
Asked == main \in {"rfAsked", "sessionAsked", "hostAsked", "closeAsked"} => paused

\* What the request was made for is still so.
Purpose ==
  /\ main \in {"sessionAsked", "marker"} => mode = "other"
  /\ main = "rfAsked" => ~HostOwns
  /\ HandingOver => mode = "storage" /\ rf # "holds" /\ (sdMounted => ~SettingsPending)

\* The volume is closed for the host or for good.
Closed == volume = "closed" => HostOwns \/ main = "off"

Handed == TypeOK /\ Away /\ Asked /\ Purpose /\ Closed /\ HostAloneOnVolume

\* At power-up nobody has asked for the volume.
LEMMA InitHanded == Init => Handed
BY DEF Init, Handed, TypeOK, Away, Asked, Purpose, Closed, HostAloneOnVolume, HostOwns, Closing,
   HandingOver, KeptAway, SettingsPending, sdMounted

-----------------------------------------------------------------------------
(* One lemma for each group of actions.                                    *)

\* A worker that finds paused set when it is asked to stay away goes no further.
LEMMA WorkerKeeps == Handed /\ Worker => Handed'
<1> SUFFICES ASSUME Handed, Worker PROVE Handed'
  OBVIOUS
<1> USE DEF Handed, Flags, TypeOK, Away, Asked, Purpose, Closed, HostAloneOnVolume, HostOwns,
            KeptAway,
           Closing, HandingOver, SettingsPending, sdMounted,
           workerVars, dataVars, mainVars, usbVars
<1>1. CASE Enter
  BY <1>1 DEF Enter, WorkerStep
<1>2. CASE ReadPaused
  <2>1. TypeOK'
    <3>1. (busy <=> worker # "asleep")'
      BY <1>2 DEF ReadPaused
    <3>2. Flags'
      BY <1>2 DEF ReadPaused
    <3> QED
      BY <3>1, <3>2, <1>2 DEF ReadPaused
  <2>2. Away'
    BY <1>2 DEF ReadPaused
  <2>3. (Asked /\ Closed)'
    BY <1>2 DEF ReadPaused
  <2>4. Purpose'
    BY <1>2 DEF ReadPaused
  <2>5. HostAloneOnVolume'
    BY <1>2 DEF ReadPaused
  <2> QED
    BY <2>1, <2>2, <2>3, <2>4, <2>5
<1>3. CASE TakeSetting
  BY <1>3 DEF TakeSetting, WorkerStep
<1>4. CASE WriteSetting
  BY <1>4 DEF WriteSetting, WorkerStep
<1>5. CASE TakeRecord
  BY <1>5 DEF TakeRecord, WorkerStep
<1>6. CASE SaveRecord
  BY <1>6 DEF SaveRecord, WorkerStep
<1>7. CASE Leave
  <2>1. TypeOK'
    <3>1. (busy <=> worker # "asleep")'
      BY <1>7 DEF Leave, WorkerStep
    <3>2. Flags'
      BY <1>7 DEF Leave, WorkerStep
    <3> QED
      BY <3>1, <3>2, <1>7 DEF Leave, WorkerStep
  <2>2. Away'
    BY <1>7 DEF Leave, WorkerStep
  <2>3. (Asked /\ Closed)'
    BY <1>7 DEF Leave, WorkerStep
  <2>4. Purpose'
    BY <1>7 DEF Leave, WorkerStep
  <2>5. HostAloneOnVolume'
    BY <1>7 DEF Leave, WorkerStep
  <2> QED
    BY <2>1, <2>2, <2>3, <2>4, <2>5
<1> QED
  BY <1>1, <1>2, <1>3, <1>4, <1>5, <1>6, <1>7 DEF Worker

\* The volume is mounted and a mode chosen only while nobody has asked for the volume.
LEMMA EnvironmentKeeps == Handed /\ Environment => Handed'
<1> SUFFICES ASSUME Handed, Environment PROVE Handed'
  OBVIOUS
<1> USE DEF Handed, Flags, TypeOK, Away, Asked, Purpose, Closed, HostAloneOnVolume, HostOwns,
            KeptAway,
           Closing, HandingOver, SettingsPending, sdMounted,
           workerVars, dataVars, mainVars, usbVars
<1>1. CASE Edit
  BY <1>1 DEF Edit
<1>2. CASE Mount
  BY <1>2 DEF Mount
<1>3. CASE FinishRace
  BY <1>3 DEF FinishRace
<1>4. CASE MoveCable
  BY <1>4 DEF MoveCable
<1>5. CASE ChooseMode
  BY <1>5 DEF ChooseMode
<1>6. CASE RfUnlock
  BY <1>6 DEF RfUnlock
<1> QED
  BY <1>1, <1>2, <1>3, <1>4, <1>5, <1>6 DEF Environment

\* A request is granted only when no pass of the worker is under way.
LEMMA AnswerKeeps == Handed /\ Answer => Handed'
<1> SUFFICES ASSUME Handed, Answer PROVE Handed'
  OBVIOUS
<1> USE DEF Handed, Flags, TypeOK, Away, Asked, Purpose, Closed, HostAloneOnVolume, HostOwns,
            KeptAway,
           Closing, HandingOver, SettingsPending, sdMounted,
           workerVars, dataVars, mainVars, usbVars
<1>1. CASE RfAnswer
  BY <1>1 DEF RfAnswer, Granted
<1>2. CASE SessionAnswer
  BY <1>2 DEF SessionAnswer, Granted
<1>3. CASE SessionEnd
  <2>1. TypeOK'
    <3>1. (busy <=> worker # "asleep")'
      BY <1>3 DEF SessionEnd
    <3>2. Flags'
      BY <1>3 DEF SessionEnd
    <3> QED
      BY <3>1, <3>2, <1>3 DEF SessionEnd
  <2>2. Away'
    BY <1>3 DEF SessionEnd
  <2>3. (Asked /\ Closed)'
    BY <1>3 DEF SessionEnd
  <2>4. Purpose'
    BY <1>3 DEF SessionEnd
  <2>5. HostAloneOnVolume'
    BY <1>3 DEF SessionEnd
  <2> QED
    BY <2>1, <2>2, <2>3, <2>4, <2>5
<1>4. CASE HostAnswer
  <2>1. TypeOK'
    <3>1. (busy <=> worker # "asleep")'
      BY <1>4 DEF HostAnswer, Granted
    <3>2. Flags'
      BY <1>4 DEF HostAnswer, Granted
    <3> QED
      BY <3>1, <3>2, <1>4 DEF HostAnswer, Granted
  <2>2. Away'
    BY <1>4 DEF HostAnswer, Granted
  <2>3. (Asked /\ Closed)'
    BY <1>4 DEF HostAnswer, Granted
  <2>4. Purpose'
    BY <1>4 DEF HostAnswer, Granted
  <2>5. HostAloneOnVolume'
    BY <1>4 DEF HostAnswer, Granted
  <2> QED
    BY <2>1, <2>2, <2>3, <2>4, <2>5
<1>5. CASE CloseAnswer
  BY <1>5 DEF CloseAnswer, Granted
<1> QED
  BY <1>1, <1>2, <1>3, <1>4, <1>5 DEF Answer

\* edgeTxClose() ends with the host on a volume the worker stays away from, or at power-off.
LEMMA CloseKeeps == Handed /\ Close => Handed'
<1> SUFFICES ASSUME Handed, Close PROVE Handed'
  OBVIOUS
<1> USE DEF Handed, Flags, TypeOK, Away, Asked, Purpose, Closed, HostAloneOnVolume, HostOwns,
            KeptAway,
           Closing, HandingOver, SettingsPending, sdMounted,
           workerVars, dataVars, mainVars, usbVars
<1>1. CASE CloseAsk
  <2>1. TypeOK'
    <3>1. (busy <=> worker # "asleep")'
      BY <1>1 DEF CloseAsk, Ask, Refused
    <3>2. Flags'
      BY <1>1 DEF CloseAsk, Ask, Refused
    <3> QED
      BY <3>1, <3>2, <1>1 DEF CloseAsk, Ask, Refused
  <2>2. Away'
    BY <1>1 DEF CloseAsk, Ask, Refused
  <2>3. (Asked /\ Closed)'
    BY <1>1 DEF CloseAsk, Ask, Refused
  <2>4. Purpose'
    BY <1>1 DEF CloseAsk, Ask, Refused
  <2>5. HostAloneOnVolume'
    BY <1>1 DEF CloseAsk, Ask, Refused
  <2> QED
    BY <2>1, <2>2, <2>3, <2>4, <2>5
<1>2. CASE CloseRefused
  BY <1>2 DEF CloseRefused, Refused
<1>3. CASE Flush
  BY <1>3 DEF Flush, Flushed, AfterClose
<1>4. CASE CloseGivesUp
  BY <1>4 DEF CloseGivesUp, AfterClose
<1> QED
  BY <1>1, <1>2, <1>3, <1>4 DEF Close

\* Pulling the cable resumes the worker only when the host does not have the volume.
LEMMA UsbKeeps == Handed /\ Usb => Handed'
<1> SUFFICES ASSUME Handed, Usb PROVE Handed'
  OBVIOUS
<1> USE DEF Handed, Flags, TypeOK, Away, Asked, Purpose, Closed, HostAloneOnVolume, HostOwns,
            KeptAway,
           Closing, HandingOver, SettingsPending, sdMounted,
           workerVars, dataVars, mainVars, usbVars
<1>1. CASE UnplugBeforeStart
  <2>1. TypeOK'
    <3>1. (busy <=> worker # "asleep")'
      BY <1>1 DEF UnplugBeforeStart
    <3>2. Flags'
      BY <1>1 DEF UnplugBeforeStart
    <3> QED
      BY <3>1, <3>2, <1>1 DEF UnplugBeforeStart
  <2>2. Away'
    BY <1>1 DEF UnplugBeforeStart
  <2>3. (Asked /\ Closed)'
    BY <1>1 DEF UnplugBeforeStart
  <2>4. Purpose'
    BY <1>1 DEF UnplugBeforeStart
  <2>5. HostAloneOnVolume'
    BY <1>1 DEF UnplugBeforeStart
  <2> QED
    BY <2>1, <2>2, <2>3, <2>4, <2>5
<1>2. CASE NoticePlug
  BY <1>2 DEF NoticePlug
<1>3. CASE StartOther
  BY <1>3 DEF StartOther
<1>4. CASE StopOther
  <2>1. TypeOK'
    <3>1. (busy <=> worker # "asleep")'
      BY <1>4 DEF StopOther
    <3>2. Flags'
      BY <1>4 DEF StopOther
    <3> QED
      BY <3>1, <3>2, <1>4 DEF StopOther
  <2>2. Away'
    BY <1>4 DEF StopOther
  <2>3. (Asked /\ Closed)'
    BY <1>4 DEF StopOther
  <2>4. Purpose'
    BY <1>4 DEF StopOther
  <2>5. HostAloneOnVolume'
    BY <1>4 DEF StopOther
  <2> QED
    BY <2>1, <2>2, <2>3, <2>4, <2>5
<1> QED
  BY <1>1, <1>2, <1>3, <1>4 DEF Usb

\* What the main loop does of its own accord.
LoopStep ==
  \/ CheckStorageUpdate \/ RfAsk \/ RfClose \/ SessionAsk \/ HostAsk
  \/ PowerOff \/ Restart

\* The main loop asks only when what the volume is wanted for allows it.
LEMMA LoopKeeps == Handed /\ LoopStep => Handed'
<1> SUFFICES ASSUME Handed, LoopStep PROVE Handed'
  OBVIOUS
<1> USE DEF Handed, Flags, TypeOK, Away, Asked, Purpose, Closed, HostAloneOnVolume, HostOwns,
            KeptAway,
           Closing, HandingOver, SettingsPending, sdMounted,
           workerVars, dataVars, mainVars, usbVars
<1>1. CASE CheckStorageUpdate
  <2>1. TypeOK'
    <3>1. (busy <=> worker # "asleep")'
      BY <1>1 DEF CheckStorageUpdate
    <3>2. Flags'
      BY <1>1 DEF CheckStorageUpdate
    <3> QED
      BY <3>1, <3>2, <1>1 DEF CheckStorageUpdate
  <2>2. Away'
    BY <1>1 DEF CheckStorageUpdate
  <2>3. (Asked /\ Closed)'
    BY <1>1 DEF CheckStorageUpdate
  <2>4. Purpose'
    BY <1>1 DEF CheckStorageUpdate
  <2>5. HostAloneOnVolume'
    BY <1>1 DEF CheckStorageUpdate
  <2> QED
    BY <2>1, <2>2, <2>3, <2>4, <2>5
<1>2. CASE RfAsk
  BY <1>2 DEF RfAsk, Ask
<1>3. CASE RfClose
  <2>1. TypeOK'
    <3>1. (busy <=> worker # "asleep")'
      BY <1>3 DEF RfClose
    <3>2. Flags'
      BY <1>3 DEF RfClose
    <3> QED
      BY <3>1, <3>2, <1>3 DEF RfClose
  <2>2. Away'
    BY <1>3 DEF RfClose
  <2>3. (Asked /\ Closed)'
    BY <1>3 DEF RfClose
  <2>4. Purpose'
    BY <1>3 DEF RfClose
  <2>5. HostAloneOnVolume'
    BY <1>3 DEF RfClose
  <2> QED
    BY <2>1, <2>2, <2>3, <2>4, <2>5
<1>4. CASE SessionAsk
  BY <1>4 DEF SessionAsk, Ask, Refused
<1>5. CASE HostAsk
  BY <1>5 DEF HostAsk, Ask, Refused
<1>6. CASE PowerOff
  BY <1>6 DEF PowerOff
<1>7. CASE Restart
  BY <1>7 DEF Restart
<1> QED
  BY <1>1, <1>2, <1>3, <1>4, <1>5, <1>6, <1>7 DEF LoopStep

-----------------------------------------------------------------------------
(* The theorems.                                                           *)

\* Every step of either task keeps Handed.
LEMMA HandedInductive == Handed /\ [Next]_vars => Handed'
<1> SUFFICES ASSUME Handed, [Next]_vars PROVE Handed'
  OBVIOUS
<1>1. CASE UNCHANGED vars
  BY <1>1 DEF Handed, TypeOK, Away, Asked, Purpose, Closed, HostAloneOnVolume, HostOwns, KeptAway,
              Closing, HandingOver, SettingsPending, sdMounted,
              vars, workerVars, dataVars, mainVars, usbVars
<1>2. CASE Next
  BY <1>2, WorkerKeeps, EnvironmentKeeps, AnswerKeeps, CloseKeeps, UsbKeeps, LoopKeeps
     DEF Next, LoopStep
<1> QED
  BY <1>1, <1>2

\* Handed holds in every reachable state, and so do the type of every variable and the
\* meaning of busy: it is set from the first to the last step of a pass and never else.
THEOREM TypeCorrect == Spec => []TypeOK
<1>1. Handed => TypeOK
  BY DEF Handed
<1> QED
  BY <1>1, InitHanded, HandedInductive, PTL DEF Spec

\* The USB host, the last save before power-off and the marker file have the volume for
\* themselves, whatever the worker was doing when nb4StorageQuiesce() was called.
THEOREM Exclusive == Spec => []ExclusiveVolume
<1>1. Handed => ExclusiveVolume
  BY DEF Handed, Away, KeptAway, ExclusiveVolume, InTransaction
<1> QED
  BY <1>1, InitHanded, HandedInductive, PTL DEF Spec

\* The host has the raw volume only while no RF update holds it (handleUsbConnection()).
THEOREM HostAlone == Spec => []HostAloneOnVolume
<1>1. Handed => HostAloneOnVolume
  BY DEF Handed
<1> QED
  BY <1>1, InitHanded, HandedInductive, PTL DEF Spec

\* No setting is still queued for the volume at the moment the host gets it
\* (nb4StorageQuiesce(), edgeTxClose()).
THEOREM SettingsHandedOver == Spec => HostSeesSettings
<1> DEFINE Seen == ~HostOwns /\ HostOwns' /\ volume' # "none" => ~SettingsPending'
<1>1. Handed /\ [Next]_vars => [Seen]_vars
  <2> SUFFICES ASSUME Handed, Next, ~HostOwns, HostOwns', volume' # "none"
               PROVE  ~SettingsPending'
    BY DEF Seen
  <2>1. Flush \/ CloseGivesUp
    <3> USE DEF HostOwns, workerVars, dataVars, mainVars, usbVars
    <3>1. ~Worker
      BY DEF Worker, Enter, ReadPaused, TakeSetting, WriteSetting, TakeRecord, SaveRecord, Leave
    <3>2. ~Environment
      BY DEF Environment, Edit, Mount, FinishRace, MoveCable, ChooseMode, RfUnlock
    <3>3. ~Answer
      BY DEF Answer, RfAnswer, SessionAnswer, SessionEnd, HostAnswer, CloseAnswer
    <3>4. ~Usb
      BY DEF Usb, UnplugBeforeStart, NoticePlug, StartOther, StopOther
    <3>5. ~LoopStep
      BY DEF LoopStep, CheckStorageUpdate, RfAsk, RfClose, SessionAsk, HostAsk, Ask, PowerOff,
             Restart
    <3>6. ~CloseAsk /\ ~CloseRefused
      BY DEF CloseAsk, Ask, CloseRefused
    <3> QED
      BY <3>1, <3>2, <3>3, <3>4, <3>5, <3>6 DEF Next, LoopStep, Close
  <2>2. CASE Flush
    BY <2>2 DEF Flush, Flushed, SettingsPending
  <2>3. CASE CloseGivesUp
    <3>1. Closing /\ volume = volume' /\ setting' = setting
      BY <2>3 DEF CloseGivesUp, AfterClose, HostOwns, Closing, dataVars, workerVars
    <3>2. sdMounted => ~SettingsPending
      BY <3>1 DEF Handed, Purpose, HandingOver
    <3>3. sdMounted
      BY <3>1, <2>3 DEF Handed, Closed, TypeOK, sdMounted, CloseGivesUp
    <3> QED
      BY <3>1, <3>2, <3>3 DEF SettingsPending
  <2> QED
    BY <2>1, <2>2, <2>3
<1> QED
  BY <1>1, InitHanded, HandedInductive, PTL DEF Spec, HostSeesSettings
=============================================================================
