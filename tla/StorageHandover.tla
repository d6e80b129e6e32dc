--------------------------- MODULE StorageHandover ---------------------------
(***************************************************************************)
(* Who may use the radio's volume.  The storage worker (nb4StorageProcess, *)
(* nb4_history.cpp) writes settings, race results and logs.  The main loop *)
(* asks it to stay away (nb4StorageQuiesce) for an RF update, for the      *)
(* marker file of a maintenance session, before the USB host gets the raw  *)
(* volume and before power-off, and lets it go on with nb4StorageResume.   *)
(*                                                                         *)
(* Both run at the same priority, so either may be interrupted between any *)
(* two accesses to the shared flags: each such access is a step.           *)
(*                                                                         *)
(* One setting stands for the three, one result for the two slots; the     *)
(* modules SettingsSave and RaceHistory have them all.                     *)
(***************************************************************************)
EXTENDS Integers

VARIABLES
  volume,         \* none at power-up, mounted, or closed by sdDone()
  paused, busy,   \* the flags of the same names
  worker,         \* where the worker is in nb4StorageProcess()
  dirty,          \* a setting was edited and not queued yet
  setting,        \* settingsSaves[].state
  record,         \* slots[].state, without Reserved
  main,           \* where the main loop is
  shutdown,       \* edgeTxClose() was called for power-off
  rf,             \* the RF update: holds the volume, or keeps driving locked
  cable, seen,    \* usbPlugged(), _pluggedUsb
  mode, started   \* getSelectedUsbMode(), usbStarted()

workerVars == <<busy, worker>>
dataVars == <<dirty, setting, record>>
mainVars == <<main, shutdown>>
usbVars == <<cable, seen, mode, started>>
vars == <<volume, paused, workerVars, dataVars, mainVars, rf, usbVars>>

Init ==
  /\ volume \in {"none", "mounted"}
  /\ paused = FALSE /\ busy = FALSE /\ worker = "asleep"
  /\ dirty = FALSE /\ setting = "idle" /\ record = "empty"
  /\ main = "loop" /\ shutdown = FALSE
  /\ rf = "free"
  /\ cable = FALSE /\ seen = FALSE /\ mode = "none" /\ started = FALSE

sdMounted == volume = "mounted"

SettingsPending == setting \in {"pending", "writing"}

HostOwns == started /\ mode = "storage"

-----------------------------------------------------------------------------
(* The worker: one pass of nb4StorageProcess().                            *)

WorkerStep(from, to) == worker = from /\ worker' = to

Enter ==
  /\ main # "off"
  /\ WorkerStep("asleep", "entered")
  /\ busy' = TRUE
  /\ UNCHANGED <<volume, paused, dataVars, mainVars, rf, usbVars>>

\* Fault: a pass that finds the worker paused does not say that it is over.
ReadPausedStaysBusy ==
  /\ worker = "entered"
  /\ worker' = IF paused THEN "asleep" ELSE "settings"
  /\ UNCHANGED <<busy, volume, paused, dataVars, mainVars, rf, usbVars>>

ReadPaused ==
  /\ worker = "entered"
  /\ worker' = IF paused THEN "asleep" ELSE "settings"
  /\ busy' = (busy /\ ~paused)
  /\ UNCHANGED <<volume, paused, dataVars, mainVars, rf, usbVars>>

TakeSetting ==
  /\ IF sdMounted /\ ~HostOwns /\ setting = "pending"
       THEN WorkerStep("settings", "writing") /\ setting' = "writing"
       ELSE WorkerStep("settings", "results") /\ UNCHANGED setting
  /\ UNCHANGED <<volume, paused, busy, dirty, record, mainVars, rf, usbVars>>

WriteSetting ==
  /\ WorkerStep("writing", "results")
  /\ setting' \in {"done", "failed"}
  /\ UNCHANGED <<volume, paused, busy, dirty, record, mainVars, rf, usbVars>>

TakeRecord ==
  /\ \/ record # "pending" /\ WorkerStep("results", "serving") /\ UNCHANGED record
     \/ /\ record = "pending" /\ (~sdMounted \/ HostOwns)
        /\ WorkerStep("results", "serving") /\ record' = "failed"
     \/ /\ record = "pending" /\ sdMounted /\ ~HostOwns
        /\ WorkerStep("results", "saving") /\ UNCHANGED record
  /\ UNCHANGED <<volume, paused, busy, dirty, setting, mainVars, rf, usbVars>>

SaveRecord ==
  /\ WorkerStep("saving", "serving")
  /\ record' \in {"empty", "failed"}
  /\ UNCHANGED <<volume, paused, busy, dirty, setting, mainVars, rf, usbVars>>

\* The history query and the log, then the end of the pass.
Leave ==
  /\ WorkerStep("serving", "asleep")
  /\ busy' = FALSE
  /\ UNCHANGED <<volume, paused, dataVars, mainVars, rf, usbVars>>

Worker == Enter \/ ReadPaused \/ TakeSetting \/ WriteSetting \/ TakeRecord \/ SaveRecord \/ Leave

\* The worker has files open, or may have.
InTransaction == worker \in {"writing", "saving", "serving"}

-----------------------------------------------------------------------------
(* nb4StorageQuiesce() in two steps, and nb4StorageResume().               *)

\* Queued settings are drained first, unless there is no volume to drain them to.
Refused == sdMounted /\ SettingsPending

Ask(from, to) ==
  /\ main = from
  /\ ~Refused
  /\ paused' = TRUE /\ main' = to
  /\ UNCHANGED <<volume, workerVars, dataVars, shutdown, rf, usbVars>>

\* Fault: a transaction in flight is not looked at.
GrantedAlways == TRUE

Granted == ~busy

-----------------------------------------------------------------------------
(* Other tasks and the user.                                               *)

Edit ==
  /\ main # "off" /\ dirty' = TRUE
  /\ UNCHANGED <<volume, paused, workerVars, setting, record, mainVars, rf, usbVars>>

FinishRace ==
  /\ main # "off" /\ record = "empty" /\ record' = "pending"
  /\ UNCHANGED <<volume, paused, workerVars, dirty, setting, mainVars, rf, usbVars>>

MoveCable ==
  /\ main # "off" /\ cable' = ~cable
  /\ UNCHANGED <<volume, paused, workerVars, dataVars, mainVars, rf, seen, mode, started>>

ChooseMode ==
  /\ main = "loop" /\ seen /\ cable /\ ~started /\ mode = "none"
  /\ mode' \in {"storage", "other"}
  /\ UNCHANGED <<volume, paused, workerVars, dataVars, mainVars, rf, cable, seen, started>>

-----------------------------------------------------------------------------
(* The main loop.                                                          *)

\* nb4PollSettings(), then nb4QueueSettings() when an edit is old enough.
CheckStorageUpdate ==
  LET redo == dirty \/ setting = "failed"
      free == setting \notin {"pending", "writing"}
  IN /\ main = "loop" /\ mode # "storage"
     /\ \/ /\ redo /\ free
           /\ dirty' = FALSE /\ setting' = "pending"
        \/ /\ setting \in {"done", "failed"}
           /\ setting' = "idle" /\ dirty' = redo
     /\ UNCHANGED <<volume, paused, workerVars, record, mainVars, rf, usbVars>>

\* Commands 16, 18, 21 and 22 of the RF update.
RfAsk == rf # "holds" /\ ~HostOwns /\ Ask("loop", "rfAsked")

\* A refusal is only reported: storagePaused stays FALSE.
RfAnswer ==
  /\ main = "rfAsked" /\ main' = "loop"
  /\ rf' = IF Granted THEN "holds" ELSE rf
  /\ UNCHANGED <<volume, paused, workerVars, dataVars, shutdown, usbVars>>

\* closeImage()
RfClose ==
  /\ main = "loop" /\ rf = "holds"
  /\ rf' \in {"free", "locked"}
  /\ paused' = FALSE
  /\ UNCHANGED <<volume, workerVars, dataVars, mainVars, usbVars>>

RfUnlock ==
  /\ main = "loop" /\ rf = "locked" /\ rf' = "free"
  /\ UNCHANGED <<volume, paused, workerVars, dataVars, mainVars, usbVars>>

\* storageSession()
SessionAsk ==
  /\ rf = "free" /\ sdMounted /\ started /\ mode = "other"
  /\ Ask("loop", "sessionAsked")

SessionAnswer ==
  /\ main = "sessionAsked"
  /\ main' = IF Granted THEN "marker" ELSE "loop"
  /\ UNCHANGED <<volume, paused, workerVars, dataVars, shutdown, rf, usbVars>>

SessionEnd ==
  /\ main = "marker" /\ main' = "loop"
  /\ paused' = FALSE
  /\ UNCHANGED <<volume, workerVars, dataVars, shutdown, rf, usbVars>>

\* handleUsbConnection(): the cable went before a session started.
UnplugBeforeStart ==
  /\ main = "loop" /\ seen /\ ~cable /\ ~started
  /\ seen' = FALSE /\ mode' = "none"
  /\ paused' = FALSE
  /\ UNCHANGED <<volume, workerVars, dataVars, mainVars, rf, cable, started>>

NoticePlug ==
  /\ main = "loop" /\ ~seen /\ cable /\ seen' = TRUE
  /\ UNCHANGED <<volume, paused, workerVars, dataVars, mainVars, rf, cable, mode, started>>

StartOther ==
  /\ main = "loop" /\ seen /\ cable /\ ~started /\ mode = "other"
  /\ started' = TRUE
  /\ UNCHANGED <<volume, paused, workerVars, dataVars, mainVars, rf, cable, seen, mode>>

StopOther ==
  /\ main = "loop" /\ started /\ ~cable /\ mode = "other"
  /\ seen' = FALSE /\ started' = FALSE /\ mode' = "none"
  /\ UNCHANGED <<volume, paused, workerVars, dataVars, mainVars, rf, cable>>

\* perMain() mounts a volume that could not be mounted before.
Mount ==
  /\ main = "loop" /\ volume = "none" /\ (~cable \/ mode = "none")
  /\ volume' = "mounted"
  /\ UNCHANGED <<paused, workerVars, dataVars, mainVars, rf, usbVars>>

\* Fault: the RF update is not asked whether it uses the volume.
HostAskDuringUpdate ==
  /\ seen /\ cable /\ ~started /\ mode = "storage"
  /\ Ask("loop", "hostAsked")

\* The volume is handed over only when no RF image is open.  A notice of the update that is
\* being written, or a sound file that is being read, puts the request off for a while:
\* the step is then not taken yet.
HostAsk ==
  /\ seen /\ cable /\ ~started /\ mode = "storage" /\ rf = "free"
  /\ Ask("loop", "hostAsked")

HostAnswer ==
  /\ main = "hostAsked"
  /\ main' = IF Granted THEN "closing" ELSE "loop"
  /\ shutdown' = FALSE
  /\ UNCHANGED <<volume, paused, workerVars, dataVars, rf, usbVars>>

-----------------------------------------------------------------------------
(* edgeTxClose()                                                           *)

PowerOff ==
  /\ main = "loop" /\ main' = "closing" /\ shutdown' = TRUE
  /\ UNCHANGED <<volume, paused, workerVars, dataVars, rf, usbVars>>

CloseAsk == Ask("closing", "closeAsked") \/ Ask("refused", "closeAsked")

CloseRefused ==
  /\ main = "closing" /\ Refused /\ main' = "refused"
  /\ UNCHANGED <<volume, paused, workerVars, dataVars, shutdown, rf, usbVars>>

CloseAnswer ==
  /\ main = "closeAsked"
  /\ main' = IF Granted THEN "flush" ELSE "refused"
  /\ UNCHANGED <<volume, paused, workerVars, dataVars, shutdown, rf, usbVars>>

AfterClose ==
  /\ main' = IF shutdown THEN "off" ELSE "loop"
  /\ started' = (started \/ ~shutdown)

\* Fault: the settings are queued like at any other time.
FlushedQueued == IF dirty /\ setting = "idle" THEN "pending" ELSE setting

\* nb4FlushSettings() leaves nothing queued.
Flushed == "idle"

\* storageCheck(TRUE) writes here and now; what it cannot write stays marked.
Flush ==
  /\ main = "flush"
  /\ setting' = Flushed
  /\ dirty' \in {FALSE, dirty \/ setting \in {"pending", "failed"}}
  /\ volume' = IF sdMounted THEN "closed" ELSE volume
  /\ AfterClose
  /\ UNCHANGED <<paused, workerVars, record, shutdown, rf, cable, seen, mode>>

\* Refused for two seconds: edgeTxClose() returns, and its caller goes on.
CloseGivesUp ==
  /\ main = "refused"
  /\ AfterClose
  /\ UNCHANGED <<volume, paused, workerVars, dataVars, shutdown, rf, cable, seen, mode>>

\* The radio is switched on again, or restarts after the host had the volume.  What
\* was in memory only is gone.
Restart ==
  /\ main = "off" \/ (main = "loop" /\ HostOwns /\ ~cable)
  /\ volume' \in {"none", "mounted"}
  /\ paused' = FALSE /\ busy' = FALSE /\ worker' = "asleep"
  /\ dirty' = FALSE /\ setting' = "idle" /\ record' = "empty"
  /\ main' = "loop" /\ shutdown' = FALSE /\ rf' \in {"free", "locked"}
  /\ seen' = FALSE /\ mode' = "none" /\ started' = FALSE
  /\ UNCHANGED cable

Environment == Edit \/ Mount \/ FinishRace \/ MoveCable \/ ChooseMode \/ RfUnlock
Answer == RfAnswer \/ SessionAnswer \/ SessionEnd \/ HostAnswer \/ CloseAnswer
Close == CloseAsk \/ CloseRefused \/ Flush \/ CloseGivesUp
Usb == UnplugBeforeStart \/ NoticePlug \/ StartOther \/ StopOther

Next ==
  \/ Worker \/ Environment \/ Answer \/ Close \/ Usb
  \/ CheckStorageUpdate
  \/ RfAsk \/ RfClose \/ SessionAsk \/ HostAsk
  \/ PowerOff \/ Restart

Spec == Init /\ [][Next]_vars

\* Both tasks keep running, an RF update closes its image, and the passes of the two
\* tasks (every 25 ms and every 20 ms) do not stay in step for ever.
Fairness ==
  /\ WF_vars(Worker) /\ WF_vars(Answer) /\ WF_vars(Close) /\ WF_vars(Usb)
  /\ WF_vars(RfClose)
  /\ SF_vars(HostAsk /\ ~busy) /\ SF_vars(HostAnswer /\ Granted)
  /\ SF_vars(CloseGivesUp)
FairSpec == Spec /\ Fairness

-----------------------------------------------------------------------------
(* Properties.                                                             *)

\* Every variable has its type, and busy tells exactly when a pass is under way.
TypeOK ==
  /\ volume \in {"none", "mounted", "closed"} /\ paused \in BOOLEAN /\ busy \in BOOLEAN
  /\ worker \in {"asleep", "entered", "settings", "writing", "results", "saving", "serving"}
  /\ busy <=> worker # "asleep"
  /\ dirty \in BOOLEAN /\ setting \in {"idle", "pending", "writing", "done", "failed"}
  /\ record \in {"empty", "pending", "failed"}
  /\ main \in {"loop", "rfAsked", "sessionAsked", "hostAsked", "marker", "closing",
               "closeAsked", "refused", "flush", "off"}
  /\ shutdown \in BOOLEAN /\ rf \in {"free", "holds", "locked"}
  /\ cable \in BOOLEAN /\ seen \in BOOLEAN /\ started \in BOOLEAN
  /\ mode \in {"none", "storage", "other"}

\* No raw USB access, no last save before power-off and no marker file races a
\* transaction of the worker, in whatever order paused, busy and the settings'
\* states are read and written (nb4StorageQuiesce(), handleUsbConnection()).
ExclusiveVolume == HostOwns \/ main \in {"flush", "marker"} => ~InTransaction

\* The host never sees the volume while an RF update has an image open on it.
HostAloneOnVolume == HostOwns => rf # "holds"

\* At the moment the host gets a readable volume no setting is still queued for it
\* (nb4StorageQuiesce(), edgeTxClose(), nb4FlushSettings()).
HostSeesSettings ==
  [][ ~HostOwns /\ HostOwns' /\ volume' # "none" => ~SettingsPending' ]_vars

\* A setting waits for a worker that nobody is going to resume: what a refused request
\* of the RF update or of a maintenance session can leave behind.
Orphaned == paused /\ SettingsPending /\ main = "loop" /\ rf # "holds"

\* A selected storage session starts, or its cable is pulled, or the radio is switched
\* off, as long as no failed request has left the worker paused and the RF update is over.
HandoverCompletes ==
  ([]~Orphaned /\ <>[](rf = "free") /\ <>[][~RfAsk]_vars) =>
     (mode = "storage" ~> started \/ ~cable \/ main = "off")

\* Nobody uses the volume or asks for it any more.
Quiet == main = "loop" /\ rf # "holds" /\ mode # "storage"

\* Asking the worker to stay away only defers what it has to write: once everybody is
\* done with the volume, a waiting result is taken up.
DeferredNotDropped == <>[]Quiet => (record = "pending" ~> record # "pending")
=============================================================================
