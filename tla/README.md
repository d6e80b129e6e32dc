# TLA+ models of the NB4 radio firmware

This directory specifies, model-checks and partly proves the parts of this
repository that make the firmware of the Flysky NB4 (ApexTX, a derivative of
EdgeTX) its own: the update of RF components over the air link, the durable
journal behind it, the tasks that share the card, the saving of settings and of
race results, the update of the application by the bootloader, and the link to
the RF module. Everything is translated from `radio/src`; the paths below are
relative to it.

`PROJECT.json` lists components, runs, mutants, the lines each definition
stands for, findings, hazards and theorems.

## The system

The firmware runs a handful of FreeRTOS tasks without a general lock.

- the **mixer** (highest priority, periodic): computes the channels, runs the
  race timer, switches and functions, sends RF frames;
- the **user interface / main loop** (`perMain`): touch screen, USB, power-off,
  and the service loops of the RF update and of the maintenance link;
- the **storage worker** (`nb4StorageProcess`, every 25 ms, the priority of the
  main loop): settings, race results, history queries;
- the **receive task** of the RF module (a timer task, above the main loop and
  below the mixer) and the USB interrupts.

They communicate through flags, one-place mailboxes and small state machines in
global variables, some atomic, some not. The card can be taken away as a whole
(USB mass storage), and power can go at any time. The bootloader is a program of
its own: one loop and the USB interrupt.

### Components

| Component | State it keeps | Operations | What makes it correct |
|---|---|---|---|
| RF update state machine (`nb4_rf_update_core`) | phase, error, image, identity, coverage, peer, two clocks | prepare, start, cancel, recover, settle by probe, restore, service, verify, receive of six frames | the whole image is served before a restart is awaited; bytes leave only for a peer in the journal; an operation that touched the component is never settled as untouched; it ends in time |
| RF update journal (`nb4_rf_update.cpp`: `journal`, `readJournal`) | two files with a number and a checksum, the last number | write the other file and read it back; select at start | the two files are one durable value |
| RF update shell (rest of `nb4_rf_update.cpp`) | staged image, volume ownership, driving lock, probe, receive queue | commands of the host tool, service loop, link ownership | the calls it makes keep the core's discipline; volume and link are given back |
| Storage handover (`nb4_history.cpp`, `main.cpp`, `edgetx.cpp`) | `paused`, `busy`, mounted, USB mode | quiesce, resume, USB start and stop, power-off, marker file | one user of the volume at a time; nobody waits for ever |
| Race session (`nb4_racing.cpp`) | command mailbox, phase, pause, held slot, token | start, pause, finish, reset, tick of the native timer, model change | a running race owns a slot, nothing else does |
| Race history (`nb4_history.cpp`) | two slots, status, retry, last number, files | reserve, publish, save, retry, saved id of a session | no result is lost, doubled or shown as another's |
| Settings persistence (`storage/`) | dirty mask, three slots, three files per setting | mark, queue, write, flush, immediate save, replace, load | no edit is forgotten; power loss never costs saved settings |
| Maintenance link (`nb4_maintenance*`) | frame decoder, session | decode, dispatch, storage session | bad frames change nothing |
| AFHDS3 transport (`pulses/afhds3_transport`) | request in flight, ack FIFO, response mailbox | send, retransmit, correlate | a late reply never completes another request |
| AFHDS3 module protocol (the NB4 part of `pulses/afhds3.cpp`) | stage of the handshake, pending command, page, bind | frame of a tick, parsing of an answer | channels only for a configured module, no failure is latched |
| RF module controller (`targets/pl18/nb4_rf_controller`) | phase, fault of the UART | start, stop, fault | shutdown is applied once |
| Bootloader updater (`bootloader/nb4_update`) | staging area, queue, flash | USB writes, install, validate | a power loss leaves the old or an updatable radio |
| Task supervision (`nb4_health`) | heartbeats, fault record | beat, check, record | the first fault is kept |
| Controls, pit timer, axis, car state, templates | per-car assignments | mostly sequential | references exist, bounds hold |
| Mixer arithmetic, UI, drivers, other radios, companion, tools, third-party code | | | inherited, hardware, or not part of the radio |

Interactions: the shell drives the core and the journal, takes the volume from
the worker and the link from the transport; the worker saves the slots of the
race history and of the settings; the UI queues settings, race commands and
history queries; the mixer fills race slots and marks settings; power-off and
USB wait for the worker and must not be waited for by it.

The hard behaviours are therefore: interleavings of two tasks of one priority
and a preempting third one on plain variables; power loss between two calls of
the file system or two flash operations; calls that fail after they took
effect; late or repeated frames; a waiting loop whose partner waits as well.
`PROJECT.json` lists them one by one, each at its line.

## Modules

| Module | Models | Kind |
|---|---|---|
| `RfUpdateCore` | `nb4_rf_update_core.cpp` and the calls its owner makes | specification |
| `MCRfUpdateCore` | an instance of it | values for TLC |
| `RfUpdateCore_proofs` | | four theorems and the invariant |
| `DurableRegister` | what a journal or a settings file promises | abstract specification |
| `RfJournal` | `journal()`, `readJournal()`, two files | implements `DurableRegister` |
| `RfJournal_proofs` | | four theorems and the invariant |
| `StorageHandover` | who may use the volume | specification |
| `StorageHandover_proofs` | | four theorems |
| `RaceHistory` | race session, slots and record files, three tasks | specification |
| `RaceHistory_proofs` | | seven theorems |
| `SettingsSave` | from an edit to its file: mask, slots, worker, immediate save | specification |
| `SettingsSave_proofs` | | four theorems |
| `SettingsFile` | one settings file: two renames, recovery at start | implements `DurableRegister` |
| `SettingsFile_proofs` | | five theorems |
| `BootSlot` | what an update of the application promises | abstract specification |
| `BootUpdate` | staging, install and start of an application | implements `BootSlot` |
| `MCBootUpdate` | an instance of it | values for TLC |
| `BootUpdate_proofs` | | three theorems and the invariant |
| `Afhds3Link` | handshake, configuration and bind of the RF module | specification |
| `Afhds3Link_proofs` | | three theorems and the invariant |

### RfUpdateCore

One action per public operation and per frame. A variable is a member of
`RfUpdateCore` (`sent`, `manifest`, `finish`, `coverage`, `covered`, `peer`,
`pinned`, `idle`, `age`) except for what the owner keeps: `saved`, `durable` and
`recovering` are the checkpoint in memory, the checkpoint in the journal and the
flag of the shell. `touched` and `restored` are history. The identities and
images carry the fields the code compares. A failing mailbox (`sendOk`), image
read (`readOk`) or journal write (`journalled`) is a nondeterministic argument.
Frames that fail the common length and header check change nothing and are not
enumerated. `coverage` counts bytes of the image; the code's window rules for
receivers, where a read may end behind the image, are in `InBounds` and
`ServedBytes`.

The caller is the most general one that keeps the shell's discipline: no
`prepare` while an operation is in doubt, `recover` with the peer of the
checkpoint and directly followed by the entry request (`EntryDue`). Between the
two, only the overflow flag of the receive queue is looked at: it can fail a
recovery that has sent nothing yet (`OverrunInRecovery`, see the findings).

### RfJournal and DurableRegister

`slots` are the two files. A write takes the next number and the file of its
parity; it may be torn, may be complete although an error is reported, or may
be followed by a power loss. `Boot(bad)` is `readJournal()`, `bad` the files
the card cannot read at this start. `DurableRegister` is the promise: a value
that was acknowledged is kept, one that was attempted may be there, a start
that raises no complaint returns a value that may be there.

### StorageHandover

`worker` and `main` are program counters; every access to `paused`, `busy`, a
setting's state or the USB state is a step, because both tasks have the same
priority and can be interrupted anywhere. One setting stands for the three and
one result for the two slots. The 2 s timer of `edgeTxClose()` may expire at
any refused attempt.

### RaceHistory

The mixer is one step (nothing preempts it); the UI and the worker are cut at
each access. `state`, `record`, `id`, `token`, `savedId` are the members of
`slots[]`, `files` the record files by number. A save may fail before or after
its rename. A result is the number of its race. `before` and `finished` are
bookkeeping for the bound and for `NothingLost`.

### SettingsSave

`ram[k]` and `disk[k]` count the edits in memory and in the file. The mixer
marks the model at any point; the UI queues, flushes or saves immediately; the
worker writes. Clearing a mark in the immediate save is a load and a store, as
in the code (`&=` on a plain byte), queueing is the atomic exchange. `immediate`
is history: an immediate save, on which a mark can be lost (finding 3), was ever
made; `QueuedNotForgotten` and `EditsSaved` speak of queued saves only. Two marks
of the same edit are one. `modelslist.save()` ignores the results of its
writes, so a labels file may be reported as saved when it is not.

### SettingsFile

Each FatFs call is a step that succeeds, fails without effect, or fails after
its effect; power may be lost between any two, and a file being written is
then torn. On a card that `decays` files are also damaged while the radio is off; such a
card is mapped to a register that nobody uses.
`model` never changes and selects the start of a model file (previous taken
back, unreadable file blocked) or of the radio settings (temporary, then previous, then formatting).
`found`, `damaged` and `possible` are the variables of `DurableRegister`.
A rename is one step: the window in which FatFs has both names is not modelled.

### BootUpdate and BootSlot

The flash is a row of parts: the two vectors, the blocks of the application, the
manifest. The main loop erases or programs one part at a time
(`Updater::install()`); each operation may fail half way, and power may be lost
or the watchdog run out in it, which leaves any subset of what it changes
`Torn`. The host writes into the staging memory from the USB interrupt, hence
between any two operations (`WriteHeader`, `WriteBlock`, `Start`); a block may
arrive damaged (`intact`), which only the checksum tells. `Boot` is the decision
at a start, `mayExit` the flag that the updater keeps about it, `resume` the
request to start the application at once. `BootSlot` has two variables, the
application a start accepts and the image that is held whole; `Bootable` and
`Offered` compute them from the flash and the staging memory.

### Afhds3Link

A tick of the mixer (`setupNb4Frame()` and `sendBuffer()`) is one step, because
the mixer has a higher priority than the receive task. The receive task is cut
at each access that a tick could fall between: the match with the request in
flight, the parser's test of the pending command, the new stage, the count of
the pages. `link` is the `ProtoState` with its transport, `module` the RF module,
which is external: it answers, refuses, notifies, restarts, and holds the pages
it got. Frame numbers count modulo 256 in the code; `FreshNumber` only keeps that
a number on its way is not used again. A tick falls into a frame only by an event
(`HoldUp`), which bounds how often it happens. Two pieces of history: `rx.stage` is
the stage of the handshake when the answer in hand came in, and `crossed` says
that an answer was settled in a later stage than that (`SettledLate`), until the
handshake begins again. What the user can choose for failsafe, channels and
telemetry is one of `Settings`, and an edit may take it back: `applied` stands for
`nb4AppliedModelKey`, and `modelKey()`, a hash of 32 bits of the current values, is
taken to tell them apart, which it does up to collisions. `link.sampled` is history
as well: the settings that were noted as applied last and those that pages were made
of since; `Mixed` says that there are several. An answer may be incomplete (`Short`),
which fails the handshake whatever it answers. Left out: reads of versions, calibration, the change of the physical
mode, the test mode, the hand-over to the RF update, a transmission that is not
completed, byte escaping, two-way telemetry.

## Runs

| Run | Bounds | Shows |
|---|---|---|
| `rf_update_core` | 4 images (sizes 2, 3 and a refused 5), 9 identities, 4 replies, 1 operation number, chunks up to 3, total time 3 | types, `WholeImageServed`, `ImageOnlyToDurablePeer`, `CancelledUntouched`; under fairness `OperationEnds` |
| `rf_update_restart` | the same | **violated**: after a restart a checkpoint does not prevent abandonment |
| `rf_journal` | 3 contents, 4 numbers | types, `CleanStartIsCurrent`, `VerifiedSurvives`, refinement of `DurableRegister` |
| `storage_handover` | none needed | types, `ExclusiveVolume`, `HostAloneOnVolume`, `HostSeesSettings`, `HandoverCompletes` |
| `storage_deferred` | none needed | **violated**: a refused quiesce leaves the worker paused |
| `race_history` | 2 slots, 2 numbers, 3 races, changes of the card, power loss | types, `SlotOwned`, `NothingLost`, `OneFilePerRace`, `SavedMeansSaved`, `FilesKept` |
| `race_view` | 2 slots, 2 numbers, 2 races, views of results | `OwnResultOpened`, `RetryTried` |
| `settings_save` | 2 edits of the model and its labels, queued and immediate saves, retry limit 2 | types, `OneWriter`, `QueuedNotForgotten`, `NeverBackwards`; under fairness `EditsSaved` |
| `settings_immediate` | 1 edit of the radio and of the model | **violated**: an immediate save loses the mark of a newer edit |
| `settings_file` | 3 contents, radio settings and model, cards that keep and that damage files | types, refinement of `DurableRegister`, `SavedIsTaken`, `FormattedAsLastResort`, `OriginalPreserved` |
| `boot_update` | 2 images, 6 parts in 3 sectors, 3 faults | types, refinement of `BootSlot`, `ResumeStarts`; under fairness `Recovers` |
| `afhds3_link` | 5 numbers, 1 retransmission, 2 polls of a module that starts up, 1 acknowledgement, 2 frames on the way, 2 settings, 2 choices of the user (edits and switches of the bind mode), 1 event | types, `ConfiguredForUse`, `PagesInStandby`; under fairness `LinkComesUp` |

Why the bounds are enough. *RfUpdateCore*: an image of three bytes in blocks of
two and windows of four is the smallest one whose last window ends behind it;
the identities differ in each field that is compared, the replies in each field
that a checkpoint keeps. *RfJournal*: four numbers use each file twice, so that
a write can meet a torn, a current and an old file, and reach the last number.
*RaceHistory*: two slots is the size in the code; two numbers run out, as 32 bits
do; three races fill both slots and ask for a third. *SettingsSave*: two edits of
one kind give an edit during the write of the one before; the model brings the
labels along, so two slots interact; the radio settings take the same path.
A limit of two failures has the states of ten: below, at and after the limit.
*SettingsFile*: the contents of three files can all differ; nothing counts.
*BootUpdate*: of the two images one reaches into the sector of the manifest and
one does not; three faults allow an operation that fails, a damaged transfer and
a power loss in one update. *Afhds3Link*: two choices are an
edit and its undoing, entering and leaving the bind mode, or one of each, at any
point of the handshake or of a frame; the retransmission of a request and
the answers to both copies are on the way at once; one event is a loss, a
refusal, an incomplete answer, a restart, a notification or a tick within a frame,
each of them against everything else (562962 states). The run was also made
with three choices (1.43 million states). Two events together are beyond the time of
a run; the proof of the safety properties has no bound.

Deadlock is checked in every run.

## Fairness

- `RfUpdateCore`: `WF(ServiceAny)`, `WF(Tick)`. The main loop calls the service
  of the update in every pass, and time passes.
- `StorageHandover`: weak fairness of the worker and of each step of the main
  loop that it takes by itself (both run in endless loops), and of the update
  closing its image. `SF(HostAsk /\ ~busy)` and `SF(HostAnswer /\ Granted)`: the
  worker comes every 25 ms, the main loop about every 20 ms, and a pass with
  nothing to do is far shorter than either, so the main loop does not meet a
  pass for ever. The request of the host is also put off while a notice of the
  update is being written or a sound file is closed (`nb4RfNoticeStorageOwned()`,
  `audioQueue.pauseFiles()`, `main.cpp:218`); both end by themselves, and the strong
  fairness assumes that they do. `SF(CloseGivesUp)`: the timer of two seconds.
- `RaceHistory`: `WF(Worker)`, an endless loop with a sleep of 25 ms.
- `SettingsSave`: weak fairness of each step of both tasks; strong fairness of
  queueing (`checkStorageUpdate()` is called in every pass and edits are
  finite), and, as an assumption on the environment, that a slot is filled and
  a write succeeds now and then if it is tried again and again.
- `BootUpdate`: the radio is switched on, its main loop runs; the host sends an
  image to an idle updater and starts it. Faults are bounded.
- `Afhds3Link`: the mixer ticks, the receive task goes on, the module starts up,
  and the delay of a retry ends. The time the code waits for an answer is longer
  than the time the receive task needs to handle one, unless an event is spent
  on the contrary (`GivesUp`).

No other run uses fairness.

## Proofs

For every value of the constants, under the assumptions named in the modules
(`ConstantsAssumption`, `JournalAssumption`, `FileAssumption`, `BootAssumption`,
`SaveAssumption`, `SlotsAssumption`, `BoundsAssumption`, `LinkAssumption`: sizes
and limits are numbers, slots are numbered from one, the special values are
distinct, and there are more frame numbers than frames on their way, in hand and
asked for: the code has 256 of them, and the mixer waits for an answer or gives
it up before it sends the next request):

- `RfUpdateCore_proofs`: `TypeCorrect`, `WholeImage`, `DurablePeerFirst`,
  `NoLostTouch`. The invariant adds to the types that `covered` is the size of
  `coverage` as long as the end of the write is not confirmed otherwise
  (`CountExact`), that the pinned peer, the checkpoint in memory and the one in
  the journal agree (`PeersAgree`), and that nothing is served before the entry
  request (`SentGuards`). `WholeImageServed` alone is not inductive: the code
  compares a counter, so the counter has to be tied to the set, and equality of
  the sizes then gives equality of the sets (`CountAll`).
- `RfJournal_proofs`: `TypeCorrect`, `CleanStart`, `NothingLost`,
  `ImplementsRegister`. The invariant says that numbers and files alternate
  (`InTurn`), what an unfinished write may have left (`WriteInFlight`), and which
  file the writer knows to be good (`WriterView`); `ViewSuffices` derives both
  properties from it.
- `SettingsFile_proofs`: `TypeCorrect`, `ImplementsRegister`, `SavedTaken` from
  `Sound` (what each next call finds, which names hold settings that may be
  taken up, and that saved settings never lack a file); `LastResort` and
  `OriginalKept`, in which files may be damaged at any start, from `Order` and
  `Original`.
- `BootUpdate_proofs`: `TypeCorrect`, `ImplementsSlot`, `ResumeSound`, for any
  images, parts and sectors. `Holding` says that what was staged whole stays so
  while it is installed, although the interrupt goes on; `Progress`, that the
  first vector stays erased until everything else is in the flash; `Exits`, that
  the flags which skip the check of the application are right. A step that
  touches the first vector is the only one that can change what is bootable.
- `StorageHandover_proofs`: `TypeCorrect`, `Exclusive`, `HostAlone`,
  `SettingsHandedOver`. The two tasks never look at each other's position, so
  the invariant has to say what a granted request stands for: whom the volume
  was granted to, the worker stays away from (`Away`), every request is still
  made until it is answered (`Asked`), and what it was made for still holds
  (`Purpose`), in particular that no setting became pending on the way.
- `SettingsSave_proofs`: `TypeCorrect`, `NoSecondWriter`, `NothingForgotten`,
  `FilesGoForward`. Who writes a slot has claimed it (`Claimed`); what the flush
  left empty stays empty until the immediate save is over (`Drained`); texts are
  never older than the file they are on the way to (`Ordered`). Without `Drained`
  an immediate save could be overtaken by an older text.
- `RaceHistory_proofs`: `TypeCorrect`, `OneSlotPerRace`, `NoResultLost`,
  `ExistingKept`, `OneFileOnly`, `ViewsOwnResult`, `SavedIsTrue`, for any number of
  slots, record numbers and races. `InWork`
  ties what the worker keeps in local variables to the slot it works on while
  mixer and user interface go on; `Owned` and `Kept` say slot by slot and race by
  race what the properties say in sum. The choice of the smallest free slot rests
  on `Smallest`, from the well-foundedness of the natural numbers. `OneFilePerRace`
  speaks of files only, and a save that failed after its rename leaves one that no
  slot calls saved; `Filing` therefore ties files, record numbers and tokens to the
  slots: no two slots have a number, a number is never above the last one given
  (`HighestBound`), and a result that waits is in no file but the one with its
  number. `Viewing` says what the page knows after each of its unlocked reads: when
  the token is found unchanged, the number read in between is that of the session.
- `Afhds3Link_proofs`: `TypeCorrect`, `UsedAsConfigured`, `StandsByForPages`, for any
  settings and any number of retries, frames on the way, edits, also undone ones,
  switches, losses and restarts. `ConfiguredForUse` is an action property: it compares
  the frame of a tick with what the module has and with the model at that tick. But
  what makes the mixer send the frame is a stage that an answer has set, and what the
  answer counts for was decided when it was given. That the pages are of what the model has now is the comparison of
  `Changed`, made in the tick itself (`Sendable`, `FrameSent`), together with the
  invariant that every page is of settings sampled since the last note. So the
  invariant says what the module has in each stage (`InStage`), what an answer that can still settle the stage says of the module,
  whether it is in hand (`InHand`) or on the way (`OnTheWay`, `Says`), that what is
  asked belongs to the stage (`Asks`), and that pages are counted at most once
  (`Counts`). A number that is still on its way is not used again (`Fresh`, by
  counting numbers). The parts take the state as parameters: a tick is one step but
  chooses a frame in several (`HandshakeKeeps`, `DriveKeeps`, `ServeKeeps`) before it
  delivers it (`SendKeeps`), and each is proved to keep the parts.

Only model-checked: liveness (`OperationEnds`, `HandoverCompletes`, `RetryTried`,
`EditsSaved`, `Recovers`, `LinkComesUp`), which needs ENABLED and is out of the
prover's reach. Every invariant and every action property of the passing runs is
proved, and the three refinements are. What a recursive
computation yields for every input would need induction over data, which the
installed provers do not do; no module here declares a RECURSIVE operator.

## Findings

Each of these is a run that TLC finds violated:

1. After a restart, `cancelUntouchedApplication()` looks only at the engine's
   peer, which `prepare()` has cleared, so a checkpoint in the journal does not
   keep an operation from being abandoned, as a comment and `RF_BENCH.md` say it
   does (`nb4_rf_update.cpp:708`).
2. `nb4StorageQuiesce()` sets `paused` even when it refuses; the commands of the
   RF update and `storageSession` return an error without resuming, and the
   worker never saves again (`nb4_rf_update.cpp:616`).
3. `storageCheck(true)` clears marks by a plain read-modify-write after the
   file was written, so an edit made by the mixer during the save loses its
   mark (`storage/sdcard_common.cpp:166`).

Seen while modelling, and named as exceptions in the properties:

- The flag of an overflow is cleared before `recover()` and looked at right after
  it (`nb4_rf_update.cpp:768`). When the receive task sets it in between,
  `fail()` finds `sent_` unset and settles a touched operation as cancelled.
  `CancelledUntouched` states that nothing else does (`OverrunInRecovery`).
- "Old replies can no longer advance the new operation because Transport checks
  command and sequence" (`pulses/afhds3.cpp:1000`) holds up to that check. When
  the mixer changes the stage after it, the old answer sets the stage after the
  new one if the parser finds the same command pending, or found it so before.
  Without the exception for `crossed`, TLC finds channels sent to a module in bind
  operation. The user's switch is not needed for it: with two ticks in the middle of
  the handling of frames and a refusal, pages are sent to a running module
  (`PagesInStandby` with three events; a run with one event cannot show it).
- The answer to the last page clears every dirty bit (`pulses/afhds3.cpp:1284`);
  an output option that was changed while the pages were sent is not applied.
- `setupNb4Frame()` compares the key of the current settings with the one noted when
  the module stood by (`pulses/afhds3.cpp:1104`, `1266`). An edit that is undone before
  the module runs is not noticed, although a page may have been made of the settings
  in between; channels then go to a module with that page until the next handshake.
  The test `LiveFailsafeChangesReconfigureBeforeResumingChannels`
  (`tests/nb4_afhds3.cpp:1148`) has an edit that stays. `ConfiguredForUse` names the
  exception (`Mixed`) and says what holds in it; without it TLC finds the case with
  two edits.
- The transport is idle before the page is counted; a tick in between sends the
  page again. The mask in the answer to the fourth page catches it, and the
  handshake is tried again.
- Five images of the catalogue are longer than the 65536 bytes that `prepare()`
  accepts (`nb4_rf_images.h:25`).

## Not modelled

- Data: YAML text, CRC arithmetic, lap times, curves, colours, wording. A text
  is readable or not. A truncated model file that still parses as one is
  beyond `SettingsFile`, which relies on `replaceYamlFile()` never to leave one.
- Visual migrations and manually edited radio files in
  `loadRadioSettingsYaml()`, blocked models in `SettingsSave`, laps and undo in
  `RaceHistory`: they change no state that the properties speak of.
- The commands, the driving lock and the mailboxes of the RF update shell; the
  power and UART controller of the RF module; the supervision of the tasks; the
  assignment of controls; the query mailbox of the history page; the frame
  decoder of the maintenance link: see the plan.
- The read-only media of the bootloader's USB disk and its hand-over to the
  download of the RF module.
- FatFs, FreeRTOS, USB and flash drivers are external: they appear as calls that
  may fail, steps that may be interrupted and writes that may be torn.
- The user interface beyond its calls, other radios, the companion, tools and
  tests (see `PROJECT.json`). They and vendored code are most of the repository.

## Plan

Written so far, in this order: `RfUpdateCore`, `RfJournal` with
`DurableRegister`, `StorageHandover`, `RaceHistory`, `SettingsSave`,
`SettingsFile`, `BootUpdate` with `BootSlot`, `Afhds3Link`, all with proofs.
Next:

1. `RfUpdateSession`: the shell as a composition of `RfUpdateCore`,
   `DurableRegister` in place of the journal, the ownership of volume and link
   and the driving lock, with restarts and the entry probe; it shall implement
   `RfUpdateCore`. Properties: driving stays locked while an operation is in
   doubt, across restarts; the volume and the link are given back. Bounds: one
   image of two bytes, two restarts.
2. `RfLink`: the one-place mailbox and the receive queue between mixer, receive
   task and service.
3. `RfController`, `Health`, `Controls`, the history query mailbox,
   `MaintenanceDecoder`; `MCRfCatalogue` as a check of the image catalogue
   against `CanPrepare`.
4. Proofs: the refinement of `RfUpdateCore` by `RfUpdateSession`, and the safety
   properties of the modules above.
