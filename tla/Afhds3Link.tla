----------------------------- MODULE Afhds3Link -----------------------------
(***************************************************************************)
(* The link to the RF module: the requests of ProtoState (setupNb4Frame(), *)
(* parseNb4Data() in afhds3.cpp) over Transport (afhds3_transport.cpp).    *)
(*                                                                         *)
(* The mixer task makes and sends one frame per tick and interrupts the    *)
(* receive task anywhere, but never the other way round: a tick is one     *)
(* step, the handling of a frame several.  The wire keeps the order of the *)
(* frames and loses some.  Left out: reads of versions, calibration, a     *)
(* change of the physical mode, the test mode, the module in maintenance;  *)
(* the receiver answers (two-way telemetry).                               *)
(***************************************************************************)
EXTENDS Integers, Sequences

CONSTANTS
  Numbers,         \* bound: frame numbers, enough for the frames on their way; 0 .. 255
  MaxRetries,      \* maxResponseRetries
  MaxReadyTries,   \* 100 in the code
  MaxAcks,         \* acknowledgements that fit the queue; 7 in the code
  MaxReplies,      \* bound: frames on the way to the radio
  Settings,        \* what the user can choose for failsafe, channels and telemetry
  Loaded,          \* what the model has of it at the start
  MaxChoices,      \* bound: times the user enters or leaves the bind mode or edits settings
  MaxEvents        \* bound: frames lost or refused, notifications, restarts

ASSUME LinkAssumption ==
  /\ {Numbers, MaxReadyTries, MaxAcks, MaxReplies} \subseteq Nat \ {0}
  /\ {MaxRetries, MaxChoices, MaxEvents} \subseteq Nat
  /\ Numbers >= MaxReplies + 2
  /\ Loaded \in Settings

VARIABLES
  link,       \* the ProtoState of the module and its Transport; its applied stands for
              \* nb4AppliedModelKey; its sampled is history: what was noted as applied last,
              \* and the settings that pages were made of since
  rx,         \* where the receive task is and in which frame; history: the stage it came in
  toRadio,    \* frames on their way to the radio
  module,     \* external: the RF module
  bindMode,   \* whether the user asks to bind
  model,      \* the settings of the model; modelKey() is taken to tell them apart
  crossed,    \* history: an answer was settled in a later stage than it came in
  choices, events

vars == <<link, rx, toRadio, module, bindMode, model, crossed, choices, events>>

None == "none"
NoFrame == [command |-> None, arg |-> <<>>]
Nothing == [command |-> None, number |-> -1, arg |-> <<>>]
Idle == [at |-> "idle", frame |-> Nothing, held |-> FALSE, stage |-> None]
Pages == 0 .. 3

Init ==
  /\ model = Loaded
  /\ \E b \in BOOLEAN : link = [operationState |-> "UNKNOWN", repeatCount |-> 0,
             pendingIndex |-> 0, pendingCommand |-> None, frame |-> NoFrame,
             acknowledgements |-> 0, responsePending |-> FALSE,
             stage |-> "Ready", pending |-> None, page |-> 0, readyTries |-> 0, error |-> FALSE,
             binding |-> FALSE, received |-> FALSE, bound |-> b, synced |-> FALSE,
             applied |-> model, sampled |-> {model}, dirty |-> FALSE]
  /\ rx = Idle
  /\ toRadio = <<>>
  /\ module = [up |-> FALSE, run |-> FALSE, pages |-> [p \in Pages |-> <<>>], restarted |-> FALSE]
  /\ bindMode = FALSE /\ crossed = FALSE /\ choices = 0 /\ events = 0

-----------------------------------------------------------------------------
(* Transport.                                                              *)

Clear(s) ==
  [s EXCEPT !.operationState = "UNKNOWN", !.repeatCount = 0, !.frame = NoFrame,
            !.acknowledgements = 0, !.responsePending = FALSE]

\* Counting on gives a number that no frame has which is still on its way.
FreshNumber(s) ==
  LET used == {s.pendingIndex, rx.frame.number} \union {toRadio[n].number : n \in 1 .. Len(toRadio)}
      fresh == (0 .. Numbers - 1) \ used
  IN CHOOSE n \in fresh : \A m \in fresh : n <= m

\* A request is retained until its answer, anything else is sent once.
PutFrame(s, command, arg, answered) ==
  [s EXCEPT !.operationState = IF answered THEN "AWAITING" ELSE "IDLE", !.repeatCount = 0,
            !.pendingIndex = FreshNumber(s), !.pendingCommand = command,
            !.frame = [command |-> command, arg |-> arg]]

SkipFrame(s) == [s EXCEPT !.frame = NoFrame]

\* Fault: any answer to the command completes the request.
AnswersCommand(s, f) == s.operationState = "AWAITING" /\ f.command = s.pendingCommand

Answers(s, f) ==
  /\ s.operationState = "AWAITING"
  /\ f.number = s.pendingIndex /\ f.command = s.pendingCommand

AnswerWaits ==
  Answers(link, rx.frame) \/ \E n \in 1 .. Len(toRadio) : Answers(link, toRadio[n])

-----------------------------------------------------------------------------
(* The RF module.                                                          *)

Event(more) == events + more <= MaxEvents /\ events' = events + more

Reply(f, arg) ==
  toRadio' = Append(toRadio, [command |-> f.command, number |-> link'.pendingIndex, arg |-> arg])

Complete(pages) == \A p \in Pages : pages[p] # <<>>

\* The first page starts a new batch; a page that does not exist is ignored.
TakesPage(f) ==
  LET p == f.arg[1] IN
  /\ p \in Pages
  /\ module' = [module EXCEPT
       !.pages = [q \in Pages |-> IF q = p THEN f.arg ELSE IF p = 0 THEN <<>> ELSE @[q]],
       !.restarted = @ /\ p # 0]

Accepts(f) ==
  CASE f.command = "READY" -> UNCHANGED module
    [] f.command = "MODE" -> module' = [module EXCEPT !.run = f.arg[1]]
    [] f.command = "CONFIG" -> TakesPage(f)
    [] OTHER -> UNCHANGED module

\* Of the pages only the batch can be refused.
Refusable(f) == f.command \in {"MODE", "APPLY"} \/ (f.command = "CONFIG" /\ f.arg[1] = 3)

\* A request is answered, unless the module refuses it; the answer may be incomplete.
Answered(f) ==
  /\ f.command \in {"READY", "MODE", "CONFIG", "APPLY", "STATE"}
  /\ f.command = "READY" \/ module.up
  /\ \/ /\ Accepts(f)
        /\ Reply(f, <<CASE f.command = "READY" -> module.up
                        [] f.command \in {"CONFIG", "APPLY"} -> Complete(module'.pages)
                        [] OTHER -> TRUE>>)
        /\ UNCHANGED events
     \/ Accepts(f) /\ Event(1) /\ Reply(f, <<>>)
     \/ Refusable(f) /\ Event(1) /\ Reply(f, <<FALSE>>) /\ UNCHANGED module

\* Channels and the standby after a failure have no answer, nor has a module that
\* starts up or a page it does not know.
Unanswered(f) ==
  /\ \/ ~module.up /\ f.command # "READY"
     \/ f.command = "CHANNELS" \/ f.command = "STOP"
     \/ f.command = "CONFIG" /\ f.arg[1] \notin Pages
  /\ module' = IF f.command = "STOP" THEN [module EXCEPT !.run = FALSE] ELSE module
  /\ UNCHANGED <<toRadio, events>>

Lost == Event(1) /\ UNCHANGED <<toRadio, module>>

ModuleStarts ==
  /\ ~module.up
  /\ module' = [module EXCEPT !.up = TRUE]
  /\ UNCHANGED <<link, rx, toRadio, bindMode, model, crossed, choices, events>>

ModuleRestarts ==
  /\ module.up /\ Event(1)
  /\ module' = [up |-> FALSE, run |-> FALSE, pages |-> [p \in Pages |-> <<>>],
                restarted |-> module.restarted \/ Complete(module.pages)]
  /\ UNCHANGED <<link, rx, toRadio, bindMode, model, crossed, choices>>

\* The mixer gets in between while a frame waits or is handled.
HoldUp ==
  /\ rx.at # "idle" \/ toRadio # <<>>
  /\ ~rx.held /\ Event(1)
  /\ rx' = [rx EXCEPT !.held = TRUE]
  /\ UNCHANGED <<link, toRadio, module, bindMode, model, crossed, choices>>

\* Its state, the receiver that was bound, a page it misses.
ModuleNotifies ==
  /\ module.up /\ Len(toRadio) < MaxReplies /\ Event(1)
  /\ \E command \in {"NOTIFY", "LEARNED", "PAGE"}, good \in BOOLEAN :
       /\ command # "NOTIFY" => good
       /\ toRadio' = Append(toRadio, [command |-> command, number |-> -1, arg |-> <<good>>])
  /\ UNCHANGED <<link, rx, module, bindMode, model, crossed, choices>>

-----------------------------------------------------------------------------
(* The user.                                                               *)

ToggleBind ==
  /\ choices < MaxChoices /\ choices' = choices + 1
  /\ bindMode' = ~bindMode
  /\ UNCHANGED <<link, rx, toRadio, module, model, crossed, events>>

\* Failsafe, channels or telemetry, possibly back to what they were.
EditModel ==
  /\ choices < MaxChoices /\ choices' = choices + 1
  /\ model' \in Settings \ {model}
  /\ UNCHANGED <<link, rx, toRadio, module, bindMode, crossed, events>>

\* Options of the outputs; what they are is left out.
EditOptions ==
  /\ ~link.dirty /\ Event(1)
  /\ link' = [link EXCEPT !.dirty = TRUE]
  /\ UNCHANGED <<rx, toRadio, module, bindMode, model, crossed, choices>>

-----------------------------------------------------------------------------
(* The mixer: setupNb4Frame(), then sendBuffer().                          *)

\* sendBuffer(): acknowledgements and responses go first.
Send(s) ==
  /\ IF s.acknowledgements > 0
     THEN link' = [s EXCEPT !.acknowledgements = @ - 1] /\ UNCHANGED <<toRadio, module, events>>
     ELSE IF s.responsePending
     THEN link' = [s EXCEPT !.responsePending = FALSE] /\ UNCHANGED <<toRadio, module, events>>
     ELSE /\ link' = s
          /\ IF s.frame = NoFrame THEN UNCHANGED <<toRadio, module, events>>
             ELSE Answered(s.frame) \/ Unanswered(s.frame) \/ Lost

\* nb4Request()
Request(s, command, arg) == PutFrame([s EXCEPT !.pending = command], command, arg, TRUE)

\* nb4Fail(), without the clear() at its end.
FailBegins(s) ==
  [s EXCEPT !.stage = "Failed", !.pending = "STOP", !.error = TRUE]

Fail(s) == Clear(FailBegins(s))

\* The handshake is begun again.
Restart(s) ==
  Clear([s EXCEPT !.stage = "Ready", !.pending = None, !.page = 0, !.readyTries = 0,
                  !.error = FALSE, !.received = FALSE, !.synced = FALSE])

isConnected(s) ==
  ~s.error /\ s.bound /\ s.stage = "Active" /\ (s.binding => s.received) /\ s.synced

\* Entering and leaving the bind mode.
Entered == IF bindMode = link.binding THEN link ELSE Restart([link EXCEPT !.binding = bindMode])

BindTimesOut(s) ==
  link.binding /\ s.binding /\ ~isConnected(s) /\ s.stage # "Failed"

\* Standby is sent by the mixer, once.
Stop(s) ==
  /\ s.stage = "Failed" /\ s.pending = "STOP"
  /\ Send(PutFrame([s EXCEPT !.pending = None], "STOP", <<>>, FALSE))

\* Fault: the failure is latched.
RetryNever(s) == FALSE

RetryDue(s) == ~s.binding

Retry(s) ==
  /\ s.stage = "Failed" /\ s.pending # "STOP" /\ RetryDue(s)
  /\ Send(Restart(s))

Wait(s) ==
  /\ s.stage = "Failed" /\ s.pending # "STOP"
  /\ Send(SkipFrame(s))

\* handleRetransmissions()
Resend(s) ==
  /\ s.stage # "Failed" /\ s.operationState = "AWAITING" /\ s.repeatCount < MaxRetries
  /\ Send([s EXCEPT !.repeatCount = @ + 1])

\* The time for an answer is longer than it takes to handle one, as a rule.
GivesUp(s) ==
  /\ s.operationState = "AWAITING" /\ s.repeatCount >= MaxRetries
  /\ rx.held \/ ~AnswerWaits

\* Fault: the limit is only met after it is passed.
TriedOutLate(s) == s.readyTries > MaxReadyTries

TriedOut(s) == s.readyTries + 1 >= MaxReadyTries

\* The module may take its time to start up, and a lost poll stops no channels.
Forgives(s) ==
  IF s.stage = "Ready" THEN ~TriedOut(s)
  ELSE s.stage = "Active" /\ s.pending = "STATE"

Forgiven(s) ==
  LET c == [Clear(s) EXCEPT !.pending = None] IN
  IF s.stage = "Ready" THEN [c EXCEPT !.readyTries = @ + 1] ELSE [c EXCEPT !.synced = FALSE]

GiveUp(s) ==
  /\ s.stage # "Failed" /\ GivesUp(s) /\ ~Forgives(s)
  /\ Send(Fail(s))

\* nb4Config.page(); of the first page only the operation matters.
Page(p, bind, settings) == <<p, bind, IF p = 0 THEN None ELSE settings>>

SendsPage(s) ==
  Request([s EXCEPT !.sampled = IF s.page = 0 THEN @ ELSE @ \union {model}],
          "CONFIG", Page(s.page, s.binding, model))

\* The next request of the handshake.
Handshake(s) ==
  CASE s.stage = "Ready" -> Request(s, "READY", <<>>)
    [] s.stage = "Standby" -> Request(s, "MODE", <<FALSE>>)
    [] s.stage = "Pages" -> SendsPage(s)
    [] s.stage = "Bind" -> Request(s, "APPLY", <<>>)
    [] s.stage = "Run" -> Request(s, "MODE", <<TRUE>>)

\* What the model has now is noted as applied.
Noted(s) == [s EXCEPT !.applied = model, !.sampled = {model}]

\* Fault: only the options of the outputs are looked at.
OptionsChanged(s) == ~s.binding /\ s.dirty

Changed(s) == ~s.binding /\ (s.dirty \/ s.applied # model)

Saved(s) == IF Changed(s) THEN [Noted(s) EXCEPT !.dirty = FALSE] ELSE s

\* What a bound module runs with is configured again; else the module is polled now
\* and then and gets the channels in between.
Drive(s) ==
  IF Changed(s) /\ s.bound
  THEN Send(Request([Saved(s) EXCEPT !.stage = "Standby", !.page = 0], "MODE", <<FALSE>>))
  ELSE \/ Send(Request(Saved(s), "STATE", <<>>))
       \/ s.bound /\ ~s.binding /\ Send(PutFrame(Saved(s), "CHANNELS", <<>>, FALSE))
       \/ ~(s.bound /\ ~s.binding) /\ Send(SkipFrame(Saved(s)))

Go(s) ==
  /\ s.stage # "Failed"
  /\ s.operationState # "AWAITING" \/ (GivesUp(s) /\ Forgives(s))
  /\ LET t == IF s.operationState = "AWAITING" THEN Forgiven(s) ELSE s
     IN IF t.stage = "Active" THEN Drive(t) ELSE Send(Handshake(t))

Serve(s) == Stop(s) \/ Retry(s) \/ Wait(s) \/ Resend(s) \/ GiveUp(s) \/ Go(s)

\* A tick has room for an answer.  It may interrupt a frame that is held up.  A handshake
\* from its beginning sets right what an answer that was settled late has done.
Tick ==
  /\ Len(toRadio) < MaxReplies
  /\ rx.at = "idle" \/ rx.held
  /\ Serve(Entered) \/ (BindTimesOut(Entered) /\ Serve(Fail(Entered)))
  /\ crossed' = (crossed /\ link'.stage # "Ready")
  /\ UNCHANGED <<rx, bindMode, model, choices>>

-----------------------------------------------------------------------------
(* The receive task: handleReply(), then parseNb4Data().                   *)

At(from, to) == rx.at = from /\ rx' = IF to = "idle" THEN Idle ELSE [rx EXCEPT !.at = to]

Settles(s, to) == link' = s /\ At("taken", to)

\* A refusal: nb4Fail() up to its clear(), which follows.
Refused == Settles(FailBegins(link), "failing")

Short == rx.frame.arg = <<>>

Good == rx.frame.arg = <<TRUE>>

Notice(f) == f.command \in {"NOTIFY", "LEARNED", "PAGE"}

Acknowledge(f) ==
  IF f.command # "PAGE" /\ link.acknowledgements < MaxAcks
  THEN [link EXCEPT !.acknowledgements = @ + 1] ELSE link

Receive ==
  /\ rx.at = "idle" /\ toRadio # <<>>
  /\ toRadio' = Tail(toRadio)
  /\ LET f == Head(toRadio) IN
     \/ Notice(f) /\ link' = Acknowledge(f) /\ rx' = [rx EXCEPT !.at = "parse", !.frame = f]
     \/ ~Notice(f) /\ Answers(link, f) /\ UNCHANGED link
        /\ rx' = [rx EXCEPT !.at = "matching", !.frame = f, !.stage = link.stage]
     \/ ~Notice(f) /\ ~Answers(link, f) /\ rx' = Idle /\ UNCHANGED link

Match == At("matching", "parse") /\ link' = [link EXCEPT !.operationState = "IDLE"]

\* A report of the module's state, an answer to a poll or not.
ParseState ==
  /\ rx.frame.command \in {"STATE", "NOTIFY"} /\ ~Short /\ At("parse", "idle")
  /\ link' = [link EXCEPT !.synced = Good,
                          !.pending = IF rx.frame.command = "STATE" THEN None ELSE @]

\* acceptReceiver(), unless it comes late.
ParseLearned ==
  /\ rx.frame.command = "LEARNED" /\ At("parse", "idle")
  /\ link' = IF bindMode /\ link.binding /\ link.stage \in {"Bind", "Active"}
             THEN [link EXCEPT !.bound = TRUE, !.received = TRUE] ELSE link

\* queueResponse()
ParsePage ==
  /\ rx.frame.command = "PAGE" /\ At("parse", "idle")
  /\ link' = [link EXCEPT !.responsePending = TRUE]

Handshaking == {"READY", "MODE", "CONFIG", "APPLY"}

ParseAnswer ==
  /\ rx.frame.command \in Handshaking \/ (rx.frame.command = "STATE" /\ Short)
  /\ At("parse", IF rx.frame.command = link.pending THEN "matched" ELSE "idle")
  /\ UNCHANGED link

Take ==
  /\ At("matched", IF rx.frame.command = "CONFIG" /\ ~Short THEN "counting" ELSE "taken")
  /\ link' = [link EXCEPT !.pending = None]

SettleReady ==
  /\ rx.frame.command = "READY"
  /\ \/ ~Good /\ TriedOut(link) /\ Refused
     \/ ~Good /\ ~TriedOut(link) /\ Settles([link EXCEPT !.readyTries = @ + 1], "idle")
     \/ Good /\ Settles([link EXCEPT !.stage = "Standby", !.synced = FALSE], "idle")

SettleMode ==
  /\ rx.frame.command = "MODE"
  /\ \/ ~Good /\ Refused
     \/ Good /\ link.stage = "Standby"
        /\ Settles([Noted(link) EXCEPT !.synced = FALSE, !.page = 0,
                     !.stage = IF link.binding \/ link.bound THEN "Pages" ELSE "Active"], "idle")
     \/ Good /\ link.stage = "Run"
        /\ Settles([link EXCEPT !.synced = FALSE, !.stage = "Active"], "idle")
     \/ Good /\ link.stage \notin {"Standby", "Run"} /\ Settles(link, "idle")

SettlePage ==
  /\ At("counting", IF link.page = 3 THEN "counted" ELSE "idle")
  /\ link' = [link EXCEPT !.page = @ + 1]

SettleBind ==
  /\ rx.frame.command = "APPLY"
  /\ \/ ~Good /\ Refused
     \/ Good /\ Settles([link EXCEPT !.stage = "Active"], "idle")

\* An incomplete answer fails whatever it answers.
Settle == (Short /\ Refused) \/ (~Short /\ (SettleReady \/ SettleMode \/ SettleBind))

\* Fault: what the module says of the batch is not looked at.
WholeAlways == TRUE

\* The answer to the fourth page says whether the module has them all.
Whole == Good

Batch ==
  \/ At("counted", "failing") /\ ~Whole /\ link' = FailBegins(link)
  \/ At("counted", "idle") /\ Whole
     /\ link' = [link EXCEPT !.stage = IF link.binding THEN "Bind" ELSE "Run", !.dirty = FALSE]

FailEnds == At("failing", "idle") /\ link' = Clear(link)

Handle ==
  \/ Match \/ ParseState \/ ParseLearned \/ ParsePage \/ ParseAnswer \/ Take
  \/ Settle \/ SettlePage \/ Batch \/ FailEnds

\* The command is found pending and the answer settled for the stage that is found then.
SettledLate == rx.at \in {"taken", "counting", "counted"} /\ link.stage # rx.stage

ReceiveTask ==
  /\ Receive \/ (Handle /\ UNCHANGED toRadio)
  /\ crossed' = (crossed \/ SettledLate)
  /\ UNCHANGED <<module, bindMode, model, choices, events>>

Next ==
  \/ ToggleBind \/ EditModel \/ EditOptions
  \/ ModuleStarts \/ ModuleRestarts \/ ModuleNotifies \/ HoldUp
  \/ Tick \/ ReceiveTask

Spec == Init /\ [][Next]_vars

\* The mixer ticks, the receive task goes on, the module starts up and the delay of a
\* retry ends.
FairSpec ==
  /\ Spec
  /\ WF_vars(Tick) /\ WF_vars(ReceiveTask) /\ WF_vars(ModuleStarts)
  /\ WF_vars(link.stage = "Failed" /\ Tick /\ link'.stage = "Ready")

-----------------------------------------------------------------------------
(* Properties.                                                             *)

Commands == {"READY", "MODE", "CONFIG", "APPLY", "STATE"}

\* The types of the transport and of the handshake; retries, tries and acknowledgements
\* stay within their limits.
TypeOK ==
  /\ link.operationState \in {"UNKNOWN", "AWAITING", "IDLE"}
  /\ link.pendingIndex \in 0 .. Numbers - 1
  /\ link.repeatCount \in 0 .. MaxRetries
  /\ link.acknowledgements \in 0 .. MaxAcks
  /\ link.stage \in {"Ready", "Standby", "Pages", "Bind", "Run", "Active", "Failed"}
  /\ link.pending \in Commands \union {None, "STOP"}
  /\ link.page \in 0 .. 5 /\ link.readyTries \in 0 .. MaxReadyTries
  /\ rx.at \in {"idle", "matching", "parse", "matched", "taken", "counting", "counted", "failing"}
  /\ model \in Settings /\ link.applied \in link.sampled /\ link.sampled \subseteq Settings
  /\ crossed \in BOOLEAN
  /\ Len(toRadio) <= MaxReplies

\* Settings that were edited while the pages were sent, and edited back before the module
\* ran, look like the ones noted: a page of the others stays in the module.
Mixed(s) == s.sampled # {s.applied}

\* Channels are only sent to a module that runs with four pages of one operation, all of
\* them of the settings that the model has, unless they are Mixed; and a bind is only asked
\* for when the module has the four pages of a bind: setupNb4Frame() relies on the answers
\* that parseNb4Data() has counted.  A module that restarted may have lost them, and a
\* handshake may have got its stage from an answer to another stage, settled after a tick
\* began the one it is in: in between the code has no protection.
ConfiguredForUse ==
  [][Tick /\ ~module.restarted /\ ~crossed =>
       /\ link'.frame.command = "CHANNELS" =>
            /\ module.run
            /\ \A p \in Pages :
                 \/ module.pages[p] = Page(p, FALSE, model)
                 \/ Mixed(link') /\ \E s \in link'.sampled : module.pages[p] = Page(p, FALSE, s)
       /\ link'.frame.command = "APPLY" =>
            \A p \in Pages : \E s \in link'.sampled : module.pages[p] = Page(p, TRUE, s)]_vars

\* The pages of a configuration are only sent to a module that stands by, whichever
\* answers came twice or late (handleReply()), with the same exception.
PagesInStandby == ~crossed /\ link.frame.command = "CONFIG" => ~module.run

\* Unless the user binds, the link is in use again and again: no failure of the module
\* is latched (setupNb4Frame(), "Retry the handshake").
LinkComesUp == []<>(bindMode \/ link.stage = "Active")
=============================================================================
