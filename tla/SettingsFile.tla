----------------------------- MODULE SettingsFile -----------------------------
(***************************************************************************)
(* One file of settings: how a save replaces it (replaceYamlFile(),        *)
(* sdcard_yaml.cpp) and how a start takes it up, for the settings of the   *)
(* radio (loadRadioSettingsYaml()) or for a model                          *)
(* (nb4ValidateModelFile(), nb4_model_compat.cpp).                         *)
(*                                                                         *)
(* Each call of the file system is a step.  It may fail, with or without   *)
(* having done its work, and power may be lost before or after it.  A      *)
(* text has a checksum or a structure: one that was cut short, or that the *)
(* card no longer returns, is unreadable, and is Torn here.                *)
(***************************************************************************)
CONSTANTS
  Contents,   \* the settings that may be saved
  Default,    \* those of a formatted radio, or of a new model
  Missing,    \* no such file
  Torn        \* a file that cannot be read

ASSUME FileAssumption ==
  /\ Default \in Contents /\ Missing \notin Contents /\ Torn \notin Contents
  /\ Missing # Torn

VARIABLES
  model,                        \* the file is a model, not the settings of the radio
  decays,                       \* the card may lose files that were written
  main, previous, temporary,    \* the file, path.previous and path.tmp
  at,                           \* the next call
  writing,                      \* the settings being saved
  trouble,                      \* a call of this start failed
  possible, found, damaged      \* history: the DurableRegister that this implements

files == <<main, previous, temporary>>
history == <<possible, found, damaged>>
kinds == <<model, decays>>
vars == <<kinds, files, at, writing, trouble, history>>

Names == Contents \union {Missing, Torn}

Readable(file) == file \in Contents

Init ==
  /\ model \in BOOLEAN /\ decays \in BOOLEAN
  /\ main = Missing /\ previous = Missing /\ temporary = Missing
  /\ at = "off" /\ writing = Default /\ trouble = FALSE
  /\ possible = {Missing} /\ found = Missing /\ damaged = FALSE

Step(from, to) == at = from /\ at' = to

-----------------------------------------------------------------------------
(* A save.                                                                 *)

BeginSave(c) ==
  /\ Step("idle", "write") /\ writing' = c
  /\ possible' = possible \union {c}
  /\ UNCHANGED <<files, trouble, found, damaged>>

Failed == at' = "idle" /\ UNCHANGED history

\* The temporary file is truncated, written and closed.
WriteTemporary ==
  /\ at = "write"
  /\ \/ temporary' = writing /\ at' = "present" /\ UNCHANGED history
     \/ temporary' \in {temporary, Torn, writing} /\ Failed
  /\ UNCHANGED <<main, previous, writing, trouble>>

\* replaceYamlFile() asks whether there is a file.
Present ==
  /\ at = "present"
  /\ (at' = (IF main = Missing THEN "into" ELSE "unlink") /\ UNCHANGED history) \/ Failed
  /\ UNCHANGED <<files, writing, trouble>>

UnlinkPrevious ==
  /\ at = "unlink"
  /\ \/ previous' = Missing /\ at' = "away" /\ UNCHANGED history
     \/ previous' \in {previous, Missing} /\ Failed
  /\ UNCHANGED <<main, temporary, writing, trouble>>

\* main is renamed to previous.
MoveAway ==
  /\ at = "away"
  /\ \/ /\ previous' = main /\ main' = Missing
        /\ \/ at' = "into" /\ UNCHANGED history
           \/ Failed
     \/ UNCHANGED <<main, previous>> /\ Failed
  /\ UNCHANGED <<temporary, writing, trouble>>

Acknowledged == at' = "idle" /\ possible' = {writing} /\ UNCHANGED <<found, damaged>>

\* Fault: nobody looks at the result of the last rename.
MoveIntoUnchecked ==
  /\ at = "into" /\ Acknowledged
  /\ \/ main = Missing /\ main' = temporary /\ temporary' = Missing
     \/ UNCHANGED <<main, temporary>>
  /\ UNCHANGED <<previous, writing, trouble>>

\* temporary is renamed to main.  A rename onto a file that exists fails.
MoveInto ==
  /\ at = "into"
  /\ \/ /\ main = Missing
        /\ main' = temporary /\ temporary' = Missing
        /\ \/ Acknowledged
           \/ at' = "back" /\ UNCHANGED history
     \/ at' = "back" /\ UNCHANGED <<main, temporary, history>>
  /\ UNCHANGED <<previous, writing, trouble>>

\* previous is renamed to main again, if it can be.
MoveBack ==
  /\ at = "back" /\ Failed
  /\ \/ main = Missing /\ main' = previous /\ previous' = Missing
     \/ UNCHANGED <<main, previous>>
  /\ UNCHANGED <<temporary, writing, trouble>>

Save == WriteTemporary \/ Present \/ UnlinkPrevious \/ MoveAway \/ MoveInto \/ MoveBack

-----------------------------------------------------------------------------
(* A start.                                                                *)

Loads(c, alert) ==
  /\ at' = "idle"
  /\ found' = c /\ damaged' = alert
  /\ possible' = IF alert THEN possible ELSE {c}

\* The settings of the radio are formatted, and saved next.
Erased ==
  /\ at' = "format"
  /\ found' = Default /\ damaged' = TRUE /\ UNCHANGED possible

\* Fault: an interrupted save is not looked for.
NoInterruptedSave == FALSE

InterruptedSave == main = Missing /\ previous # Missing

\* What an interrupted save left under its other name is taken back.
PowerUp ==
  /\ at = "off"
  /\ IF InterruptedSave
     THEN \/ /\ main' = previous /\ previous' = Missing
             /\ at' = "load" /\ UNCHANGED <<trouble, history>>
          \/ /\ UNCHANGED <<main, previous>> /\ trouble' = TRUE
             /\ \/ at' = "load" /\ UNCHANGED history
                \/ model /\ at' = "blocked" /\ UNCHANGED history
                \/ ~model /\ Erased
     ELSE at' = "load" /\ UNCHANGED <<main, previous, trouble, history>>
  /\ UNCHANGED <<temporary, writing>>

LoadMain ==
  /\ at = "load" /\ Readable(main)
  /\ Loads(main, FALSE)
  /\ UNCHANGED <<files, writing, trouble>>

\* Fault: an unreadable model is taken for a new one.
ModelReplaced ==
  /\ model /\ at = "load" /\ ~Readable(main)
  /\ Loads(Default, TRUE)
  /\ UNCHANGED <<files, writing, trouble>>

\* A model that cannot be read stays as it is, and nothing is saved over it; one that
\* is not there is new.
ModelUnreadable ==
  /\ model /\ at = "load" /\ ~Readable(main)
  /\ IF main = Missing THEN Loads(Default, TRUE)
     ELSE at' = "blocked" /\ UNCHANGED history
  /\ UNCHANGED <<files, writing, trouble>>

\* The unreadable settings of the radio are kept under a name of their own.
PutAside ==
  /\ ~model /\ at = "load" /\ ~Readable(main)
  /\ main' \in {main, Missing} /\ at' = "temporary"
  /\ UNCHANGED <<previous, temporary, writing, trouble, history>>

\* Fault: the checksum of the temporary file is not looked at.
LoadTemporaryAny ==
  /\ at = "temporary"
  /\ at' = IF temporary # Missing THEN "adopt" ELSE "previous"
  /\ UNCHANGED <<files, writing, trouble, history>>

LoadTemporary ==
  /\ at = "temporary"
  /\ at' = IF Readable(temporary) THEN "adopt" ELSE "previous"
  /\ UNCHANGED <<files, writing, trouble, history>>

\* Fault: only the temporary file is tried.
LoadPreviousNever ==
  /\ at = "previous" /\ Erased
  /\ UNCHANGED <<files, writing, trouble>>

LoadPrevious ==
  /\ at = "previous"
  /\ IF Readable(previous) THEN at' = "copy" /\ UNCHANGED history ELSE Erased
  /\ UNCHANGED <<files, writing, trouble>>

CopyPrevious ==
  /\ at = "copy"
  /\ \/ temporary' = previous /\ at' = "adopt" /\ UNCHANGED <<trouble, history>>
     \/ temporary' \in {temporary, Torn, previous} /\ Erased /\ trouble' = TRUE
  /\ UNCHANGED <<main, previous, writing>>

\* An unreadable file that could not be put aside is removed, and the temporary file
\* renamed to main.
Adopt ==
  /\ at = "adopt"
  /\ \/ /\ main' = temporary /\ temporary' = Missing
        /\ Loads(temporary, TRUE) /\ UNCHANGED trouble
     \/ /\ main' \in {main, Missing} /\ UNCHANGED temporary
        /\ Erased /\ trouble' = TRUE
     \/ /\ main' = temporary /\ temporary' = Missing
        /\ Erased /\ trouble' = TRUE
  /\ UNCHANGED <<previous, writing>>

\* storageEraseAll(); in emergency mode nothing is written.
Format ==
  /\ at = "format"
  /\ \/ /\ at' = "write" /\ writing' = Default
        /\ possible' = possible \union {Default}
     \/ at' = "idle" /\ UNCHANGED <<writing, possible>>
  /\ UNCHANGED <<files, trouble, found, damaged>>

Start ==
  \/ PowerUp \/ LoadMain \/ ModelUnreadable \/ PutAside
  \/ LoadTemporary \/ LoadPrevious \/ CopyPrevious \/ Adopt \/ Format

-----------------------------------------------------------------------------
\* Power is lost: a file that is being written may be torn.
PowerLoss ==
  /\ at # "off" /\ at' = "off" /\ trouble' = FALSE
  /\ temporary' \in {temporary} \union (IF at \in {"write", "copy"} THEN {Torn} ELSE {})
  /\ main' \in {main} \union (IF at = "adopt" THEN {Missing} ELSE {})
  /\ UNCHANGED <<previous, writing, history>>

\* The card no longer returns a file.
Decay ==
  /\ decays /\ at = "off"
  /\ \/ main # Missing /\ main' = Torn /\ UNCHANGED <<previous, temporary>>
     \/ previous # Missing /\ previous' = Torn /\ UNCHANGED <<main, temporary>>
     \/ temporary # Missing /\ temporary' = Torn /\ UNCHANGED <<main, previous>>
  /\ UNCHANGED <<at, writing, trouble, history>>

Next ==
  /\ UNCHANGED kinds
  /\ \/ \E c \in Contents : BeginSave(c)
     \/ Save \/ Start \/ PowerLoss \/ Decay

Spec == Init /\ [][Next]_vars

-----------------------------------------------------------------------------
(* Properties.                                                             *)

Steps == {"off", "load", "temporary", "previous", "copy", "adopt", "format", "blocked", "idle",
          "write", "present", "unlink", "away", "into", "back"}

\* The types of the variables; what a start takes up is settings, never a torn text.
TypeOK ==
  /\ model \in BOOLEAN /\ decays \in BOOLEAN
  /\ main \in Names /\ previous \in Names /\ temporary \in Names
  /\ at \in Steps /\ writing \in Contents /\ trouble \in BOOLEAN
  /\ possible \subseteq Contents \union {Missing}
  /\ found \in Contents \union {Missing} /\ damaged \in BOOLEAN

\* On a card that keeps its files they implement one durable value: whatever calls fail
\* and wherever power is lost, a start without an alert takes up the settings that were
\* saved last, or some that were being saved since (replaceYamlFile(),
\* loadRadioSettingsYaml()).  A card that decays is mapped to a register nobody uses.
Register == INSTANCE DurableRegister WITH
  possible <- IF decays THEN {Missing} ELSE possible,
  found <- IF decays THEN Missing ELSE found,
  damaged <- IF decays THEN FALSE ELSE damaged
RegisterSpec == Register!Spec

\* The calls that end a start.
Ends == at \in {"off", "load", "previous", "copy", "adopt"} /\ at' \in {"idle", "format"}

\* Once settings have been saved on such a card, every later start takes up settings
\* without an alert, unless one of its own calls fails.
SavedIsTaken == [][Ends /\ ~decays /\ ~trouble' /\ Missing \notin possible => ~damaged']_vars

\* The radio is only formatted when none of its files can be read, even when files have
\* been damaged and power was lost during a recovery, unless a call failed as well.
FormattedAsLastResort ==
  at = "format" /\ ~trouble => ~\E file \in {main, previous, temporary} : Readable(file)

\* A model that cannot be read is not replaced ("original file preserved",
\* nb4_model_compat.cpp:174), unless a call of the start failed as well.
OriginalPreserved == [][model /\ main = Torn /\ ~trouble => main' = Torn]_vars
=============================================================================
