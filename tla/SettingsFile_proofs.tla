-------------------------- MODULE SettingsFile_proofs --------------------------
(***************************************************************************)
(* Proofs about SettingsFile, for any set of settings.                     *)
(*                                                                         *)
(* Sound is inductive on a card that keeps its files: it says which of the *)
(* three names hold settings that a start may take up, by what the next    *)
(* call is.  Typed, Order and Original are inductive on any card.          *)
(***************************************************************************)
EXTENDS SettingsFile, TLAPS

Saving == {"write", "present", "unlink", "away", "into", "back"}
Recovering == {"temporary", "previous", "copy", "adopt"}

\* What the next call finds.
Phase ==
  /\ at \in Saving => writing \in possible
  /\ at \in {"present", "unlink", "away", "into"} => temporary = writing
  /\ at \in {"unlink", "away"} => main # Missing
  /\ at = "into" => main = Missing
  /\ at \in Recovering => main = Missing /\ ~model
  /\ at = "adopt" => Readable(temporary)
  /\ at = "copy" => Readable(previous)
  /\ at = "load" /\ ~trouble => ~InterruptedSave
  /\ at \in Recovering /\ ~trouble => previous = Missing

\* A file that a start would take up holds settings that the register may have.
Copies ==
  /\ main # Torn /\ previous # Torn
  /\ main # Missing => main \in possible
  /\ main = Missing => /\ previous # Missing => previous \in possible
                       /\ Readable(temporary) => temporary \in possible

\* Saved settings are never without a file.
Kept == Missing \notin possible => main # Missing \/ previous # Missing

Sound == TypeOK /\ Phase /\ Copies /\ Kept

\* A file stays one of a model or of the radio, and a card one that decays or does not.
LEMMA KindsFixed == [Next]_vars => UNCHANGED kinds
BY DEF Next, vars

-----------------------------------------------------------------------------
(* Files that stay as they were written.                                   *)

\* An empty card is sound.
LEMMA InitSound == Init => Sound
BY FileAssumption DEF Init, Sound, TypeOK, Phase, Copies, Kept, Names, Steps, Saving, Recovering,
   Readable, InterruptedSave, kinds

\* Beginning a save adds its settings to those that a start may take up.
LEMMA BeginKeeps ==
  ASSUME Sound, UNCHANGED kinds, NEW c \in Contents, BeginSave(c)
  PROVE  Sound'
BY FileAssumption DEF BeginSave, Step, Sound, TypeOK, Phase, Copies, Kept, Names, Steps, Saving,
   Recovering, Readable, InterruptedSave, files, kinds

\* The temporary file is written, or is left in any state.
LEMMA WriteTemporaryKeeps == Sound /\ UNCHANGED kinds /\ WriteTemporary => Sound'
BY FileAssumption DEF WriteTemporary, Failed, Sound, TypeOK, Phase, Copies, Kept, Names, Steps,
   Saving, Recovering, Readable, InterruptedSave, history, kinds

\* The renames of a save keep a file that a start may take up under one of the names.
LEMMA ReplaceKeeps ==
  Sound /\ UNCHANGED kinds /\ (Present \/ UnlinkPrevious \/ MoveAway \/ MoveInto \/ MoveBack)
    => Sound'
<1> SUFFICES ASSUME Sound, UNCHANGED kinds,
                    Present \/ UnlinkPrevious \/ MoveAway \/ MoveInto \/ MoveBack
             PROVE  Sound'
  OBVIOUS
<1> USE FileAssumption DEF Failed, Sound, TypeOK, Phase, Copies, Kept, Names, Steps,
        Saving, Recovering, Readable, InterruptedSave, files, history, kinds
<1>1. CASE Present
  BY <1>1 DEF Present
<1>2. CASE UnlinkPrevious
  BY <1>2 DEF UnlinkPrevious
<1>3. CASE MoveAway
  BY <1>3 DEF MoveAway
<1>4. CASE MoveInto
  BY <1>4 DEF MoveInto, Acknowledged
<1>5. CASE MoveBack
  BY <1>5 DEF MoveBack
<1> QED
  BY <1>1, <1>2, <1>3, <1>4, <1>5

\* A start takes up settings, or goes on to the next place to look for them.
LEMMA StartKeeps == Sound /\ UNCHANGED kinds /\ Start => Sound'
<1> SUFFICES ASSUME Sound, UNCHANGED kinds, Start PROVE Sound'
  OBVIOUS
<1> USE FileAssumption DEF Loads, Erased, Sound, TypeOK, Phase, Copies, Kept, Names, Steps,
        Saving, Recovering, Readable, InterruptedSave, files, history, kinds
<1>1. CASE PowerUp
  <2>1. CASE ~InterruptedSave
    BY <1>1, <2>1 DEF PowerUp
  <2>2. CASE InterruptedSave /\ main' = previous /\ previous' = Missing
    <3>1. main' # Missing /\ main' \in possible /\ main' \in Names
      BY <2>2
    <3>2. at' = "load" /\ UNCHANGED <<temporary, writing, possible, found, damaged>>
      BY <1>1, <2>2 DEF PowerUp
    <3>3. trouble' \in BOOLEAN
      BY <1>1, <2>2 DEF PowerUp
    <3> QED
      BY <2>2, <3>1, <3>2, <3>3
  <2>3. CASE InterruptedSave /\ UNCHANGED <<main, previous>>
    BY <1>1, <2>3 DEF PowerUp
  <2> QED
    BY <1>1, <2>1, <2>2, <2>3 DEF PowerUp
<1>2. CASE LoadMain
  BY <1>2 DEF LoadMain
<1>3. CASE ModelUnreadable
  BY <1>3 DEF ModelUnreadable
<1>4. CASE PutAside
  BY <1>4 DEF PutAside
<1>5. CASE LoadTemporary
  BY <1>5 DEF LoadTemporary
<1>6. CASE LoadPrevious
  BY <1>6 DEF LoadPrevious
<1>7. CASE CopyPrevious
  BY <1>7 DEF CopyPrevious
<1>8. CASE Adopt
  BY <1>8 DEF Adopt
<1>9. CASE Format
  BY <1>9 DEF Format
<1> QED
  BY <1>1, <1>2, <1>3, <1>4, <1>5, <1>6, <1>7, <1>8, <1>9 DEF Start

\* Power may be lost at any call.
LEMMA PowerLossKeeps == Sound /\ UNCHANGED kinds /\ PowerLoss => Sound'
BY FileAssumption DEF PowerLoss, Sound, TypeOK, Phase, Copies, Kept, Names, Steps, Saving,
   Recovering, Readable, InterruptedSave, history, kinds

\* Every step of a save or a start, and a power loss at any of them, keeps Sound.
LEMMA StepSound == ~decays /\ Sound /\ [Next]_vars => Sound'
<1> SUFFICES ASSUME ~decays, Sound, [Next]_vars PROVE Sound'
  OBVIOUS
<1>1. CASE UNCHANGED vars
  BY <1>1 DEF vars, kinds, files, history, Sound, TypeOK, Phase, Copies, Kept, Readable, InterruptedSave
<1>2. CASE UNCHANGED kinds /\ \E c \in Contents : BeginSave(c)
  BY <1>2, BeginKeeps
<1>3. CASE UNCHANGED kinds /\ Save
  BY <1>3, WriteTemporaryKeeps, ReplaceKeeps DEF Save
<1>4. CASE UNCHANGED kinds /\ Start
  BY <1>4, StartKeeps
<1>5. CASE UNCHANGED kinds /\ PowerLoss
  BY <1>5, PowerLossKeeps
<1> QED
  BY <1>1, <1>2, <1>3, <1>4, <1>5 DEF Next, Decay

-----------------------------------------------------------------------------
(* The register.                                                           *)

Plain == INSTANCE DurableRegister

registerVars == <<possible, found, damaged>>
mappedVars ==
  <<IF decays THEN {Missing} ELSE possible, IF decays THEN Missing ELSE found,
    IF decays THEN FALSE ELSE damaged>>

\* A call that leaves the history alone is no step of the register.
LEMMA Stutters == UNCHANGED history => [Plain!Next]_registerVars
BY DEF history, registerVars

\* Formatting the radio is a start that cannot be trusted.
LEMMA ErasedMaps == Erased => [Plain!Next]_registerVars
<1> SUFFICES ASSUME Erased PROVE Plain!RestartDamaged(Default)
  BY FileAssumption DEF Plain!Next
<1> QED
  BY DEF Erased, Plain!RestartDamaged

\* A call of a save is an acknowledgement or no step of the register.
LEMMA SaveMaps == Sound /\ Save => [Plain!Next]_registerVars
<1> SUFFICES ASSUME Sound, Save PROVE [Plain!Next]_registerVars
  OBVIOUS
<1>1. CASE WriteTemporary \/ Present \/ UnlinkPrevious \/ MoveAway \/ MoveBack
  <2>1. UNCHANGED history
    BY <1>1 DEF WriteTemporary, Present, UnlinkPrevious, MoveAway, MoveBack, Failed
  <2> QED
    BY <2>1, Stutters
<1>2. CASE MoveInto
  <2>1. CASE UNCHANGED history
    BY <2>1, Stutters
  <2>2. CASE Acknowledged
    <3>1. writing \in Contents /\ writing \in possible
      BY <1>2 DEF MoveInto, Sound, TypeOK, Phase, Saving
    <3>2. Plain!Acknowledge(writing)
      BY <2>2, <3>1 DEF Acknowledged, Plain!Acknowledge
    <3> QED
      BY <3>1, <3>2 DEF Plain!Next
  <2> QED
    BY <1>2, <2>1, <2>2 DEF MoveInto
<1> QED
  BY <1>1, <1>2 DEF Save

\* A start is a restart of the register, or no step of it yet.
LEMMA StartMaps == Sound /\ Start => [Plain!Next]_registerVars
<1> SUFFICES ASSUME Sound, Start PROVE [Plain!Next]_registerVars
  OBVIOUS
<1>1. CASE PowerUp \/ PutAside \/ LoadTemporary \/ LoadPrevious \/ CopyPrevious
  <2>1. UNCHANGED history \/ Erased
    BY <1>1 DEF PowerUp, PutAside, LoadTemporary, LoadPrevious, CopyPrevious, history
  <2> QED
    BY <2>1, Stutters, ErasedMaps
<1>2. CASE LoadMain
  <2>1. main \in Contents /\ main \in possible
    BY <1>2, FileAssumption DEF LoadMain, Readable, Sound, Copies
  <2>2. Plain!Restart(main)
    BY <1>2, <2>1 DEF LoadMain, Loads, Plain!Restart
  <2> QED
    BY <2>1, <2>2 DEF Plain!Next
<1>3. CASE ModelUnreadable
  <2>1. CASE UNCHANGED history
    BY <2>1, Stutters
  <2>2. CASE Loads(Default, TRUE)
    <3>1. Plain!RestartDamaged(Default)
      BY <2>2 DEF Loads, Plain!RestartDamaged
    <3> QED
      BY <3>1, FileAssumption DEF Plain!Next
  <2> QED
    BY <1>3, <2>1, <2>2 DEF ModelUnreadable
<1>4. CASE Adopt
  <2>1. CASE Erased
    BY <2>1, ErasedMaps
  <2>2. CASE Loads(temporary, TRUE)
    <3>1. temporary \in Contents
      BY <1>4 DEF Adopt, Sound, Phase, Readable
    <3>2. Plain!RestartDamaged(temporary)
      BY <2>2 DEF Loads, Plain!RestartDamaged
    <3> QED
      BY <3>1, <3>2 DEF Plain!Next
  <2> QED
    BY <1>4, <2>1, <2>2 DEF Adopt
<1>5. CASE Format
  <2>1. UNCHANGED history \/ Plain!Attempt(Default)
    BY <1>5 DEF Format, Plain!Attempt, history
  <2> QED
    BY <2>1, Stutters, FileAssumption DEF Plain!Next
<1> QED
  BY <1>1, <1>2, <1>3, <1>4, <1>5 DEF Start

\* Every step is a step of the register or none.
LEMMA StepMaps == ~decays /\ Sound /\ [Next]_vars => [Plain!Next]_registerVars
<1> SUFFICES ASSUME ~decays, Sound, [Next]_vars PROVE [Plain!Next]_registerVars
  OBVIOUS
<1>1. CASE UNCHANGED vars
  BY <1>1, Stutters DEF vars
<1>2. CASE \E c \in Contents : BeginSave(c)
  <2>1. PICK c \in Contents : BeginSave(c)
    BY <1>2
  <2>2. Plain!Attempt(c)
    BY <2>1 DEF BeginSave, Plain!Attempt
  <2> QED
    BY <2>2 DEF Plain!Next
<1>3. CASE Save
  BY <1>3, SaveMaps
<1>4. CASE Start
  BY <1>4, StartMaps
<1>5. CASE PowerLoss
  BY <1>5, Stutters DEF PowerLoss
<1> QED
  BY <1>1, <1>2, <1>3, <1>4, <1>5 DEF Next, Decay

\* A card that decays is mapped to a register that stays as it is.
LEMMA StepMapped == (~decays => Sound) /\ [Next]_vars => [Register!Next]_mappedVars
<1> SUFFICES ASSUME ~decays => Sound, [Next]_vars PROVE [Register!Next]_mappedVars
  OBVIOUS
<1>1. UNCHANGED decays
  BY KindsFixed DEF kinds
<1>2. CASE decays
  BY <1>1, <1>2 DEF mappedVars
<1>3. CASE ~decays
  <2>1. ~decays'
    BY <1>1, <1>3
  <2>2. [Plain!Next]_registerVars
    BY <1>3, StepMaps
  <2>3. CASE UNCHANGED registerVars
    BY <1>3, <2>1, <2>3 DEF registerVars, mappedVars
  <2>4. CASE Plain!Next
    <3> USE DEF Plain!Next, Plain!Attempt, Plain!Acknowledge, Plain!Restart, Plain!RestartDamaged,
                Register!Next, Register!Attempt, Register!Acknowledge, Register!Restart,
                Register!RestartDamaged
    <3>1. CASE \E c \in Contents : Plain!Attempt(c) \/ Plain!Acknowledge(c)
      BY <1>3, <2>1, <3>1
    <3>2. CASE \E c \in Contents \union {Missing} : Plain!Restart(c) \/ Plain!RestartDamaged(c)
      BY <1>3, <2>1, <3>2
    <3> QED
      BY <2>4, <3>1, <3>2
  <2> QED
    BY <2>2, <2>3, <2>4
<1> QED
  BY <1>2, <1>3

\* A start that ends without a failed call finds saved settings and raises no alert.
LEMMA EndsWithout ==
  ~decays /\ Sound /\ [Next]_vars /\ Ends /\ ~trouble' /\ Missing \notin possible => ~damaged'
<1> SUFFICES ASSUME ~decays, Sound, [Next]_vars, Ends, ~trouble', Missing \notin possible
             PROVE  ~damaged'
  OBVIOUS
<1>1. ~UNCHANGED vars
  BY DEF Ends, vars
<1>2. Start
  BY <1>1 DEF Next, Ends, BeginSave, Step, Save, WriteTemporary, Present, UnlinkPrevious,
              MoveAway, MoveInto, MoveBack, PowerLoss, Decay
<1>3. CASE LoadMain
  BY <1>3 DEF LoadMain, Loads
<1>4. CASE PowerUp
  BY <1>4 DEF PowerUp, Ends
<1>5. CASE ModelUnreadable
  <2>1. ~trouble /\ main = Missing
    BY <1>5 DEF ModelUnreadable, Ends
  <2> QED
    BY <1>5, <2>1 DEF ModelUnreadable, Sound, Phase, Kept, InterruptedSave
<1>6. CASE LoadPrevious \/ CopyPrevious \/ Adopt
  <2>1. at \in Recovering
    BY <1>6 DEF LoadPrevious, CopyPrevious, Adopt, Recovering
  <2>2. trouble
    BY <2>1 DEF Sound, Phase, Kept
  <2> QED
    BY <1>6, <2>2 DEF LoadPrevious, CopyPrevious, Adopt, Sound, TypeOK
<1>7. CASE PutAside \/ LoadTemporary \/ Format
  BY <1>7 DEF PutAside, LoadTemporary, Format, Ends
<1> QED
  BY <1>2, <1>3, <1>4, <1>5, <1>6, <1>7 DEF Start

-----------------------------------------------------------------------------
(* Files that may be damaged.                                              *)

\* What is taken up can be read.
Typed ==
  /\ TypeOK
  /\ at = "adopt" => Readable(temporary)
  /\ at = "copy" => Readable(previous)

\* Only a start takes a text up, and it looks at it first.
LEMMA StepTyped == Typed /\ [Next]_vars => Typed'
<1> SUFFICES ASSUME Typed, [Next]_vars PROVE Typed'
  OBVIOUS
<1> USE FileAssumption DEF Typed, TypeOK, Readable, Names, Steps, files, history, kinds
<1>1. CASE UNCHANGED vars
  BY <1>1 DEF vars
<1>2. CASE Next /\ \E c \in Contents : BeginSave(c)
  BY <1>2 DEF Next, BeginSave, Step
<1>3. CASE Next /\ Save
  <2> USE DEF Next, Failed, Acknowledged
  <2>1. CASE WriteTemporary
    BY <1>3, <2>1 DEF WriteTemporary
  <2>2. CASE Present \/ UnlinkPrevious \/ MoveBack
    BY <1>3, <2>2 DEF Present, UnlinkPrevious, MoveBack
  <2>3. CASE MoveAway \/ MoveInto
    BY <1>3, <2>3 DEF MoveAway, MoveInto
  <2> QED
    BY <1>3, <2>1, <2>2, <2>3 DEF Save
<1>4. CASE Next /\ Start
  <2> USE DEF Next, Loads, Erased
  <2>1. CASE PowerUp
    BY <1>4, <2>1 DEF PowerUp
  <2>2. CASE LoadMain \/ ModelUnreadable \/ PutAside
    BY <1>4, <2>2 DEF LoadMain, ModelUnreadable, PutAside
  <2>3. CASE LoadTemporary \/ LoadPrevious \/ Format
    BY <1>4, <2>3 DEF LoadTemporary, LoadPrevious, Format
  <2>4. CASE CopyPrevious
    BY <1>4, <2>4 DEF CopyPrevious
  <2>5. CASE Adopt
    BY <1>4, <2>5 DEF Adopt
  <2> QED
    BY <1>4, <2>1, <2>2, <2>3, <2>4, <2>5 DEF Start
<1>5. CASE Next /\ (PowerLoss \/ Decay)
  BY <1>5 DEF Next, PowerLoss, Decay
<1> QED
  BY <1>1, <1>2, <1>3, <1>4, <1>5 DEF Next

\* The order in which a start of the radio looks for settings.
Order ==
  /\ at \in {"temporary", "previous", "copy"} => ~Readable(main)
  /\ at \in {"previous", "copy"} => ~Readable(temporary)
  /\ FormattedAsLastResort

\* A start of the radio passes over no readable file.
LEMMA StepOrder == Order /\ [Next]_vars => Order'
<1> SUFFICES ASSUME Order, [Next]_vars PROVE Order'
  OBVIOUS
<1> USE FileAssumption DEF Order, FormattedAsLastResort, Readable
<1>1. CASE UNCHANGED vars
  BY <1>1 DEF vars, files
<1>2. CASE (\E c \in Contents : BeginSave(c)) \/ Save \/ PowerLoss \/ Decay
  <2>1. at' \notin {"temporary", "previous", "copy", "format"}
    BY <1>2 DEF BeginSave, Step, Save, WriteTemporary, Present, UnlinkPrevious, MoveAway,
                MoveInto, MoveBack, Acknowledged, Failed, PowerLoss, Decay
  <2> QED
    BY <2>1
<1>3. CASE Start
  <2>1. CASE PowerUp
    BY <2>1 DEF PowerUp, Erased
  <2>2. CASE LoadMain \/ ModelUnreadable
    BY <2>2 DEF LoadMain, ModelUnreadable, Loads
  <2>3. CASE PutAside
    BY <2>3 DEF PutAside
  <2>4. CASE LoadTemporary
    BY <2>4 DEF LoadTemporary, files
  <2>5. CASE LoadPrevious
    BY <2>5 DEF LoadPrevious, Erased, files
  <2>6. CASE CopyPrevious
    BY <2>6 DEF CopyPrevious, Erased
  <2>7. CASE Adopt
    BY <2>7 DEF Adopt, Erased, Loads
  <2>8. CASE Format
    BY <2>8 DEF Format
  <2> QED
    BY <1>3, <2>1, <2>2, <2>3, <2>4, <2>5, <2>6, <2>7, <2>8 DEF Start
<1> QED
  BY <1>1, <1>2, <1>3 DEF Next

\* An unreadable model is only met before anything may be saved, and its text is not
\* under the other name.
Original ==
  model =>
    /\ at \notin Recovering \union {"format"}
    /\ at \in {"present", "unlink", "away", "into"} => Readable(temporary)
    /\ at = "into" => main = Missing
    /\ writing \in Contents
    /\ at = "load" /\ ~trouble => ~InterruptedSave
    /\ ~trouble /\ at \notin {"off", "load", "blocked"} =>
         main # Torn /\ (main = Missing => previous # Torn)

\* Every step keeps Original, and with it an unreadable model.
LEMMA StepOriginal ==
  Original /\ [Next]_vars => Original' /\ (model /\ main = Torn /\ ~trouble => main' = Torn)
<1> SUFFICES ASSUME Original, [Next]_vars, model
             PROVE  Original' /\ (main = Torn /\ ~trouble => main' = Torn)
  BY KindsFixed DEF Original, kinds
<1> USE FileAssumption DEF Original, Readable, InterruptedSave, Recovering
<1> model'
  BY KindsFixed DEF kinds
<1>1. CASE UNCHANGED vars
  BY <1>1 DEF vars, files
<1>2. CASE \E c \in Contents : BeginSave(c)
  BY <1>2 DEF BeginSave, Step, files
<1>3. CASE Save
  <2>1. CASE WriteTemporary
    BY <2>1 DEF WriteTemporary, Failed
  <2>2. CASE Present
    BY <2>2 DEF Present, Failed, files
  <2>3. CASE UnlinkPrevious
    BY <2>3 DEF UnlinkPrevious, Failed
  <2>4. CASE MoveAway
    BY <2>4 DEF MoveAway, Failed
  <2>5. CASE MoveInto
    BY <2>5 DEF MoveInto, Acknowledged
  <2>6. CASE MoveBack
    BY <2>6 DEF MoveBack, Failed
  <2> QED
    BY <1>3, <2>1, <2>2, <2>3, <2>4, <2>5, <2>6 DEF Save
<1>4. CASE Start
  <2>1. CASE PowerUp
    BY <2>1 DEF PowerUp
  <2>2. CASE LoadMain
    BY <2>2 DEF LoadMain, Loads, files
  <2>3. CASE ModelUnreadable
    BY <2>3 DEF ModelUnreadable, Loads, files
  <2>4. CASE PutAside \/ LoadTemporary \/ LoadPrevious \/ CopyPrevious \/ Adopt \/ Format
    BY <2>4 DEF PutAside, LoadTemporary, LoadPrevious, CopyPrevious, Adopt, Format
  <2> QED
    BY <1>4, <2>1, <2>2, <2>3, <2>4 DEF Start
<1>5. CASE PowerLoss
  BY <1>5 DEF PowerLoss
<1>6. CASE Decay
  BY <1>6 DEF Decay
<1> QED
  BY <1>1, <1>2, <1>3, <1>4, <1>5, <1>6 DEF Next

-----------------------------------------------------------------------------
(* The theorems.                                                           *)

\* On a card that keeps its files, they and the next call fit together in every reachable
\* state of a save or a start, whatever calls fail.
THEOREM SoundAlways == Spec => [](~decays => Sound)
<1>1. (~decays => Sound) /\ [Next]_vars => (~decays => Sound)'
  BY StepSound, KindsFixed DEF kinds
<1> QED
  BY <1>1, InitSound, PTL DEF Spec

\* What a start takes up is settings, never a torn text: every variable keeps its type
\* for every set of settings and on every card.
THEOREM TypeCorrect == Spec => []TypeOK
<1>1. Init => Typed
  BY FileAssumption DEF Init, Typed, TypeOK, Names, Steps
<1>2. Typed => TypeOK
  BY DEF Typed
<1> QED
  BY <1>1, <1>2, StepTyped, PTL DEF Spec

\* On a card that keeps its files they implement one durable value: whatever calls fail
\* and wherever power is lost, a start without an alert takes up the settings that were
\* saved last, or some that were being saved since.
THEOREM ImplementsRegister == Spec => RegisterSpec
<1>1. Init => Register!Init
  BY DEF Init, Register!Init
<1>2. Spec => [][Register!Next]_mappedVars
  BY SoundAlways, StepMapped, PTL DEF Spec
<1>3. RegisterSpec <=> Register!Init /\ [][Register!Next]_mappedVars
  BY DEF RegisterSpec, Register!Spec, mappedVars
<1> QED
  BY <1>1, <1>2, <1>3, PTL DEF Spec

\* Once settings have been saved on such a card, every later start takes up settings
\* without an alert, unless one of its own calls fails.
THEOREM SavedTaken == Spec => SavedIsTaken
<1>1. (~decays => Sound) /\ [Next]_vars
        => [Ends /\ ~decays /\ ~trouble' /\ Missing \notin possible => ~damaged']_vars
  BY EndsWithout
<1> QED
  BY <1>1, SoundAlways, PTL DEF Spec, SavedIsTaken

\* Whatever files are damaged, the radio is only formatted when none of them can be
\* read, unless a call of the start failed.
THEOREM LastResort == Spec => []FormattedAsLastResort
<1>1. Init => Order
  BY DEF Init, Order, FormattedAsLastResort
<1>2. Order => FormattedAsLastResort
  BY DEF Order
<1> QED
  BY <1>1, <1>2, StepOrder, PTL DEF Spec

\* A model that cannot be read is not replaced.
THEOREM OriginalKept == Spec => OriginalPreserved
<1>1. Init => Original
  BY FileAssumption DEF Init, Original, Recovering, InterruptedSave
<1>2. Original /\ [Next]_vars
        => [model /\ main = Torn /\ ~trouble => main' = Torn]_vars
  BY StepOriginal
<1> QED
  BY <1>1, <1>2, StepOriginal, PTL DEF Spec, OriginalPreserved
=============================================================================
