------------------------- MODULE RfUpdateCore_proofs -------------------------
(***************************************************************************)
(* Safety of the RF update controller for every catalogue, identity, peer, *)
(* size and limit.  The theorems at the end follow from one inductive      *)
(* invariant, IInv.                                                        *)
(***************************************************************************)
EXTENDS RfUpdateCore, FiniteSetTheorems, TLAPS

\* While bytes may still be served, covered_ is the number of bytes in coverage_.
CountExact ==
  phase \in {"Ready", "Entering", "Transfer", "VerifyVersion"} => covered = Cardinality(coverage)

\* What the engine, the caller and the journal know of the peer agrees.
PeersAgree ==
  /\ pinned => peer # NoPeer
  /\ peer # NoPeer => peer = durable
  /\ durable # NoPeer => saved = durable
  /\ coverage # {} => peer # NoPeer
  /\ touched => durable # NoPeer
  /\ touched /\ ~restored => peer # NoPeer

\* sent_ is what keeps a touched operation from being settled as cancelled.  It is
\* not set in one window: between recover() and the entry request that follows it.
SentGuards ==
  /\ phase \in {"Transfer", "VerifyVersion", "RecoveryRequired"} => sent
  /\ phase = "Ready" => ~touched /\ ~recovering
  /\ phase = "Entering" /\ ~sent => recovering \/ ~touched
  /\ EntryDue => idle = 0 /\ age = 0

IInv ==
  /\ TypeOK /\ CountExact /\ PeersAgree /\ SentGuards
  /\ WholeImageServed /\ CancelledUntouched

-----------------------------------------------------------------------------
(* Lemmas about bytes.                                                     *)

\* Every set of image bytes is finite, and its size is a number.
LEMMA BytesFinite ==
  ASSUME NEW n \in Nat, NEW S \in SUBSET (0 .. n - 1)
  PROVE  IsFiniteSet(S) /\ Cardinality(S) \in Nat
<1>1. IsFiniteSet(0 .. n - 1)
  BY FS_Interval
<1>2. IsFiniteSet(S)
  BY <1>1, FS_Subset
<1> QED
  BY <1>2, FS_CardinalityType

\* The bytes of an answer lie inside the image (readSize in receive()).
LEMMA ServedInImage ==
  ASSUME NEW o \in Nat, NEW c \in Nat, image \in Image
  PROVE  ServedBytes(o, c) \subseteq 0 .. image.size - 1
<1>1. image.size \in Nat
  BY DEF Image
<1> QED
  BY <1>1 DEF ServedBytes

\* Counting only new bytes keeps the counter equal to the size of the map.
LEMMA CountNew ==
  ASSUME NEW n \in Nat, NEW S \in SUBSET (0 .. n - 1), NEW T \in SUBSET (0 .. n - 1),
         coverage = S
  PROVE  Cardinality(S \union T) = Cardinality(S) + Cardinality(NewBytes(T))
<1>1. IsFiniteSet(S) /\ IsFiniteSet(T \ S)
  BY BytesFinite
<1>2. S \union T = S \union (T \ S) /\ S \intersect (T \ S) = {}
  OBVIOUS
<1>3. Cardinality(S \union (T \ S)) = Cardinality(S) + Cardinality(T \ S) - Cardinality({})
  BY <1>1, <1>2, FS_Union
<1>4. Cardinality({}) = 0 /\ Cardinality(S) \in Nat /\ Cardinality(T \ S) \in Nat
  BY <1>1, FS_EmptySet, FS_CardinalityType
<1>5. Cardinality(S \union (T \ S)) = Cardinality(S) + Cardinality(T \ S)
  BY <1>3, <1>4
<1>6. NewBytes(T) = T \ S
  BY DEF NewBytes
<1> QED
  BY <1>2, <1>5, <1>6

\* As many bytes as the image has are all of its bytes (covered_ == image_.size).
LEMMA CountAll ==
  ASSUME NEW n \in Nat, NEW S \in SUBSET (0 .. n - 1), Cardinality(S) = n
  PROVE  S = 0 .. n - 1
<1>1. 0 \in Int /\ n - 1 \in Int
  OBVIOUS
<1>2. /\ IsFiniteSet(0 .. n - 1)
      /\ Cardinality(0 .. n - 1) = IF 0 > n - 1 THEN 0 ELSE n - 1 - 0 + 1
  BY <1>1, FS_Interval, Zenon
<1>3. Cardinality(0 .. n - 1) = n
  BY <1>2
<1> QED
  BY <1>2, <1>3, FS_Subset

-----------------------------------------------------------------------------
(* The invariant.                                                          *)

\* The object at power up, idle and with empty counters, satisfies the invariant.
LEMMA InitIInv == Init => IInv
<1> SUFFICES ASSUME Init PROVE IInv
  OBVIOUS
<1> USE ConstantsAssumption DEF Init
<1>1. TypeOK
  <2>1. image \in Image /\ identity \in Identity
    BY DEF Image, Identity, NoImage, NoIdentity
  <2>2. idle \in 0 .. VerifyLimit /\ age \in 0 .. TotalLimit
    OBVIOUS
  <2> QED
    BY <2>1, <2>2 DEF TypeOK, PeerOrNone, Phases, Errors
<1>2. CountExact /\ PeersAgree /\ SentGuards /\ WholeImageServed /\ CancelledUntouched
  BY FS_EmptySet DEF CountExact, PeersAgree, SentGuards, WholeImageServed, CancelledUntouched,
      OverrunInRecovery, EntryDue
<1> QED
  BY <1>1, <1>2 DEF IInv

\* prepare() starts over: no peer, no coverage, nothing served for the new operation.
LEMMA PrepKeeps ==
  ASSUME IInv, NEW im \in Images, NEW id \in Identities, NEW op \in Operations, NEW re \in BOOLEAN,
             Prepare(im, id, op, re)
  PROVE  IInv'
BY ConstantsAssumption, FS_EmptySet
DEF IInv, TypeOK, CountExact, PeersAgree, SentGuards, WholeImageServed, CancelledUntouched,
    OverrunInRecovery,
    EntryDue, Prepare, LoadOperation, PeerOrNone, Phases, Errors, Image, InDoubt, Running,
    opVars, flowVars, dataVars, peerVars, clockVars, callerVars

\* start() changes the phase and the clocks, or only the error.
LEMMA StartKeeps ==
  ASSUME IInv, NEW id \in Identities, Start(id)
  PROVE  IInv'
BY ConstantsAssumption
DEF IInv, TypeOK, CountExact, PeersAgree, SentGuards, WholeImageServed, CancelledUntouched,
    OverrunInRecovery,
    EntryDue, Start, PeerOrNone, Phases, Errors, Image, InDoubt, Running,
    opVars, flowVars, dataVars, peerVars, clockVars, callerVars

\* cancel() settles an operation whose entry request was not sent.
LEMMA CancelKeeps ==
  ASSUME IInv, Cancel
  PROVE  IInv'
BY ConstantsAssumption
DEF IInv, TypeOK, CountExact, PeersAgree, SentGuards, WholeImageServed, CancelledUntouched,
    OverrunInRecovery,
    EntryDue, Cancel, Cancellable, PeerOrNone, Phases, Errors, Image, InDoubt, Running,
    opVars, flowVars, dataVars, peerVars, clockVars, callerVars

\* A result read back from the journal comes without a peer of its own and without coverage.
LEMMA RestoreResultKeeps ==
  ASSUME IInv, NEW im \in Images, NEW id \in Identities, NEW op \in Operations, NEW p \in PeerOrNone,
             NEW b \in BOOLEAN, NEW r \in {"Complete", "Cancelled"},
             b => p # NoPeer, RestoreResult(im, id, op, p, b, r)
  PROVE  IInv'
BY ConstantsAssumption
DEF IInv, TypeOK, CountExact, PeersAgree, SentGuards, WholeImageServed, CancelledUntouched,
    OverrunInRecovery,
    EntryDue, RestoreResult, Restored, LoadOperation, PeerOrNone, Phases, Errors, Image, InDoubt, Running,
    opVars, flowVars, dataVars, peerVars, clockVars, callerVars

\* An unsettled operation that is read back awaits recovery.
LEMMA RestoreInterruptedKeeps ==
  ASSUME IInv, NEW im \in Images, NEW id \in Identities, NEW op \in Operations, NEW p \in PeerOrNone,
             NEW b \in BOOLEAN, b => p # NoPeer, RestoreInterrupted(im, id, op, p, b)
  PROVE  IInv'
BY ConstantsAssumption
DEF IInv, TypeOK, CountExact, PeersAgree, SentGuards, WholeImageServed, CancelledUntouched,
    OverrunInRecovery,
    EntryDue, RestoreInterrupted, Restored, LoadOperation, PeerOrNone, Phases, Errors, Image, InDoubt, Running,
    opVars, flowVars, dataVars, peerVars, clockVars, callerVars

\* recover() starts over with the peer of the checkpoint, or refuses.
LEMMA RecoverKeeps ==
  ASSUME IInv, RecoverAny
  PROVE  IInv'
<1> USE ConstantsAssumption
<1>1. CASE Acceptable(image, identity, operation, TRUE)
  <2>1. /\ LoadOperation(image, identity, operation)
        /\ phase' = "Entering" /\ error' = "None" /\ sent' = FALSE /\ covered' = 0
        /\ peer' = saved /\ idle' = 0 /\ age' = 0 /\ restored' = FALSE
        /\ recovering' = TRUE /\ durable' = saved /\ saved' = saved /\ touched' = touched
    BY <1>1, Zenon DEF RecoverAny, Recover
  <2>2. pinned' \in BOOLEAN /\ (pinned' => saved # NoPeer)
    <3>1. pinned' = (saved # NoPeer /\ ~image.receiver)
      BY <1>1, Zenon DEF RecoverAny, Recover
    <3> QED
      BY <3>1
  <2>3. TypeOK'
    <3>1. pinned' \in BOOLEAN
      BY <2>2
    <3>2. coverage' \subseteq 0 .. image'.size - 1 /\ covered' \in Nat
      BY <2>1 DEF LoadOperation
    <3>3. image' \in Image /\ identity' \in Identity /\ operation' \in Nat
      BY <2>1 DEF IInv, TypeOK, LoadOperation
    <3>4. /\ phase' \in Phases /\ error' \in Errors
          /\ sent' \in BOOLEAN /\ manifest' \in BOOLEAN /\ finish' \in BOOLEAN
      BY <2>1 DEF LoadOperation, Phases, Errors
    <3>6. idle' \in 0 .. VerifyLimit /\ age' \in 0 .. TotalLimit
      BY <2>1
    <3>5. /\ saved' \in PeerOrNone /\ peer' \in PeerOrNone /\ durable' \in PeerOrNone
          /\ recovering' \in BOOLEAN /\ restored' \in BOOLEAN /\ touched' \in BOOLEAN
      BY <2>1 DEF IInv, TypeOK, PeerOrNone
    <3> QED
      BY <3>1, <3>2, <3>3, <3>4, <3>5, <3>6 DEF TypeOK
  <2>4. PeersAgree'
    BY <2>1, <2>2 DEF IInv, PeersAgree, LoadOperation
  <2> QED
    BY <2>1, <2>3, <2>4, FS_EmptySet
    DEF IInv, CountExact, SentGuards, EntryDue, WholeImageServed, CancelledUntouched,
        OverrunInRecovery, LoadOperation
<1>2. CASE ~Acceptable(image, identity, operation, TRUE)
  <2>1. /\ phase = "RecoveryRequired"
        /\ error' = "Protocol" /\ sent' = TRUE /\ recovering' = TRUE /\ durable' = saved
        /\ UNCHANGED <<opVars, phase, manifest, finish, dataVars, peerVars, clockVars, restored,
                      saved, touched>>
    BY <1>2, Zenon DEF RecoverAny, Recover
  <2> QED
    BY <2>1
    DEF IInv, TypeOK, CountExact, PeersAgree, SentGuards, WholeImageServed, CancelledUntouched,
        OverrunInRecovery,
        EntryDue, PeerOrNone, Phases, Errors, Image, opVars, dataVars, peerVars, clockVars
<1> QED
  BY <1>1, <1>2

\* cancelUntouched() settles only without a peer and without coverage.
LEMMA CancelUntouchedKeeps ==
  ASSUME IInv, NEW id \in Identities, NEW e, CancelUntouched(id, e)
  PROVE  IInv'
BY ConstantsAssumption
DEF IInv, TypeOK, CountExact, PeersAgree, SentGuards, WholeImageServed, CancelledUntouched,
    OverrunInRecovery,
    EntryDue, CancelUntouched, UntouchedProof, PeerOrNone, Phases, Errors, Image, InDoubt, Running,
    opVars, flowVars, dataVars, peerVars, clockVars, callerVars

\* completeInstalled() counts the whole image, on evidence other than requests.
LEMMA CompleteInstalledKeeps ==
  ASSUME IInv, NEW id \in Identities, NEW e, CompleteInstalled(id, e)
  PROVE  IInv'
BY ConstantsAssumption
DEF IInv, TypeOK, CountExact, PeersAgree, SentGuards, WholeImageServed, CancelledUntouched,
    OverrunInRecovery,
    EntryDue, CompleteInstalled, PeerOrNone, Phases, Errors, Image, InDoubt, Running,
    opVars, flowVars, dataVars, peerVars, clockVars, callerVars

\* A failure that the caller reports changes the phase and the error.
LEMMA CallerFailKeeps ==
  ASSUME IInv, NEW e \in Errors, CallerFail(e)
  PROVE  IInv'
BY ConstantsAssumption
DEF IInv, TypeOK, CountExact, PeersAgree, SentGuards, WholeImageServed, CancelledUntouched,
    OverrunInRecovery,
    EntryDue, CallerFail, Fail, InDoubt, Running, PeerOrNone, Phases, Errors, Image,
    opVars, flowVars, dataVars, peerVars, clockVars, callerVars

\* requireRecovery() sets the phase, the error and the flag of the entry request.
LEMMA RequireRecoveryKeeps ==
  ASSUME IInv, NEW e \in Errors, RequireRecovery(e)
  PROVE  IInv'
BY ConstantsAssumption
DEF IInv, TypeOK, CountExact, PeersAgree, SentGuards, WholeImageServed, CancelledUntouched,
    OverrunInRecovery,
    EntryDue, RequireRecovery, PeerOrNone, Phases, Errors, Image, InDoubt, Running,
    opVars, flowVars, dataVars, peerVars, clockVars, callerVars

\* service() sends what is due and ends a phase at its deadline.
LEMMA ServiceKeeps ==
  ASSUME IInv, NEW ok \in BOOLEAN, Service(ok)
  PROVE  IInv'
BY ConstantsAssumption
DEF IInv, TypeOK, CountExact, PeersAgree, SentGuards, WholeImageServed, CancelledUntouched,
    OverrunInRecovery,
    EntryDue, Service, DeadlinePassed, PeerOrNone, Phases, Errors, Image, InDoubt, Running,
    opVars, flowVars, dataVars, peerVars, clockVars, callerVars

\* verify() settles the operation, or fails it, while the restart is awaited.
LEMMA VerifyKeeps ==
  ASSUME IInv, NEW id \in Identities, NEW fr \in BOOLEAN, Verify(id.product, id.version, fr)
  PROVE  IInv'
BY ConstantsAssumption
DEF IInv, TypeOK, CountExact, PeersAgree, SentGuards, WholeImageServed, CancelledUntouched,
    OverrunInRecovery,
    EntryDue, Verify, Fail, PeerOrNone, Phases, Errors, Image, InDoubt, Running,
    opVars, flowVars, dataVars, peerVars, clockVars, callerVars

\* A frame that fails the operation changes the phase, the error and at most the checkpoint.
LEMMA FailFrameKeeps ==
  ASSUME IInv, Listening, NEW e \in Errors, FailFrame(e), UNCHANGED <<saved, durable>>
  PROVE  IInv'
BY ConstantsAssumption
DEF IInv, TypeOK, CountExact, PeersAgree, SentGuards, WholeImageServed, CancelledUntouched,
    OverrunInRecovery,
    EntryDue, InDoubt, Running, PeerOrNone, Phases, Errors, Image,
    Listening, FailFrame, Fail, opVars, flowVars, dataVars, peerVars, clockVars, callerVars

\* The ready frame of a module changes nothing but the silence.
LEMMA ReceiveReadyKeeps ==
  ASSUME IInv, NEW ok \in BOOLEAN, ReceiveReady(ok)
  PROVE  IInv'
BY ConstantsAssumption
DEF IInv, TypeOK, CountExact, PeersAgree, SentGuards, WholeImageServed, CancelledUntouched,
    OverrunInRecovery,
    EntryDue, ReceiveReady, Heard, Listening, PeerOrNone, Phases, Errors, Image, InDoubt, Running,
    opVars, flowVars, dataVars, peerVars, clockVars, callerVars

\* A peer is pinned only after the journal took it.
LEMMA ReceiveIdentityKeeps ==
  ASSUME IInv, NEW p \in Peers, NEW ok \in BOOLEAN, ReceiveIdentity(p, ok)
  PROVE  IInv'
<1> USE ConstantsAssumption DEF ReceiveIdentity
<1>1. CASE ~PeerExpected(p) /\ FailFrame("IdentityChanged") /\ UNCHANGED <<saved, durable>>
  BY <1>1, FailFrameKeeps DEF Errors
<1>2. CASE /\ PeerExpected(p) /\ ~pinned /\ ~CheckpointHolds(p, ok)
           /\ Checkpoint(p, ok) /\ FailFrame("Storage")
  BY <1>2
  DEF IInv, TypeOK, CountExact, PeersAgree, SentGuards, WholeImageServed, CancelledUntouched,
      OverrunInRecovery,
      EntryDue, InDoubt, Running, PeerOrNone, Phases, Errors, Image,
      Listening, FailFrame, Fail, Checkpoint, CheckpointHolds, CheckpointAccepts,
      opVars, flowVars, dataVars, peerVars, clockVars, callerVars
<1>3. CASE /\ PeerExpected(p) /\ ~pinned /\ CheckpointHolds(p, ok) /\ Checkpoint(p, ok)
           /\ peer' = p /\ pinned' = TRUE /\ idle' = 0
           /\ UNCHANGED <<opVars, phase, error, flowVars, dataVars, age, recovering, restored, touched>>
  BY <1>3
  DEF IInv, TypeOK, CountExact, PeersAgree, SentGuards, WholeImageServed, CancelledUntouched,
      OverrunInRecovery,
      EntryDue, InDoubt, Running, PeerOrNone, Phases, Errors, Image,
      Listening, Checkpoint, CheckpointHolds, CheckpointAccepts, PeerExpected,
      opVars, flowVars, dataVars, peerVars, clockVars, callerVars
<1>4. CASE /\ PeerExpected(p) /\ pinned /\ idle' = 0
           /\ UNCHANGED <<opVars, phase, error, flowVars, dataVars, peerVars, age, callerVars>>
  BY <1>4
  DEF IInv, TypeOK, CountExact, PeersAgree, SentGuards, WholeImageServed, CancelledUntouched,
      OverrunInRecovery,
      EntryDue, InDoubt, Running, PeerOrNone, Phases, Errors, Image,
      Listening,
      opVars, flowVars, dataVars, peerVars, clockVars, callerVars
<1> QED
  BY <1>1, <1>2, <1>3, <1>4

\* A manifest request is answered only to the pinned peer.
LEMMA ReceiveManifestRequestKeeps ==
  ASSUME IInv, NEW ok \in BOOLEAN, ReceiveManifestRequest(ok)
  PROVE  IInv'
<1>1. CASE ~pinned
  BY <1>1, FailFrameKeeps DEF ReceiveManifestRequest, Errors
<1>2. CASE pinned
  <2>1. manifest' \in BOOLEAN
    <3>1. manifest' = (manifest \/ ok)
      BY <1>2, Zenon DEF ReceiveManifestRequest
    <3> QED
      BY <3>1
  <2>2. /\ Listening /\ Heard(ok)
        /\ UNCHANGED <<opVars, phase, error, sent, finish, dataVars, peerVars, recovering, restored,
                      touched, saved, durable>>
    BY <1>2 DEF ReceiveManifestRequest
  <2> QED
    BY <2>1, <2>2, ConstantsAssumption
    DEF IInv, TypeOK, CountExact, PeersAgree, SentGuards, WholeImageServed, CancelledUntouched,
        OverrunInRecovery,
        EntryDue, PeerOrNone, Listening, Heard, opVars, dataVars, peerVars
<1> QED
  BY <1>1, <1>2

\* A data request counts each byte of the image once, for the pinned peer.
LEMMA ReceiveDataRequestKeeps ==
  ASSUME IInv, NEW o \in Nat, NEW c \in Nat, NEW wf \in BOOLEAN, NEW rd \in BOOLEAN,
             NEW ok \in BOOLEAN, ReceiveDataRequest(o, c, wf, rd, ok)
  PROVE  IInv'
<1> DEFINE bytes == ServedBytes(o, c)
<1> USE DEF ReceiveDataRequest
<1>1. CASE FailFrame("Protocol") \/ FailFrame("Bounds") \/ FailFrame("Storage")
  BY <1>1, FailFrameKeeps DEF Errors
<1>2. CASE /\ pinned
           /\ coverage' = coverage \union bytes
           /\ covered' = covered + Cardinality(NewBytes(bytes))
           /\ phase' = "Transfer" /\ idle' = 0
           /\ touched' = (touched \/ bytes # {})
           /\ UNCHANGED <<opVars, error, flowVars, peerVars, age, saved, durable, recovering, restored>>
  <2>1. image \in Image /\ image.size \in Nat /\ coverage \in SUBSET (0 .. image.size - 1)
    BY DEF IInv, TypeOK, Image
  <2>2. bytes \in SUBSET (0 .. image.size - 1)
    BY <2>1, ServedInImage
  <2>3. coverage' \in SUBSET (0 .. image.size - 1)
    BY <1>2, <2>1, <2>2
  <2>4. covered = Cardinality(coverage)
    BY DEF IInv, CountExact, Listening
  <2>5. covered' = Cardinality(coverage') /\ covered' \in Nat
    BY <1>2, <2>1, <2>2, <2>3, <2>4, CountNew, BytesFinite
  <2> HIDE DEF bytes
  <2> QED
    BY <1>2, <2>1, <2>3, <2>5, ConstantsAssumption
    DEF IInv, TypeOK, CountExact, PeersAgree, SentGuards, WholeImageServed, CancelledUntouched,
        OverrunInRecovery,
      EntryDue, InDoubt, Running, PeerOrNone, Phases, Errors, Image,
        Listening, opVars, flowVars, dataVars, peerVars, clockVars, callerVars
<1> QED
  BY <1>1, <1>2

\* The end of the write is accepted only after the whole image was counted.
LEMMA ReceiveFinishKeeps ==
  ASSUME IInv, NEW wf \in BOOLEAN, NEW su \in BOOLEAN, ReceiveFinish(wf, su)
  PROVE  IInv'
<1> USE DEF ReceiveFinish
<1>1. CASE FailFrame("Protocol") \/ FailFrame("PeerRejected")
  BY <1>1, FailFrameKeeps DEF Errors
<1>2. CASE /\ WholeImageRequested
           /\ phase' = "VerifyVersion" /\ idle' = 0
           /\ finish' = ~image.receiver
           /\ UNCHANGED <<opVars, error, sent, manifest, dataVars, peerVars, age, callerVars>>
  <2>1. coverage = 0 .. image.size - 1
    BY <1>2, CountAll DEF IInv, TypeOK, Image, CountExact, WholeImageRequested, Listening
  <2> QED
    BY <1>2, <2>1, ConstantsAssumption
    DEF IInv, TypeOK, CountExact, PeersAgree, SentGuards, WholeImageServed, CancelledUntouched,
        OverrunInRecovery,
      EntryDue, InDoubt, Running, PeerOrNone, Phases, Errors, Image,
        Listening, opVars, flowVars, dataVars, peerVars, clockVars, callerVars
<1> QED
  BY <1>1, <1>2 DEF callerVars

\* Time passing changes the clocks alone.
LEMMA TickKeeps ==
  ASSUME IInv, Tick
  PROVE  IInv'
BY ConstantsAssumption
DEF IInv, TypeOK, CountExact, PeersAgree, SentGuards, WholeImageServed, CancelledUntouched,
    OverrunInRecovery,
    EntryDue, Tick, PeerOrNone, Phases, Errors, Image, InDoubt, Running,
    opVars, flowVars, dataVars, peerVars, clockVars, callerVars

\* Every call, every frame and every tick keeps the invariant.
LEMMA StepIInv == IInv /\ [Next]_vars => IInv'
<1> SUFFICES ASSUME IInv, [Next]_vars PROVE IInv'
  OBVIOUS
<1>1. CASE UNCHANGED vars
  BY <1>1
  DEF IInv, TypeOK, CountExact, PeersAgree, SentGuards, EntryDue, WholeImageServed,
      CancelledUntouched, OverrunInRecovery, vars, opVars, flowVars, dataVars, peerVars, clockVars, callerVars
<1>2. CASE PrepareAny
  BY <1>2, PrepKeeps DEF PrepareAny
<1>3. CASE \E id \in Identities : Start(id)
  BY <1>3, StartKeeps
<1>4. CASE Cancel
  BY <1>4, CancelKeeps
<1>5. CASE RestoreAny
  <2> PICK im \in Images, id \in Identities, op \in Operations :
        \/ RestoreResult(im, id, op, NoPeer, FALSE, "Cancelled")
        \/ \E p \in {q \in Peers : PeerFits(q, im, id)} \union {NoPeer}, b \in BOOLEAN :
             /\ b => p # NoPeer
             /\ RestoreInterrupted(im, id, op, p, b) \/ RestoreResult(im, id, op, p, b, "Complete")
    BY <1>5 DEF RestoreAny
  <2>1. CASE RestoreResult(im, id, op, NoPeer, FALSE, "Cancelled")
    BY <2>1, RestoreResultKeeps DEF PeerOrNone
  <2>2. ASSUME NEW p \in PeerOrNone, NEW b \in BOOLEAN, b => p # NoPeer,
               RestoreInterrupted(im, id, op, p, b) \/ RestoreResult(im, id, op, p, b, "Complete")
        PROVE  IInv'
    BY <2>2, RestoreResultKeeps, RestoreInterruptedKeeps
  <2> QED
    BY <2>1, <2>2 DEF PeerOrNone
<1>6. CASE RecoverAny
  BY <1>6, RecoverKeeps
<1>7. CASE ProbeAny
  BY <1>7, CancelUntouchedKeeps, CompleteInstalledKeeps DEF ProbeAny
<1>8. CASE \E e \in {"Protocol", "Storage", "IdentityChanged"} : CallerFail(e) \/ RequireRecovery(e)
  BY <1>8, CallerFailKeeps, RequireRecoveryKeeps DEF Errors
<1>9. CASE ServiceAny
  BY <1>9, ServiceKeeps DEF ServiceAny
<1>10. CASE VerifyAny
  BY <1>10, VerifyKeeps DEF VerifyAny
<1>11. CASE FrameAny
  <2> PICK ok \in BOOLEAN :
        \/ ReceiveReady(ok)
        \/ \E p \in Peers : ReceiveIdentity(p, ok)
        \/ ReceiveManifestRequest(ok)
        \/ \E offset \in 0 .. MaxImageSize, count \in 0 .. MaxChunk + 1, wf, readOk \in BOOLEAN :
             ReceiveDataRequest(offset, count, wf, readOk, ok)
        \/ \E wf \in BOOLEAN : ReceiveFinish(wf, ok)
    BY <1>11 DEF FrameAny
  <2>1. CASE ReceiveReady(ok) \/ ReceiveManifestRequest(ok)
    BY <2>1, ReceiveReadyKeeps, ReceiveManifestRequestKeeps
  <2>2. CASE \E p \in Peers : ReceiveIdentity(p, ok)
    BY <2>2, ReceiveIdentityKeeps
  <2>3. ASSUME NEW offset \in 0 .. MaxImageSize, NEW count \in 0 .. MaxChunk + 1,
               NEW wf \in BOOLEAN, NEW readOk \in BOOLEAN,
               ReceiveDataRequest(offset, count, wf, readOk, ok)
        PROVE  IInv'
    <3>1. offset \in Nat /\ count \in Nat
      BY ConstantsAssumption
    <3> QED
      BY <2>3, <3>1, ReceiveDataRequestKeeps
  <2>4. CASE \E wf \in BOOLEAN : ReceiveFinish(wf, ok)
    BY <2>4, ReceiveFinishKeeps
  <2> QED
    BY <2>1, <2>2, <2>3, <2>4
<1>12. CASE Tick
  BY <1>12, TickKeeps
<1> QED
  BY <1>1, <1>2, <1>3, <1>4, <1>5, <1>6, <1>7, <1>8, <1>9, <1>10, <1>11, <1>12 DEF Next

-----------------------------------------------------------------------------
(* The theorems.                                                           *)

\* The inductive invariant holds in every state the controller can reach.
THEOREM InvariantHolds == Spec => []IInv
<1> QED
  BY InitIInv, StepIInv, PTL DEF Spec

\* For every image, peer, size and limit each member keeps its type; no padding byte
\* behind the image is counted.
THEOREM TypeCorrect == Spec => []TypeOK
<1>1. IInv => TypeOK
  BY DEF IInv
<1> QED
  BY <1>1, InvariantHolds, PTL

\* For every image size and chunking, a restart is awaited only after each byte of the
\* image was requested.
THEOREM WholeImage == Spec => []WholeImageServed
<1>1. IInv => WholeImageServed
  BY DEF IInv
<1> QED
  BY <1>1, InvariantHolds, PTL

\* Image bytes leave only for the peer that the journal names, whatever journal writes
\* fail and however often the operation is recovered or read back.
THEOREM DurablePeerFirst == Spec => []ImageOnlyToDurablePeer
<1>1. IInv => ImageOnlyToDurablePeer
  BY DEF IInv, PeersAgree, ImageOnlyToDurablePeer
<1> QED
  BY <1>1, InvariantHolds, PTL

\* Within a power cycle no path settles an operation as cancelled after an image byte
\* went out, but for an overflow at the start of a recovery.
THEOREM NoLostTouch == Spec => []CancelledUntouched
<1>1. IInv => CancelledUntouched
  BY DEF IInv
<1> QED
  BY <1>1, InvariantHolds, PTL

=============================================================================
