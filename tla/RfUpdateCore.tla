---------------------------- MODULE RfUpdateCore ----------------------------
(***************************************************************************)
(* The controller that writes an RF component's firmware (class            *)
(* RfUpdateCore, nb4_rf_update_core.cpp).  It owns no storage and no link: *)
(* its caller hands it frames of the peer, the time and three callbacks.   *)
(*                                                                         *)
(* Every action is one call of a public method.  The results of the        *)
(* callbacks (may this frame be sent now, could the image be read, was the *)
(* boot identity journalled) are parameters, so that a module which        *)
(* composes this one with a mailbox and a journal can supply them.         *)
(*                                                                         *)
(* last_ and started_ appear as the time that has passed since them, which *)
(* is the only thing the code computes from them.  Elapsed time stops at   *)
(* the largest limit it is compared with.                                  *)
(***************************************************************************)
EXTENDS Integers, FiniteSets

CONSTANTS
  Images,         \* catalogue entries an operation may name
  Identities,     \* identities a component may report to the radio
  Peers,          \* identity replies a component's bootloader may give
  NoPeer,         \* peerLength_ = 0
  Operations,     \* operation numbers a caller may choose, without 0
  MinImageSize,   \* 8 in the code
  MaxImageSize,   \* RfUpdateCore::maxImageSize, 65536
  MaxChunk,       \* RfUpdateCore::maxChunk, 164
  BlockBytes,     \* size of a receiver block, 64
  WindowBytes,    \* size of a receiver window, 256
  SilenceLimit,   \* 10 s, in ticks
  VerifyLimit,    \* 30 s
  TotalLimit      \* 300 s

Image == [product : Nat, reported : Nat, version : Nat, size : Nat, receiver : BOOLEAN]
Identity == [epoch : Nat, car : Nat, product : Nat, hardware : Nat, version : Nat, words : Nat]
PeerReply == [word : Nat, version : Nat, rest : Nat]

ASSUME ConstantsAssumption ==
  /\ Images \subseteq Image
  /\ Identities \subseteq Identity
  /\ Peers \subseteq PeerReply
  /\ NoPeer \notin PeerReply
  /\ Operations \subseteq Nat \ {0}
  /\ MinImageSize \in Nat \ {0}
  /\ MaxImageSize \in Nat
  /\ MaxChunk \in Nat
  /\ BlockBytes \in Nat \ {0}
  /\ WindowBytes \in Nat \ {0}
  /\ SilenceLimit \in Nat \ {0}
  /\ VerifyLimit \in Nat /\ VerifyLimit >= SilenceLimit
  /\ TotalLimit \in Nat \ {0}

VARIABLES
  image, identity, operation,  \* image_, identity_, operation_
  phase, error,                \* phase_, error_
  sent, manifest, finish,      \* sent_, manifest_, finish_
  coverage, covered,           \* the bytes set in coverage_, and covered_
  peer, pinned,                \* peer_ with peerLength_, peerPinned_
  idle, age,                   \* now - last_, now - started_
  saved,                       \* the caller's pinnedPeer, given to recover()
  recovering,                  \* the caller's flag of the same name
  durable,                     \* the peer in the caller's journal
  restored,                    \* history: read back from the journal, not recovered yet
  touched                      \* history: a byte of this operation's image went out

opVars == <<image, identity, operation>>
flowVars == <<sent, manifest, finish>>
dataVars == <<coverage, covered>>
peerVars == <<peer, pinned>>
clockVars == <<idle, age>>
callerVars == <<saved, recovering, durable, restored, touched>>
vars == <<opVars, phase, error, flowVars, dataVars, peerVars, clockVars, callerVars>>

Phases == {"Idle", "Ready", "Entering", "Transfer", "VerifyVersion", "Complete",
           "Cancelled", "RecoveryRequired"}
Errors == {"None", "IdentityChanged", "Bounds", "Storage", "Protocol", "PeerRejected",
           "Timeout", "Version"}

NoImage == [product |-> 0, reported |-> 0, version |-> 0, size |-> 0, receiver |-> FALSE]
NoIdentity == [epoch |-> 0, car |-> 0, product |-> 0, hardware |-> 0, version |-> 0, words |-> 0]

Init ==
  /\ image = NoImage /\ identity = NoIdentity /\ operation = 0
  /\ phase = "Idle" /\ error = "None"
  /\ sent = FALSE /\ manifest = FALSE /\ finish = FALSE
  /\ coverage = {} /\ covered = 0
  /\ peer = NoPeer /\ pinned = FALSE
  /\ idle = 0 /\ age = 0
  /\ saved = NoPeer /\ recovering = FALSE
  /\ durable = NoPeer /\ restored = FALSE /\ touched = FALSE

-----------------------------------------------------------------------------
(* Helpers.                                                                *)

ReportedProduct(im) == IF im.reported = 0 THEN im.product ELSE im.reported

OwnsLink == phase \in {"Entering", "Transfer", "RecoveryRequired"}

Cancellable == phase = "Ready" \/ (phase = "Entering" /\ ~sent)

Running == phase \in {"Entering", "Transfer", "VerifyVersion"}

\* Started and not yet settled by a result: what the caller keeps driving locked for.
InDoubt == Running \/ phase = "RecoveryRequired"

Fail(e) ==
  /\ error' = e
  /\ phase' = IF sent THEN "RecoveryRequired" ELSE "Cancelled"

\* A frame that ends the operation changes nothing else.
FailFrame(e) ==
  /\ Fail(e)
  /\ UNCHANGED <<opVars, flowVars, dataVars, peerVars, clockVars, recovering, restored, touched>>

\* What prepare() requires of its arguments, whatever the phase.
Acceptable(im, id, op, reinstall) ==
  /\ op # 0
  /\ ReportedProduct(im) = id.product
  /\ im.size \in MinImageSize .. MaxImageSize
  /\ im.version >= id.version
  /\ im.version = id.version => reinstall

CanPrepare(im, id, op, reinstall) ==
  /\ ~OwnsLink
  /\ Acceptable(im, id, op, reinstall)

\* Fault: the coverage map of the operation before is kept.
LoadOperationKeepsCoverage(im, id, op) ==
  /\ image' = im /\ identity' = id /\ operation' = op
  /\ manifest' = FALSE /\ finish' = FALSE
  /\ UNCHANGED coverage

\* What every prepare() that succeeds assigns alike.
LoadOperation(im, id, op) ==
  /\ image' = im /\ identity' = id /\ operation' = op
  /\ coverage' = {}
  /\ manifest' = FALSE /\ finish' = FALSE

PeerFits(p, im, id) ==
  /\ im.receiver => p.word = im.product /\ p.version = id.version
  /\ ~im.receiver => p.word # 0

-----------------------------------------------------------------------------
(* Calls of the owner.                                                     *)

\* A new operation.  The caller refuses one while driving is locked, and forgets
\* the checkpoint of the operation before.
Prepare(im, id, op, reinstall) ==
  /\ CanPrepare(im, id, op, reinstall) /\ ~InDoubt
  /\ LoadOperation(im, id, op)
  /\ phase' = "Ready" /\ error' = "None" /\ sent' = FALSE
  /\ covered' = 0
  /\ peer' = NoPeer /\ pinned' = FALSE
  /\ saved' = NoPeer /\ recovering' = FALSE
  /\ durable' = NoPeer /\ restored' = FALSE /\ touched' = FALSE
  /\ UNCHANGED clockVars

Start(current) ==
  /\ phase = "Ready"
  /\ \/ /\ current = identity
        /\ phase' = "Entering" /\ idle' = 0 /\ age' = 0
        /\ UNCHANGED error
     \/ /\ current # identity
        /\ error' = "IdentityChanged"
        /\ UNCHANGED <<phase, clockVars>>
  /\ UNCHANGED <<opVars, flowVars, dataVars, peerVars, callerVars>>

\* The caller refuses a cancellation while it is recovering.
Cancel ==
  /\ Cancellable /\ ~recovering
  /\ phase' = "Cancelled"
  /\ UNCHANGED <<opVars, error, flowVars, dataVars, peerVars, clockVars, callerVars>>

\* Fault: the bytes served since the last recovery are all that counts.
UntouchedProofByCoverage(running, probeEpoch) ==
  /\ operation # 0 /\ covered = 0
  /\ running.product # 0 /\ running.epoch # probeEpoch
  /\ [running EXCEPT !.epoch = identity.epoch,
                     !.car = IF image.receiver THEN @ ELSE identity.car] = identity

\* A reading of the application newer than the probe, of the whole identity the
\* operation was prepared for, and no sign that the bootloader was ever reached.
UntouchedProof(running, probeEpoch) ==
  /\ operation # 0 /\ peer = NoPeer /\ covered = 0
  /\ running.product # 0 /\ running.epoch # probeEpoch
  /\ [running EXCEPT !.epoch = identity.epoch,
                     !.car = IF image.receiver THEN @ ELSE identity.car] = identity

CancelUntouched(running, probeEpoch) ==
  /\ phase = "RecoveryRequired"
  /\ UntouchedProof(running, probeEpoch)
  /\ phase' = "Cancelled" /\ error' = "None" /\ sent' = FALSE
  /\ UNCHANGED <<opVars, manifest, finish, dataVars, peerVars, clockVars, callerVars>>

\* A reading newer than the probe that shows the intended image running.
InstalledProof(running, probeEpoch) ==
  /\ operation # 0
  /\ running.product # 0 /\ running.epoch # probeEpoch
  /\ running.product = ReportedProduct(image)
  /\ running.hardware = identity.hardware
  /\ running.version = image.version

CompleteInstalled(running, probeEpoch) ==
  /\ phase = "RecoveryRequired"
  /\ InstalledProof(running, probeEpoch)
  /\ phase' = "Complete" /\ error' = "None" /\ sent' = FALSE
  /\ covered' = image.size
  /\ UNCHANGED <<opVars, manifest, finish, coverage, peerVars, clockVars, callerVars>>

RequireRecovery(e) ==
  /\ phase' = "RecoveryRequired" /\ error' = e /\ sent' = TRUE
  /\ UNCHANGED <<opVars, manifest, finish, dataVars, peerVars, clockVars, callerVars>>

\* The caller read an operation back from its journal, with the peer p of the
\* checkpoint.  bytesSent is history: whether image bytes went out before.
Restored(im, id, op, p, bytesSent) ==
  /\ phase = "Idle"
  /\ CanPrepare(im, id, op, TRUE)
  /\ LoadOperation(im, id, op)
  /\ peer' = NoPeer /\ pinned' = FALSE
  /\ saved' = p /\ recovering' = FALSE
  /\ durable' = p /\ restored' = TRUE /\ touched' = bytesSent
  /\ UNCHANGED clockVars

RestoreResult(im, id, op, p, bytesSent, result) ==
  /\ Restored(im, id, op, p, bytesSent)
  /\ result \in {"Complete", "Cancelled"}
  /\ phase' = result /\ error' = "None" /\ sent' = FALSE
  /\ covered' = IF result = "Complete" THEN im.size ELSE 0

\* prepare() followed by requireRecovery(), for a phase that is not settled.
RestoreInterrupted(im, id, op, p, bytesSent) ==
  /\ Restored(im, id, op, p, bytesSent)
  /\ phase' = "RecoveryRequired" /\ error' = "Storage" /\ sent' = TRUE
  /\ covered' = 0

\* The whole image again, through the peer of the checkpoint (if there is one).  The
\* caller has just journalled the entry, with that peer.
Recover(im, id, op, p) ==
  /\ phase = "RecoveryRequired"
  /\ \/ /\ Acceptable(im, id, op, TRUE)
        /\ LoadOperation(im, id, op)
        /\ phase' = "Entering" /\ error' = "None" /\ sent' = FALSE
        /\ covered' = 0
        /\ peer' = p /\ pinned' = (p # NoPeer /\ ~im.receiver)
        /\ idle' = 0 /\ age' = 0
        /\ restored' = FALSE
     \/ /\ ~Acceptable(im, id, op, TRUE)
        /\ error' = "Protocol" /\ sent' = TRUE
        /\ UNCHANGED <<opVars, phase, manifest, finish, dataVars, peerVars, clockVars, restored>>
  /\ recovering' = TRUE
  /\ durable' = saved
  /\ UNCHANGED <<saved, touched>>

\* Fault: only silence ends an operation.
DeadlineOfSilence(quiet, limit) == quiet >= limit

DeadlinePassed(quiet, limit) == quiet >= limit \/ age >= TotalLimit

\* The periodic call: send what is due, then look at the two deadlines.
Service(sendOk) ==
  LET enters == phase = "Entering" /\ ~sent /\ sendOk
      quiet == IF enters THEN 0 ELSE idle
      limit == IF phase = "VerifyVersion" THEN VerifyLimit ELSE SilenceLimit
      expired == Running /\ DeadlinePassed(quiet, limit)
      left == sent \/ enters
  IN /\ sent' = left
     /\ manifest' = (manifest \/ (enters /\ image.receiver))
     /\ finish' = (finish /\ ~(phase = "VerifyVersion" /\ sendOk))
     /\ idle' = quiet
     /\ IF expired
          THEN /\ error' = "Timeout"
               /\ phase' = IF left THEN "RecoveryRequired" ELSE "Cancelled"
          ELSE UNCHANGED <<phase, error>>
     /\ UNCHANGED <<opVars, dataVars, peerVars, age, callerVars>>

\* A reading of the component while its restart is awaited.
Verify(product, version, fresh) ==
  /\ phase = "VerifyVersion" /\ fresh /\ ~finish
  /\ IF product = ReportedProduct(image) /\ version = image.version
       THEN phase' = "Complete" /\ UNCHANGED error
       ELSE Fail("Version")
  /\ UNCHANGED <<opVars, flowVars, dataVars, peerVars, clockVars, callerVars>>

-----------------------------------------------------------------------------
(* Frames of the peer.  A frame no action matches is ignored by the code.  *)

Listening == sent /\ phase \in {"Entering", "Transfer"}

\* The answer to a frame, when the mailbox takes it, restarts the silence.
Heard(sendOk) == idle' = (IF sendOk THEN 0 ELSE idle) /\ UNCHANGED age

\* 0x22: the module's bootloader is ready.
ReceiveReady(sendOk) ==
  /\ Listening /\ ~image.receiver /\ phase = "Entering" /\ ~manifest
  /\ Heard(sendOk)
  /\ UNCHANGED <<opVars, phase, error, flowVars, dataVars, peerVars, callerVars>>

\* A receiver names the image's product and the version it still holds; a module
\* only has to send something.  A peer seen before must not change.
PeerExpected(p) ==
  /\ PeerFits(p, image, identity)
  /\ peer # NoPeer => p = peer

\* The caller keeps the first reply before it journals it, and refuses another.
CheckpointAccepts(p) == saved = NoPeer \/ saved = p

\* The caller's checkpoint(): it keeps a first reply in memory before it journals
\* it, and refuses another one.
Checkpoint(p, journalled) ==
  /\ saved' = IF CheckpointAccepts(p) THEN p ELSE saved
  /\ durable' = IF CheckpointAccepts(p) /\ journalled THEN p ELSE durable
\* Fault: the result of the journal write is not looked at.
CheckpointAssumed(p, journalled) == CheckpointAccepts(p)

CheckpointHolds(p, journalled) == CheckpointAccepts(p) /\ journalled

\* 0x33 of a receiver, 0x24 of a module.  journalled: the journal write succeeded.
ReceiveIdentity(p, journalled) ==
  /\ Listening
  /\ \/ ~PeerExpected(p) /\ FailFrame("IdentityChanged") /\ UNCHANGED <<saved, durable>>
     \/ /\ PeerExpected(p) /\ ~pinned /\ ~CheckpointHolds(p, journalled)
        /\ Checkpoint(p, journalled)
        /\ FailFrame("Storage")
     \/ /\ PeerExpected(p) /\ ~pinned /\ CheckpointHolds(p, journalled)
        /\ Checkpoint(p, journalled)
        /\ peer' = p /\ pinned' = TRUE /\ idle' = 0
        /\ UNCHANGED <<opVars, phase, error, flowVars, dataVars, age, recovering, restored, touched>>
     \/ /\ PeerExpected(p) /\ pinned
        /\ idle' = 0
        /\ UNCHANGED <<opVars, phase, error, flowVars, dataVars, peerVars, age, callerVars>>

\* 0x25: the module asks for the length.
ReceiveManifestRequest(sendOk) ==
  /\ Listening /\ ~image.receiver
  /\ \/ ~pinned /\ FailFrame("Protocol")
     \/ /\ pinned
        /\ manifest' = (manifest \/ sendOk)
        /\ Heard(sendOk)
        /\ UNCHANGED <<opVars, phase, error, sent, finish, dataVars, peerVars, recovering, restored, touched>>
  /\ UNCHANGED <<saved, durable>>

\* A receiver reads whole windows of aligned blocks, so its last window may end
\* behind the image.
RoundUp(n) == ((n + WindowBytes - 1) \div WindowBytes) * WindowBytes
ReadLimit(offset, count) ==
  IF image.receiver /\ count = BlockBytes /\ offset % BlockBytes = 0
    THEN RoundUp(image.size) ELSE image.size
InBounds(offset, count) ==
  /\ count \in 1 .. MaxChunk
  /\ offset + count <= ReadLimit(offset, count)
\* The image bytes in the answer; the rest of it is padding.
ServedBytes(offset, count) == {i \in offset .. offset + count - 1 : i < image.size}

\* Fault: a repeated request counts again.
RepeatedBytes(bytes) == bytes

\* A byte that is asked for again counts once.
NewBytes(bytes) == bytes \ coverage

\* 0x31, 0x26: the peer asks for count bytes from offset on.
ReceiveDataRequest(offset, count, wellFormed, readOk, sendOk) ==
  LET bytes == ServedBytes(offset, count)
  IN /\ Listening
     /\ \/ ~(manifest /\ pinned /\ wellFormed) /\ FailFrame("Protocol")
        \/ /\ manifest /\ pinned /\ wellFormed
           /\ ~InBounds(offset, count)
           /\ FailFrame("Bounds")
        \/ /\ manifest /\ pinned /\ wellFormed /\ InBounds(offset, count)
           /\ bytes # {} /\ ~readOk
           /\ FailFrame("Storage")
        \/ /\ manifest /\ pinned /\ wellFormed /\ InBounds(offset, count)
           /\ bytes = {} \/ readOk
           /\ sendOk
           /\ coverage' = coverage \union bytes
           /\ covered' = covered + Cardinality(NewBytes(bytes))
           /\ phase' = "Transfer" /\ idle' = 0
           /\ touched' = (touched \/ bytes # {})
           /\ UNCHANGED <<opVars, error, flowVars, peerVars, age, recovering, restored>>
     /\ UNCHANGED <<saved, durable>>

WholeImageRequested == covered = image.size

\* 0x32, 0x27: the peer reports the end of its write.
ReceiveFinish(wellFormed, success) ==
  /\ Listening
  /\ \/ ~wellFormed /\ FailFrame("Protocol")
     \/ wellFormed /\ ~success /\ FailFrame("PeerRejected")
     \/ wellFormed /\ success /\ ~WholeImageRequested /\ FailFrame("Protocol")
     \/ /\ wellFormed /\ success /\ WholeImageRequested
        /\ phase' = "VerifyVersion" /\ idle' = 0
        /\ finish' = ~image.receiver
        /\ UNCHANGED <<opVars, error, sent, manifest, dataVars, peerVars, age, recovering, restored, touched>>
  /\ UNCHANGED <<saved, durable>>

-----------------------------------------------------------------------------
(* The most general caller that keeps to the code's calling discipline.    *)

\* The caller's loop sends the entry request of a recovery in the pass that began it:
\* no time passes in between, and all that is looked at is the overflow flag of the
\* receive queue, which the receive task may have set again by then.
EntryDue == recovering /\ phase = "Entering" /\ ~sent

CallerFail(e) ==
  /\ InDoubt \/ phase = "Ready"
  /\ EntryDue => e = "Protocol"
  /\ Fail(e)
  /\ UNCHANGED <<opVars, flowVars, dataVars, peerVars, clockVars, callerVars>>

Tick ==
  /\ Running /\ ~EntryDue
  /\ age < TotalLimit
  /\ age' = age + 1
  /\ idle' = IF idle < VerifyLimit THEN idle + 1 ELSE idle
  /\ UNCHANGED <<opVars, phase, error, flowVars, dataVars, peerVars, callerVars>>

PrepareAny == \E im \in Images, id \in Identities, op \in Operations, re \in BOOLEAN :
                Prepare(im, id, op, re)
RestoreAny ==
  \E im \in Images, id \in Identities, op \in Operations :
    \/ RestoreResult(im, id, op, NoPeer, FALSE, "Cancelled")
    \/ \E p \in {q \in Peers : PeerFits(q, im, id)} \union {NoPeer}, b \in BOOLEAN :
         /\ b => p # NoPeer
         /\ RestoreInterrupted(im, id, op, p, b) \/ RestoreResult(im, id, op, p, b, "Complete")
RecoverAny == Recover(image, identity, operation, saved)
ServiceAny == \E ok \in BOOLEAN : Service(ok)
ProbeAny == \E id \in Identities : \E probe \in {i.epoch : i \in Identities} :
              CancelUntouched(id, probe) \/ CompleteInstalled(id, probe)
VerifyAny == \E id \in Identities, fresh \in BOOLEAN : Verify(id.product, id.version, fresh)
FrameAny ==
  \E ok \in BOOLEAN :
    \/ ReceiveReady(ok)
    \/ \E p \in Peers : ReceiveIdentity(p, ok)
    \/ ReceiveManifestRequest(ok)
    \/ \E offset \in 0 .. MaxImageSize, count \in 0 .. MaxChunk + 1, wf, readOk \in BOOLEAN :
         ReceiveDataRequest(offset, count, wf, readOk, ok)
    \/ \E wf \in BOOLEAN : ReceiveFinish(wf, ok)

Next ==
  \/ PrepareAny
  \/ \E id \in Identities : Start(id)
  \/ Cancel
  \/ RestoreAny
  \/ RecoverAny
  \/ ProbeAny
  \/ \E e \in {"Protocol", "Storage", "IdentityChanged"} : CallerFail(e) \/ RequireRecovery(e)
  \/ ServiceAny
  \/ VerifyAny
  \/ FrameAny
  \/ Tick

Spec == Init /\ [][Next]_vars

\* The main loop calls service() forever, and time passes.
Fairness == WF_vars(ServiceAny) /\ WF_vars(Tick)
FairSpec == Spec /\ Fairness

-----------------------------------------------------------------------------
(* Properties.                                                             *)

PeerOrNone == Peers \union {NoPeer}

\* Every variable has its type; in particular no padding byte behind the image is
\* ever counted (the loop over readSize in receive()).
TypeOK ==
  /\ image \in Image /\ identity \in Identity /\ operation \in Nat
  /\ phase \in Phases /\ error \in Errors
  /\ sent \in BOOLEAN /\ manifest \in BOOLEAN /\ finish \in BOOLEAN
  /\ coverage \subseteq 0 .. image.size - 1 /\ covered \in Nat
  /\ peer \in PeerOrNone /\ pinned \in BOOLEAN
  /\ idle \in 0 .. VerifyLimit /\ age \in 0 .. TotalLimit
  /\ saved \in PeerOrNone /\ recovering \in BOOLEAN
  /\ durable \in PeerOrNone /\ restored \in BOOLEAN /\ touched \in BOOLEAN

\* The restart of the component is awaited only after each byte of the image was
\* requested, whatever requests were repeated, reordered or padded: covered_ may
\* never reach the size while a byte is missing (receive(), the finish frame).
WholeImageServed == phase = "VerifyVersion" => coverage = 0 .. image.size - 1

\* Image bytes leave only for a peer whose identity is in the journal, and it is the
\* one the caller would hand to recover() (peerPinned_, checkpoint()).
ImageOnlyToDurablePeer ==
  /\ touched => durable # NoPeer
  /\ coverage # {} => peer = durable /\ peer = saved

\* A recovery that failed for an overflow before its entry request went out: fail()
\* finds nothing sent.
OverrunInRecovery == recovering /\ ~sent /\ error = "Protocol"

\* Within one power cycle an operation that sent image bytes is never settled as
\* cancelled: not by a failure, a deadline, a refused recovery, a cancellation or
\* a reading of an old application (fail(), cancel(), cancelUntouchedApplication()).
\* The one exception in the code is an overflow at the start of a recovery.
CancelledUntouched ==
  phase = "Cancelled" /\ ~restored /\ ~OverrunInRecovery => ~touched

\* The same after a restart as well: a saved boot-peer checkpoint prevents the
\* abandonment of an operation.
CheckpointPreventsCancel == phase = "Cancelled" => durable = NoPeer

\* A component that keeps talking cannot hold the link forever: an operation in
\* progress ends within the total time (the two deadlines in service()).
OperationEnds == Running ~> ~Running
=============================================================================
