-------------------------- MODULE Afhds3Link_proofs --------------------------
(***************************************************************************)
(* Proofs about Afhds3Link, for any number of retries, frames on the way,  *)
(* settings and edits of them, switches of the bind mode, losses, restarts *)
(* and delays: types, and what the module is in when pages, channels and   *)
(* binds reach it.                                                         *)
(*                                                                         *)
(* The parts of the invariant take the state as parameters, so that a tick *)
(* can be followed through the state between the choice of a frame and its *)
(* delivery: l is the link, r the receive task, q the frames on their way  *)
(* to the radio, m the module and c whether an answer has crossed.         *)
(***************************************************************************)
EXTENDS Afhds3Link, FiniteSetTheorems, WellFoundedInduction, TLAPS

Stages == {"Ready", "Standby", "Pages", "Bind", "Run", "Active", "Failed"}

Mode(on) == [command |-> "MODE", arg |-> <<on>>]

Contents == {<<>>} \union {<<p, b, n>> : p \in 0 .. 5, b \in BOOLEAN, n \in Settings \union {None}}

Frames ==
  {NoFrame}
    \union {[command |-> c, arg |-> <<>>] : c \in {"READY", "APPLY", "STATE", "STOP", "CHANNELS"}}
    \union {Mode(TRUE), Mode(FALSE)}
    \union {[command |-> "CONFIG", arg |-> a] : a \in Contents}

Links ==
  [operationState : {"UNKNOWN", "AWAITING", "IDLE"}, repeatCount : 0 .. MaxRetries,
   pendingIndex : 0 .. Numbers - 1, pendingCommand : Commands \union {None, "STOP", "CHANNELS"},
   frame : Frames, acknowledgements : 0 .. MaxAcks, responsePending : BOOLEAN,
   stage : Stages, pending : Commands \union {None, "STOP"}, page : 0 .. 5,
   readyTries : 0 .. MaxReadyTries - 1, error : BOOLEAN, binding : BOOLEAN,
   received : BOOLEAN, bound : BOOLEAN, synced : BOOLEAN, applied : Settings,
   sampled : SUBSET Settings, dirty : BOOLEAN]

Replies ==
  [command : Handshaking \union {"STATE", "NOTIFY", "LEARNED", "PAGE"},
   number : -1 .. Numbers - 1, arg : {<<>>, <<TRUE>>, <<FALSE>>}]

Modules ==
  [up : BOOLEAN, run : BOOLEAN, pages : [Pages -> Contents], restarted : BOOLEAN]

Ats == {"idle", "matching", "parse", "matched", "taken", "counting", "counted", "failing"}

RxTyped ==
  /\ rx \in [at : Ats,
             frame : Replies \union {Nothing}, held : BOOLEAN, stage : Stages \union {None}]
  /\ rx.at # "idle" => rx.frame \in Replies

Typed ==
  /\ link \in Links /\ RxTyped
  /\ toRadio \in Seq(Replies) /\ Len(toRadio) <= MaxReplies
  /\ module \in Modules
  /\ bindMode \in BOOLEAN /\ crossed \in BOOLEAN
  /\ model \in Settings /\ link.applied \in link.sampled

-----------------------------------------------------------------------------
(* Frame numbers.                                                          *)

\* A nonempty set of natural numbers has a smallest element.
LEMMA Smallest ==
  ASSUME NEW S \in SUBSET Nat, S # {}
  PROVE  \E n \in S : \A m \in S : n <= m
<1>1. \E Less : IsWellFoundedOn(Less, Nat) /\ \A x, y \in Nat : x < y => <<x, y>> \in Less
  <2> DEFINE L == OpToRel(<, Nat)
  <2>1. \A x, y \in Nat : x < y => <<x, y>> \in L
    BY DEF OpToRel
  <2>2. IsWellFoundedOn(L, Nat)
    BY NatLessThanWellFounded
  <2> HIDE DEF L
  <2> QED
    BY <2>1, <2>2
<1>2. PICK Less : IsWellFoundedOn(Less, Nat) /\ \A x, y \in Nat : x < y => <<x, y>> \in Less
  BY <1>1
<1>3. PICK n \in S : \A m \in S : ~ (<<m, n>> \in Less)
  <2>1. IsWellFoundedOn(Less, Nat) /\ S \subseteq Nat
    BY <1>2
  <2> QED
    BY ONLY <2>1, S # {}, WFMin, Zenon
<1>4. ASSUME NEW m \in S PROVE n <= m
  <2>1. m \in Nat /\ n \in Nat /\ ~ (m < n)
    BY <1>2, <1>3
  <2> QED
    BY <2>1
<1> QED
  BY <1>4

\* While there is room for one more answer, there is a number that no frame on its way has.
LEMMA Fresh ==
  ASSUME NEW s, Typed, Len(toRadio) < MaxReplies
  PROVE  /\ FreshNumber(s) \in 0 .. Numbers - 1
         /\ \A n \in 1 .. Len(toRadio) : toRadio[n].number # FreshNumber(s)
         /\ FreshNumber(s) # s.pendingIndex
<1> DEFINE way == 1 .. Len(toRadio)
           sent == {toRadio[n].number : n \in way}
           two == {s.pendingIndex, rx.frame.number}
           used == two \union sent
           fresh == (0 .. Numbers - 1) \ used
<1>1. Len(toRadio) \in Nat /\ Numbers \in Nat \ {0} /\ MaxReplies \in Nat
      /\ Numbers >= MaxReplies + 2
  BY LinkAssumption DEF Typed
<1>2. IsFiniteSet(way) /\ Cardinality(way) = Len(toRadio)
  <2>1. 1 \in Int /\ Len(toRadio) \in Int
    BY <1>1
  <2>2. IsFiniteSet(way) /\ Cardinality(way) = IF 1 > Len(toRadio) THEN 0 ELSE Len(toRadio) - 1 + 1
    BY ONLY <2>1, FS_Interval
  <2> QED
    BY ONLY <1>1, <2>2
<1>3. IsFiniteSet(sent) /\ Cardinality(sent) <= Len(toRadio)
  <2> DEFINE g == [n \in way |-> toRadio[n].number]
  <2>1. g \in Surjection(way, sent)
    BY DEF Surjection
  <2> HIDE DEF g, sent, way
  <2> QED
    BY <1>2, <2>1, FS_Surjection
<1>4. IsFiniteSet(two) /\ Cardinality(two) <= 2
  <2>1. IsFiniteSet({}) /\ Cardinality({}) = 0
    BY FS_EmptySet
  <2>2. IsFiniteSet({s.pendingIndex}) /\ Cardinality({s.pendingIndex}) = 1
    BY FS_Singleton
  <2>3. two = {s.pendingIndex} \union {rx.frame.number}
    OBVIOUS
  <2>4. IsFiniteSet(two) /\ Cardinality(two) \in {1, 2}
    BY <2>2, <2>3, FS_AddElement
  <2> QED
    BY <2>4
<1>5. IsFiniteSet(used) /\ Cardinality(used) < Numbers
  <2> HIDE DEF two, sent
  <2>1. IsFiniteSet(used) /\ Cardinality(used) =
          Cardinality(two) + Cardinality(sent) - Cardinality(two \intersect sent)
    BY <1>3, <1>4, FS_Union
  <2>2. /\ Cardinality(two) \in Nat /\ Cardinality(sent) \in Nat
        /\ IsFiniteSet(two \intersect sent)
    BY <1>3, <1>4, FS_CardinalityType, FS_Subset
  <2>3. Cardinality(two \intersect sent) \in Nat
    BY <2>2, FS_CardinalityType
  <2> QED
    BY <1>1, <1>3, <1>4, <2>1, <2>2, <2>3
<1>6. fresh # {}
  <2>1. IsFiniteSet(0 .. Numbers - 1) /\ Cardinality(0 .. Numbers - 1) = Numbers
    <3>1. 0 \in Int /\ Numbers - 1 \in Int
      BY <1>1
    <3>2. /\ IsFiniteSet(0 .. Numbers - 1)
          /\ Cardinality(0 .. Numbers - 1) = IF 0 > Numbers - 1 THEN 0 ELSE Numbers - 1 - 0 + 1
      BY ONLY <3>1, FS_Interval
    <3> QED
      BY ONLY <1>1, <3>2
  <2> HIDE DEF used
  <2>2. ASSUME fresh = {} PROVE FALSE
    <3>1. (0 .. Numbers - 1) \subseteq used
      BY <2>2
    <3>2. Cardinality(0 .. Numbers - 1) <= Cardinality(used)
      BY <1>5, <3>1, FS_Subset
    <3>3. Cardinality(used) \in Nat
      BY <1>5, FS_CardinalityType
    <3> QED
      BY <1>1, <1>5, <2>1, <3>2, <3>3
  <2> QED
    BY <2>2
<1>7. \E n \in fresh : \A m \in fresh : n <= m
  <2>1. fresh \in SUBSET Nat
    BY <1>1
  <2> HIDE DEF fresh
  <2> QED
    BY <1>6, <2>1, Smallest
<1>8. FreshNumber(s) \in fresh
  <2>1. FreshNumber(s) = CHOOSE n \in fresh : \A m \in fresh : n <= m
    BY DEF FreshNumber
  <2> HIDE DEF fresh
  <2> QED
    BY <1>7, <2>1
<1> QED
  BY <1>8

-----------------------------------------------------------------------------
(* The invariant.                                                          *)

Asking(l) == l.operationState = "AWAITING"

Handling(r) ==
  /\ r.at \in {"matching", "parse", "matched", "taken", "counting", "counted"}
  /\ r.frame.command \in Handshaking

\* The stage of the handshake follows what is asked and what is in hand.
InStep(l, r) ==
  /\ Asking(l) => l.frame.command = l.pendingCommand /\ l.frame.command \in Commands
  /\ l.stage = "Ready" => l.frame.command \in {None, "READY"}
  /\ l.stage = "Failed" /\ Asking(l) => r.at = "failing" /\ l.pending = "STOP"
  /\ r.at = "failing" => l.stage \in {"Failed", "Ready"}
  /\ r.at \in {"counting", "counted"} => r.frame.command = "CONFIG"
  /\ Handling(r) =>
       /\ r.stage \in Stages \ {"Failed"}
       /\ r.stage = "Ready" => r.frame.command = "READY"
       /\ l.stage \in {r.stage, "Failed", "Ready", "Standby"}
       /\ l.stage = "Standby" => r.stage \in {"Standby", "Active"}

\* A page is only counted once: the fourth ends the stage, a fifth is never sent.
Counts(l, r) ==
  /\ l.page \in 0 .. 5
  /\ l.stage = "Pages" => l.page <= 3 \/ (l.page = 4 /\ r.at = "counted")
  /\ l.page = 5 =>
       /\ l.stage # "Pages" /\ l.pending # "CONFIG" /\ r.at # "counting"
       /\ ~ (r.at = "matched" /\ r.frame.command = "CONFIG")
  /\ l.page = 4 /\ r.at = "counting" => l.stage # "Pages" /\ l.pending # "CONFIG"
  /\ l.page = 4 /\ r.at = "matched" /\ r.frame.command = "CONFIG" => l.stage # "Pages"

\* The module has page p, of this operation and of settings that pages were made of since
\* some were noted.
Own(l, m, p) == \E n \in l.sampled : m.pages[p] = Page(p, l.binding, n)

Configured(l, m) == m.restarted \/ \A p \in Pages : Own(l, m, p)

\* No page of an earlier batch is left in the module.
Clean(l, m) ==
  m.restarted \/ \A p \in Pages : m.pages[p] = <<>> \/ (Own(l, m, p) /\ p <= l.page)

\* What is asked belongs to the stage, or to the one before it.
Asks(l) ==
  /\ l.frame.command = "READY" => l.stage \in {"Ready", "Standby", "Failed"}
  /\ l.frame = Mode(FALSE) => l.stage \in {"Standby", "Pages", "Active", "Failed"}
  /\ l.frame = Mode(TRUE) => l.stage \in {"Run", "Active", "Failed"}
  /\ l.frame.command = "CONFIG" => l.stage \in {"Pages", "Run", "Bind", "Failed"}
  /\ l.frame.command = "APPLY" => l.stage \in {"Bind", "Active", "Failed"}
  /\ l.frame.command = "STATE" => l.stage \in {"Active", "Failed"}

\* What the module has in each stage.
InStage(l, m) ==
  /\ l.stage = "Standby" =>
       l.frame.command \in {None, "READY"} \/ l.frame = Mode(FALSE)
  /\ l.stage = "Pages" =>
       l.frame.command \in {None, "READY", "CONFIG"} \/ l.frame = Mode(FALSE)
  /\ l.stage = "Pages" \/ l.frame.command = "CONFIG" => ~m.run
  /\ l.stage = "Pages" /\ l.page > 0 => Clean(l, m)
  /\ l.stage = "Pages" /\ l.frame.command = "CONFIG" => l.frame.arg[1] <= l.page
  /\ l.stage \in {"Pages", "Run", "Bind"} /\ l.frame.command = "CONFIG" =>
       \E p \in 0 .. 4, n \in l.sampled : l.frame.arg = Page(p, l.binding, n)
  /\ l.stage \in {"Run", "Bind"} =>
       /\ Configured(l, m)
       /\ l.frame.command = "CONFIG" => l.frame.arg[1] # 0
  /\ l.stage = "Run" => ~l.binding /\ (l.frame.command = "CONFIG" \/ l.frame = Mode(TRUE))
  /\ l.stage = "Bind" => l.binding /\ l.frame.command \in {"CONFIG", "APPLY"}
  /\ l.stage = "Active" /\ l.bound /\ ~l.binding =>
       /\ Configured(l, m) /\ (m.restarted \/ m.run)
       /\ l.frame.command \notin {"CONFIG", "STOP", "READY"} /\ l.frame # Mode(FALSE)

Uses(l, m) ==
  /\ l.frame.command = "CHANNELS" => l.stage \in {"Active", "Failed"}
  /\ ~m.restarted /\ l.frame.command = "CHANNELS" =>
       m.run /\ \A p \in Pages : \E n \in l.sampled : m.pages[p] = Page(p, FALSE, n)
  /\ ~m.restarted /\ l.frame.command = "APPLY" =>
       \A p \in Pages : \E n \in l.sampled : m.pages[p] = Page(p, TRUE, n)

\* An answer that may settle the stage says what the module has.
Says(f, l, m) ==
  /\ f.command = "MODE" /\ f.arg = <<TRUE>> /\ l.stage = "Standby" => ~m.run
  /\ f.command = "MODE" /\ f.arg = <<TRUE>> /\ l.stage = "Run" => m.run \/ m.restarted
  /\ f.command = "CONFIG" /\ l.stage = "Pages" =>
       /\ Clean(l, m) /\ l.frame.command = "CONFIG"
       /\ f.arg = <<TRUE>> => l.frame.arg[1] # 0 /\ (m.restarted \/ Complete(m.pages))

InHand(l, r, m) ==
  Handling(r) /\ l.stage = r.stage =>
    /\ Says(r.frame, l, m)
    /\ r.frame.command = "READY" => l.stage \in {"Ready", "Standby"}
    /\ r.frame.command = "MODE" =>
         /\ l.stage \in {"Standby", "Pages", "Run", "Active"}
         /\ l.stage = "Standby" => l.frame = Mode(FALSE)
         /\ l.stage = "Run" => l.frame = Mode(TRUE)
    /\ r.frame.command = "CONFIG" => l.stage \in {"Pages", "Run", "Bind"}
    /\ r.frame.command = "APPLY" =>
         l.stage = "Active" \/ (l.stage = "Bind" /\ l.frame.command = "APPLY")

OnTheWay(l, q, m) == \A n \in 1 .. Len(q) : Answers(l, q[n]) => Says(q[n], l, m)

Settled(l, r, q, m) ==
  /\ Asking(l) => Asks(l)
  /\ InStage(l, m) /\ Uses(l, m) /\ InHand(l, r, m) /\ OnTheWay(l, q, m)

Sound(l, r, q, m, c) == InStep(l, r) /\ Counts(l, r) /\ (c \/ Settled(l, r, q, m))

Inv == Typed /\ Sound(link, rx, toRadio, module, crossed)

-----------------------------------------------------------------------------
(* The parts of the invariant under a change of the link alone.            *)

\* A page says which it is, for which operation, and is not empty.
LEMMA PageShape ==
  ASSUME NEW p, NEW b, NEW n
  PROVE  Page(p, b, n)[1] = p /\ Page(p, b, n) # <<>>
BY DEF Page

\* A request for a mode says which.
LEMMA ModeShape ==
  /\ \A on \in BOOLEAN : Mode(on).command = "MODE" /\ Mode(on).arg[1] = on
  /\ Mode(TRUE) # Mode(FALSE)
<1>1. ASSUME NEW on \in BOOLEAN PROVE Mode(on).command = "MODE" /\ Mode(on).arg[1] = on
  BY DEF Mode
<1>2. Mode(TRUE).arg[1] /\ ~Mode(FALSE).arg[1]
  BY DEF Mode
<1> QED
  BY <1>1, <1>2

\* The operation of t and its place in the handshake are those of l; pages may have been made.
SameStage(t, l) ==
  /\ t.stage = l.stage /\ t.page = l.page
  /\ t.binding = l.binding /\ t.bound = l.bound
  /\ t.applied = l.applied /\ l.sampled \subseteq t.sampled

\* What a report of a bound receiver leaves as well.
StageKept(t, l) ==
  /\ t.stage = l.stage /\ t.page = l.page
  /\ t.binding = l.binding /\ (t.bound = l.bound \/ l.binding)
  /\ t.applied = l.applied /\ l.sampled \subseteq t.sampled

\* t asks what l asks, or no longer.
AsksNoMore(t, l) ==
  /\ t.operationState = l.operationState \/ t.operationState # "AWAITING"
  /\ t.pendingIndex = l.pendingIndex /\ t.pendingCommand = l.pendingCommand /\ t.frame = l.frame
  /\ t.pending = l.pending \/ (t.pending = None /\ ~ (l.stage = "Failed" /\ Asking(l)))

\* The rest of the link matters to none of the parts.
LEMMA SoundAlike ==
  ASSUME NEW l, NEW t, NEW r, NEW q, NEW m, NEW c,
         Sound(l, r, q, m, c), StageKept(t, l), AsksNoMore(t, l)
  PROVE  Sound(t, r, q, m, c)
<1>1. InStep(t, r) /\ Counts(t, r)
  BY DEF Sound, InStep, Counts, Asking, StageKept, AsksNoMore, None
<1>2. (Clean(l, m) => Clean(t, m)) /\ (Configured(l, m) => Configured(t, m))
  BY DEF Clean, Configured, Own, StageKept
<1>3. \A f : Says(f, l, m) => Says(f, t, m)
  BY <1>2 DEF Says, StageKept, AsksNoMore
<1>4. ASSUME Settled(l, r, q, m) PROVE Settled(t, r, q, m)
  <2>1. (Asking(t) => Asks(t)) /\ Uses(t, m)
    BY <1>4 DEF Settled, Asking, Asks, Uses, StageKept, AsksNoMore
  <2>2. InStage(t, m)
    BY <1>2, <1>4 DEF Settled, InStage, StageKept, AsksNoMore
  <2>3. InHand(t, r, m)
    BY <1>3, <1>4 DEF Settled, InHand, StageKept, AsksNoMore
  <2>4. OnTheWay(t, q, m)
    BY <1>3, <1>4 DEF Settled, OnTheWay, Answers, AsksNoMore
  <2> QED
    BY <2>1, <2>2, <2>3, <2>4 DEF Settled
<1> QED
  BY <1>1, <1>4 DEF Sound

\* At the start of the handshake nothing that came before can settle anything.
LEMMA SoundReady ==
  ASSUME NEW l, NEW r, NEW q, NEW m, NEW c,
         l.stage = "Ready", InStep(l, r), Counts(l, r)
  PROVE  Sound(l, r, q, m, c)
<1>1. Asks(l)
  BY ModeShape DEF Asks, InStep, None
<1>2. InStage(l, m) /\ Uses(l, m)
  BY DEF InStage, Uses, InStep, None
<1>3. InHand(l, r, m)
  BY DEF InHand, Handling, InStep, Says
<1>4. OnTheWay(l, q, m)
  BY DEF OnTheWay, Answers, InStep, Says, Asking
<1> QED
  BY <1>1, <1>2, <1>3, <1>4 DEF Sound, Settled

\* Nor after a failure.
LEMMA SoundFailed ==
  ASSUME NEW l, NEW r, NEW q, NEW m, NEW c,
         l.stage = "Failed", l.frame.command \in {None, "STOP"}, InStep(l, r), Counts(l, r)
  PROVE  Sound(l, r, q, m, c)
<1>1. Asks(l)
  BY ModeShape DEF Asks, None
<1>2. InStage(l, m) /\ Uses(l, m)
  BY DEF InStage, Uses, None
<1>3. InHand(l, r, m)
  BY DEF InHand, Handling, InStep
<1>4. OnTheWay(l, q, m)
  BY DEF OnTheWay, Says
<1> QED
  BY <1>1, <1>2, <1>3, <1>4 DEF Sound, Settled

\* A handshake begun again can be at no page.
LEMMA SoundRestarted ==
  ASSUME NEW l, NEW t, NEW r, NEW q, NEW m, NEW c,
         InStep(l, r), Counts(l, r),
         t.stage = "Ready", t.operationState = "UNKNOWN", t.frame = NoFrame,
         t.page = 0, t.pending = None
  PROVE  Sound(t, r, q, m, c)
<1>1. InStep(t, r)
  BY DEF InStep, Asking, NoFrame, Handling
<1>2. Counts(t, r)
  BY DEF Counts, None
<1> QED
  BY <1>1, <1>2, SoundReady

\* A failure with nothing asked any more: the standby is still to be sent, or was.
LEMMA SoundGivenUp ==
  ASSUME NEW l, NEW t, NEW r, NEW q, NEW m, NEW c,
         InStep(l, r), Counts(l, r), t.stage = "Failed", t.operationState # "AWAITING",
         t.frame.command \in {None, "STOP"}, t.page = l.page,
         t.pending = "CONFIG" => l.pending = "CONFIG"
  PROVE  Sound(t, r, q, m, c)
<1>1. InStep(t, r)
  BY DEF InStep, Asking, Handling
<1>2. Counts(t, r)
  BY DEF Counts
<1> QED
  BY <1>1, <1>2, SoundFailed

\* The first request of the handshake.
LEMMA SoundAskReady ==
  ASSUME NEW l, NEW t, NEW r, NEW q, NEW m, NEW c,
         InStep(l, r), Counts(l, r), SameStage(t, l), l.stage = "Ready",
         t.operationState = "AWAITING", t.pendingCommand = "READY", t.pending = "READY",
         t.frame.command = "READY"
  PROVE  Sound(t, r, q, m, c)
<1>1. InStep(t, r)
  BY DEF InStep, Asking, Handling, SameStage, Commands
<1>2. Counts(t, r)
  BY DEF Counts, SameStage
<1> QED
  BY <1>1, <1>2, SoundReady DEF SameStage

-----------------------------------------------------------------------------
(* The requests of the handshake and of its end.                           *)

\* No frame on its way can be the answer.
NewNumber(t, q) == \A n \in 1 .. Len(q) : q[n].number # t.pendingIndex

AsksFor(t, command, arg) ==
  /\ t.operationState = "AWAITING" /\ t.pendingCommand = command /\ t.pending = command
  /\ t.frame = [command |-> command, arg |-> arg]

\* The request of each stage: what the module was found to have is still what it has.
LEMMA SoundStandby ==
  ASSUME NEW l, NEW t, NEW r, NEW q, NEW m, NEW c, Sound(l, r, q, m, c),
         SameStage(t, l), NewNumber(t, q), l.stage = "Standby", AsksFor(t, "MODE", <<FALSE>>)
  PROVE  Sound(t, r, q, m, c)
<1>1. t.frame = Mode(FALSE) /\ t.frame.command = "MODE" /\ t.stage = "Standby"
  BY DEF AsksFor, Mode, SameStage
<1>2. InStep(t, r) /\ Counts(t, r)
  BY <1>1 DEF Sound, InStep, Counts, Asking, Handling, AsksFor, SameStage, Commands
<1>3. ASSUME Settled(l, r, q, m) PROVE Settled(t, r, q, m)
  <2>1. Asks(t) /\ Uses(t, m) /\ InStage(t, m)
    BY <1>1, ModeShape DEF Asks, Uses, InStage
  <2>2. InHand(t, r, m)
    BY <1>1, <1>3 DEF Settled, InHand, Says
  <2>3. OnTheWay(t, q, m)
    BY DEF OnTheWay, Answers, NewNumber
  <2> QED
    BY <2>1, <2>2, <2>3 DEF Settled
<1> QED
  BY <1>2, <1>3 DEF Sound

\* While the pages are sent, the module stands by and has the ones before it.
LEMMA SoundPages ==
  ASSUME NEW l, NEW t, NEW r, NEW q, NEW m, NEW c, Sound(l, r, q, m, c),
         SameStage(t, l), NewNumber(t, q), l.stage = "Pages",
         NEW d \in t.sampled, AsksFor(t, "CONFIG", Page(l.page, l.binding, d))
  PROVE  Sound(t, r, q, m, c)
<1>1. /\ t.frame.command = "CONFIG" /\ t.stage = "Pages" /\ t.page = l.page
      /\ t.frame.arg = Page(t.page, t.binding, d) /\ t.frame.arg[1] = t.page
  BY PageShape DEF AsksFor, SameStage
<1>2. l.page \in 0 .. 4
  BY DEF Sound, Counts
<1>3. InStep(t, r) /\ Counts(t, r)
  BY <1>1, <1>2 DEF Sound, InStep, Counts, Asking, Handling, AsksFor, SameStage, Commands
<1>4. ASSUME Settled(l, r, q, m) PROVE Settled(t, r, q, m)
  <2>1. Clean(l, m) => Clean(t, m)
    BY DEF Clean, Own, SameStage
  <2>2. Asks(t) /\ Uses(t, m)
    BY <1>1, ModeShape DEF Asks, Uses
  <2>3. ~m.run /\ (t.page > 0 => Clean(t, m))
    BY <1>1, <1>4, <2>1 DEF Settled, InStage
  <2>4. \E p \in 0 .. 4, n \in t.sampled : t.frame.arg = Page(p, t.binding, n)
    BY <1>1, <1>2
  <2>5. InStage(t, m)
    BY <1>1, <1>2, <2>3, <2>4 DEF InStage
  <2>6. InHand(t, r, m)
    <3> SUFFICES ASSUME Handling(r), t.stage = r.stage PROVE InHand(t, r, m)
      BY DEF InHand
    <3>1. Says(r.frame, l, m)
      BY <1>1, <1>4 DEF Settled, InHand
    <3>2. ASSUME r.frame.command = "CONFIG", r.frame.arg = <<TRUE>> PROVE t.page # 0
      <4>1. l.frame.command = "CONFIG" /\ l.frame.arg[1] # 0
        BY <3>1, <3>2 DEF Says
      <4>2. \E p \in 0 .. 4, n \in l.sampled : l.frame.arg = Page(p, l.binding, n)
        BY <1>4, <4>1 DEF Settled, InStage
      <4>3. l.frame.arg[1] \in 0 .. 4
        BY <4>2, PageShape
      <4>4. l.frame.arg[1] <= l.page
        BY <1>4, <4>1 DEF Settled, InStage
      <4> QED
        BY <1>1, <1>2, <4>1, <4>3, <4>4
    <3>3. Says(r.frame, t, m)
      BY <1>1, <2>1, <3>1, <3>2 DEF Says
    <3> QED
      BY <1>1, <1>4, <3>3 DEF Settled, InHand
  <2>7. OnTheWay(t, q, m)
    BY DEF OnTheWay, Answers, NewNumber
  <2> QED
    BY <2>2, <2>5, <2>6, <2>7 DEF Settled
<1> QED
  BY <1>3, <1>4 DEF Sound

\* A bind is asked for with the four pages of a bind in the module.
LEMMA SoundBind ==
  ASSUME NEW l, NEW t, NEW r, NEW q, NEW m, NEW c, Sound(l, r, q, m, c),
         SameStage(t, l), NewNumber(t, q), l.stage = "Bind",
         AsksFor(t, "APPLY", <<>>)
  PROVE  Sound(t, r, q, m, c)
<1>1. t.frame.command = "APPLY" /\ t.stage = "Bind"
  BY DEF AsksFor, SameStage
<1>2. InStep(t, r) /\ Counts(t, r)
  BY <1>1 DEF Sound, InStep, Counts, Asking, Handling, AsksFor, SameStage, Commands
<1>3. ASSUME Settled(l, r, q, m) PROVE Settled(t, r, q, m)
  <2>1. Configured(t, m) /\ Configured(l, m) /\ l.binding = TRUE /\ t.binding
    <3>1. Configured(l, m) /\ l.binding
      BY <1>3 DEF Settled, InStage
    <3> QED
      BY <3>1 DEF Configured, Own, SameStage
  <2>2. Asks(t) /\ InStage(t, m)
    BY <1>1, <2>1, ModeShape DEF Asks, InStage
  <2>3. Uses(t, m)
    <3>1. ~m.restarted => \A p \in Pages : \E n \in t.sampled : m.pages[p] = Page(p, TRUE, n)
      BY <2>1 DEF Configured, Own, SameStage
    <3> QED
      BY <1>1, <3>1 DEF Uses
  <2>4. InHand(t, r, m)
    BY <1>1, <1>3 DEF Settled, InHand, Says
  <2>5. OnTheWay(t, q, m)
    BY DEF OnTheWay, Answers, NewNumber
  <2> QED
    BY <2>2, <2>3, <2>4, <2>5 DEF Settled
<1> QED
  BY <1>2, <1>3 DEF Sound

\* The module is started with the four pages of one configuration.
LEMMA SoundRun ==
  ASSUME NEW l, NEW t, NEW r, NEW q, NEW m, NEW c, Sound(l, r, q, m, c),
         SameStage(t, l), NewNumber(t, q), l.stage = "Run", AsksFor(t, "MODE", <<TRUE>>)
  PROVE  Sound(t, r, q, m, c)
<1>1. t.frame = Mode(TRUE) /\ t.frame.command = "MODE" /\ t.stage = "Run"
  BY DEF AsksFor, Mode, SameStage
<1>2. InStep(t, r) /\ Counts(t, r)
  BY <1>1 DEF Sound, InStep, Counts, Asking, Handling, AsksFor, SameStage, Commands
<1>3. ASSUME Settled(l, r, q, m) PROVE Settled(t, r, q, m)
  <2>1. Configured(t, m) /\ ~t.binding
    BY <1>3 DEF Settled, InStage, Configured, Own, SameStage
  <2>2. Asks(t) /\ Uses(t, m) /\ InStage(t, m)
    BY <1>1, <2>1, ModeShape DEF Asks, Uses, InStage
  <2>3. InHand(t, r, m)
    BY <1>1, <1>3 DEF Settled, InHand, Says
  <2>4. OnTheWay(t, q, m)
    BY DEF OnTheWay, Answers, NewNumber
  <2> QED
    BY <2>2, <2>3, <2>4 DEF Settled
<1> QED
  BY <1>2, <1>3 DEF Sound

\* What is left of an operation in use: all but the frame, and the settings noted, unless
\* the module is bound.
InUse(t, l) ==
  /\ l.stage = "Active" /\ t.stage = "Active" /\ t.page = l.page
  /\ t.binding = l.binding /\ t.bound = l.bound
  /\ l.bound /\ ~l.binding => l.sampled \subseteq t.sampled
  /\ t.pending \in {l.pending, None, "STATE"}

\* A module in use is polled, gets channels or is left alone.
LEMMA SoundInUse ==
  ASSUME NEW l, NEW t, NEW r, NEW q, NEW m, NEW c, Sound(l, r, q, m, c),
         InUse(t, l), l.binding \in BOOLEAN,
         \/ AsksFor(t, "STATE", <<>>) /\ NewNumber(t, q)
         \/ /\ t.operationState # "AWAITING" /\ t.frame.command = "CHANNELS"
            /\ l.bound /\ ~l.binding
         \/ t.operationState # "AWAITING" /\ t.frame.command = None
  PROVE  Sound(t, r, q, m, c)
<1>1. /\ t.frame.command \in {"STATE", "CHANNELS", None}
      /\ t.frame # Mode(FALSE) /\ t.frame # Mode(TRUE)
  <2>1. t.frame.command \in {"STATE", "CHANNELS", None}
    BY DEF AsksFor
  <2>2. Mode(FALSE).command = "MODE" /\ Mode(TRUE).command = "MODE"
    BY ModeShape
  <2> QED
    BY <2>1, <2>2 DEF None
<1>2. Asking(t) => t.frame.command = t.pendingCommand /\ t.frame.command = "STATE"
  BY DEF AsksFor, Asking
<1>3. InStep(t, r)
  BY <1>1, <1>2 DEF Sound, InStep, Asking, Handling, Commands, InUse
<1>4. Counts(t, r)
  BY DEF Sound, Counts, InUse, None
<1>5. ASSUME Settled(l, r, q, m) PROVE Settled(t, r, q, m)
  <2>1. Asks(t)
    BY <1>1 DEF Asks, InUse, None
  <2>2. ASSUME l.bound, ~l.binding
        PROVE  Configured(t, m) /\ (m.restarted \/ m.run)
    <3>1. Configured(l, m) /\ (m.restarted \/ m.run)
      BY <1>5, <2>2 DEF Settled, InStage, InUse
    <3>2. l.sampled \subseteq t.sampled /\ t.binding = l.binding
      BY <2>2 DEF InUse
    <3> QED
      BY <3>1, <3>2 DEF Configured, Own
  <2>3. InStage(t, m)
    BY <1>1, <2>2 DEF InStage, InUse, None
  <2>4. ASSUME t.frame.command = "CHANNELS", ~m.restarted
        PROVE  m.run /\ \A p \in Pages : \E n \in t.sampled : m.pages[p] = Page(p, FALSE, n)
    <3>1. l.bound /\ l.binding = FALSE /\ t.binding = FALSE
      BY <2>4 DEF AsksFor, None, InUse
    <3>2. m.run /\ Configured(t, m)
      BY <2>2, <2>4, <3>1
    <3> QED
      BY <2>4, <3>1, <3>2 DEF Configured, Own
  <2>5. Uses(t, m)
    BY <1>1, <2>4 DEF Uses, InUse, None
  <2>6. InHand(t, r, m)
    BY <1>5 DEF Settled, InHand, InUse, Says
  <2>7. OnTheWay(t, q, m)
    BY DEF OnTheWay, InUse, Says
  <2> QED
    BY <2>1, <2>3, <2>5, <2>6, <2>7 DEF Settled
<1> QED
  BY <1>3, <1>4, <1>5 DEF Sound

\* The configuration begins again from what is in use: an answer in hand belongs to another
\* stage and settles nothing.
LEMMA SoundReconfigure ==
  ASSUME NEW l, NEW t, NEW r, NEW q, NEW m, NEW c, Sound(l, r, q, m, c),
         NewNumber(t, q), l.stage = "Active", t.stage = "Standby", t.page = 0,
         AsksFor(t, "MODE", <<FALSE>>)
  PROVE  Sound(t, r, q, m, c)
<1>1. t.frame = Mode(FALSE) /\ t.frame.command = "MODE"
  BY DEF AsksFor, Mode
<1>2. InStep(t, r)
  BY <1>1 DEF Sound, InStep, Asking, Handling, AsksFor, Commands
<1>3. Counts(t, r)
  BY DEF Counts
<1>4. Asks(t) /\ Uses(t, m) /\ InStage(t, m)
  BY <1>1, ModeShape DEF Asks, Uses, InStage
<1>5. InHand(t, r, m)
  BY DEF Sound, InStep, InHand, Handling
<1>6. OnTheWay(t, q, m)
  BY DEF OnTheWay, Answers, NewNumber
<1> QED
  BY <1>2, <1>3, <1>4, <1>5, <1>6 DEF Sound, Settled

-----------------------------------------------------------------------------
(* What the operators of the transport make of a link.                     *)

\* The fields of a link and their types.
LEMMA Fields ==
  ASSUME NEW l \in Links
  PROVE  /\ l.operationState \in {"UNKNOWN", "AWAITING", "IDLE"}
         /\ l.repeatCount \in 0 .. MaxRetries
         /\ l.pendingIndex \in 0 .. Numbers - 1
         /\ l.pendingCommand \in Commands \union {None, "STOP", "CHANNELS"}
         /\ l.frame \in Frames /\ l.acknowledgements \in 0 .. MaxAcks
         /\ l.responsePending \in BOOLEAN
         /\ l.stage \in Stages /\ l.pending \in Commands \union {None, "STOP"}
         /\ l.page \in 0 .. 5 /\ l.readyTries \in 0 .. MaxReadyTries - 1
         /\ l.binding \in BOOLEAN /\ l.received \in BOOLEAN /\ l.bound \in BOOLEAN
         /\ l.synced \in BOOLEAN /\ l.applied \in Settings /\ l.sampled \subseteq Settings
BY LinkAssumption DEF Links

\* clear() forgets what was asked, not the stage.
LEMMA ClearShape ==
  ASSUME NEW s \in Links
  PROVE  /\ Clear(s) \in Links /\ SameStage(Clear(s), s)
         /\ Clear(s).sampled = s.sampled
         /\ Clear(s).operationState = "UNKNOWN" /\ Clear(s).frame = NoFrame
         /\ Clear(s).pending = s.pending /\ Clear(s).readyTries = s.readyTries
<1>1. 0 \in 0 .. MaxRetries /\ 0 \in 0 .. MaxAcks /\ NoFrame \in Frames
  BY LinkAssumption DEF Frames
<1> QED
  BY <1>1 DEF Links, Clear, SameStage

\* A failure keeps the operation, and has its standby to send.
LEMMA FailShape ==
  ASSUME NEW s \in Links
  PROVE  /\ FailBegins(s) \in Links /\ Fail(s) \in Links
         /\ FailBegins(s).stage = "Failed" /\ FailBegins(s).pending = "STOP"
         /\ FailBegins(s).operationState = s.operationState
         /\ FailBegins(s).pendingIndex = s.pendingIndex
         /\ FailBegins(s).pendingCommand = s.pendingCommand /\ FailBegins(s).frame = s.frame
         /\ FailBegins(s).page = s.page /\ FailBegins(s).applied = s.applied
         /\ FailBegins(s).sampled = s.sampled
         /\ Fail(s).stage = "Failed" /\ Fail(s).pending = "STOP"
         /\ Fail(s).operationState = "UNKNOWN" /\ Fail(s).frame = NoFrame
         /\ Fail(s).page = s.page /\ Fail(s).applied = s.applied /\ Fail(s).sampled = s.sampled
<1>1. /\ FailBegins(s) \in Links
      /\ FailBegins(s).stage = "Failed" /\ FailBegins(s).pending = "STOP"
      /\ FailBegins(s).operationState = s.operationState
      /\ FailBegins(s).pendingIndex = s.pendingIndex
      /\ FailBegins(s).pendingCommand = s.pendingCommand /\ FailBegins(s).frame = s.frame
      /\ FailBegins(s).page = s.page /\ FailBegins(s).applied = s.applied
      /\ FailBegins(s).sampled = s.sampled
  <2>1. "Failed" \in Stages /\ "STOP" \in Commands \union {None, "STOP"}
    BY DEF Stages
  <2> QED
    BY <2>1 DEF FailBegins, Links
<1> QED
  BY <1>1, ClearShape DEF Fail, SameStage

\* The handshake begun again is at its beginning.
LEMMA RestartShape ==
  ASSUME NEW s \in Links
  PROVE  /\ Restart(s) \in Links /\ Restart(s).stage = "Ready"
         /\ Restart(s).operationState = "UNKNOWN" /\ Restart(s).frame = NoFrame
         /\ Restart(s).page = 0 /\ Restart(s).pending = None
         /\ Restart(s).applied = s.applied /\ Restart(s).sampled = s.sampled
<1> DEFINE u == [s EXCEPT !.stage = "Ready", !.pending = None, !.page = 0, !.readyTries = 0,
                          !.error = FALSE, !.received = FALSE, !.synced = FALSE]
<1>1. 0 \in 0 .. MaxReadyTries - 1
  BY LinkAssumption
<1>2. /\ u \in Links /\ u.stage = "Ready" /\ u.page = 0 /\ u.pending = None
      /\ u.applied = s.applied /\ u.sampled = s.sampled
  <2>1. "Ready" \in Stages /\ None \in Commands \union {None, "STOP"} /\ 0 \in 0 .. 5
    BY DEF Stages
  <2> QED
    BY <1>1, <2>1 DEF Links
<1>3. Restart(s) = Clear(u)
  BY DEF Restart
<1> HIDE DEF u
<1> QED
  BY <1>2, <1>3, ClearShape DEF SameStage

\* A frame sent once has a new number, as a request has.
LEMMA SendOnceShape ==
  ASSUME NEW s \in Links, Typed, Len(toRadio) < MaxReplies, NEW command \in {"STOP", "CHANNELS"},
         [command |-> command, arg |-> <<>>] \in Frames
  PROVE  /\ PutFrame(s, command, <<>>, FALSE) \in Links
         /\ SameStage(PutFrame(s, command, <<>>, FALSE), s)
         /\ PutFrame(s, command, <<>>, FALSE).operationState = "IDLE"
         /\ PutFrame(s, command, <<>>, FALSE).frame = [command |-> command, arg |-> <<>>]
         /\ PutFrame(s, command, <<>>, FALSE).pending = s.pending
<1>1. FreshNumber(s) \in 0 .. Numbers - 1
  BY Fresh
<1>2. 0 \in 0 .. MaxRetries
  BY LinkAssumption
<1> QED
  BY <1>1, <1>2 DEF PutFrame, Links, SameStage

\* A request of the handshake or of its end.
LEMMA RequestShape ==
  ASSUME NEW s \in Links, Typed, Len(toRadio) < MaxReplies, NEW command \in Commands, NEW arg,
         [command |-> command, arg |-> arg] \in Frames
  PROVE  /\ Request(s, command, arg) \in Links
         /\ SameStage(Request(s, command, arg), s)
         /\ NewNumber(Request(s, command, arg), toRadio)
         /\ AsksFor(Request(s, command, arg), command, arg)
<1> DEFINE u == [s EXCEPT !.pending = command]
           t == PutFrame(u, command, arg, TRUE)
<1>1. u \in Links /\ SameStage(u, s) /\ u.pending = command
  BY DEF Links, SameStage
<1>2. Request(s, command, arg) = t
  BY DEF Request
<1> HIDE DEF u
<1>3. FreshNumber(u) \in 0 .. Numbers - 1
      /\ \A n \in 1 .. Len(toRadio) : toRadio[n].number # FreshNumber(u)
  BY Fresh
<1>4. 0 \in 0 .. MaxRetries
  BY LinkAssumption
<1>5. /\ t \in Links /\ SameStage(t, u) /\ NewNumber(t, toRadio)
      /\ t.operationState = "AWAITING" /\ t.pendingCommand = command
      /\ t.frame = [command |-> command, arg |-> arg] /\ t.pending = u.pending
  BY <1>1, <1>3, <1>4 DEF PutFrame, Links, SameStage, NewNumber
<1> HIDE DEF t
<1>6. SameStage(t, s) /\ AsksFor(t, command, arg)
  BY <1>1, <1>5 DEF SameStage, AsksFor
<1> QED
  BY <1>2, <1>5, <1>6

\* Every frame the handshake asks for is one.
LEMMA FrameShapes ==
  /\ \A command \in {"READY", "APPLY", "STATE", "STOP", "CHANNELS"} :
       [command |-> command, arg |-> <<>>] \in Frames
  /\ [command |-> "MODE", arg |-> <<TRUE>>] \in Frames
  /\ [command |-> "MODE", arg |-> <<FALSE>>] \in Frames
  /\ \A p \in 0 .. 5, b \in BOOLEAN, n \in Settings :
       Page(p, b, n) \in Contents /\ [command |-> "CONFIG", arg |-> Page(p, b, n)] \in Frames
<1>1. ASSUME NEW p \in 0 .. 5, NEW b \in BOOLEAN, NEW n \in Settings
      PROVE  Page(p, b, n) \in Contents /\ [command |-> "CONFIG", arg |-> Page(p, b, n)] \in Frames
  <2>1. (IF p = 0 THEN None ELSE n) \in Settings \union {None}
    OBVIOUS
  <2>2. Page(p, b, n) \in {<<i, a, j>> : i \in 0 .. 5, a \in BOOLEAN,
                                         j \in Settings \union {None}}
    BY <2>1 DEF Page
  <2>3. Page(p, b, n) \in Contents
    BY <2>2 DEF Contents
  <2> QED
    BY <2>3 DEF Frames
<1>2. /\ [command |-> "MODE", arg |-> <<TRUE>>] = Mode(TRUE)
      /\ [command |-> "MODE", arg |-> <<FALSE>>] = Mode(FALSE)
  BY DEF Mode
<1> QED
  BY <1>1, <1>2 DEF Frames

\* A frame is one of those above.
LEMMA FrameCases ==
  ASSUME NEW f \in Frames
  PROVE  /\ f.command \in {None, "READY", "APPLY", "STATE", "STOP", "CHANNELS", "MODE", "CONFIG"}
         /\ f.command = None <=> f = NoFrame
         /\ f.command = "MODE" => f = Mode(TRUE) \/ f = Mode(FALSE)
         /\ f.command = "CONFIG" => f.arg \in Contents
<1>1. CASE f = NoFrame
  BY <1>1 DEF NoFrame, None
<1>2. CASE f = Mode(TRUE) \/ f = Mode(FALSE)
  <2>1. Mode(TRUE).command = "MODE" /\ Mode(FALSE).command = "MODE"
    BY ModeShape
  <2>2. f.command = "MODE"
    BY <1>2, <2>1
  <2>3. f # NoFrame
    BY <2>2 DEF NoFrame, None
  <2> QED
    BY <1>2, <2>2, <2>3 DEF None
<1>3. ASSUME NEW command \in {"READY", "APPLY", "STATE", "STOP", "CHANNELS"},
             f = [command |-> command, arg |-> <<>>]
      PROVE  f.command = command /\ f # NoFrame
  BY <1>3 DEF NoFrame, None
<1>4. ASSUME NEW a \in Contents, f = [command |-> "CONFIG", arg |-> a]
      PROVE  f.command = "CONFIG" /\ f.arg = a /\ f # NoFrame
  BY <1>4 DEF NoFrame, None
<1> QED
  BY <1>1, <1>2, <1>3, <1>4 DEF Frames, None

-----------------------------------------------------------------------------
(* A tick up to its frame: what setupNb4Frame() leaves for sendBuffer().   *)

\* Only a request is sent more than once, only a failed link is stopped, and channels are
\* only sent with what the model has noted as applied.
Sendable(t) ==
  /\ t.frame.command \in Commands => Asking(t) /\ t.stage # "Failed"
  /\ t.frame.command = "STOP" => t.stage = "Failed"
  /\ t.frame.command = "CHANNELS" => t.applied = model

Prepared(t) ==
  /\ t \in Links /\ t.applied \in t.sampled /\ Sendable(t)
  /\ Sound(t, rx, toRadio, module, crossed)

\* What a tick begins with.
TickBegins(s) ==
  /\ Typed /\ Len(toRadio) < MaxReplies
  /\ s \in Links /\ s.applied \in s.sampled
  /\ Sound(s, rx, toRadio, module, crossed)

\* A request can be sent.
LEMMA RequestSendable ==
  ASSUME NEW t, NEW command \in Commands, NEW arg, AsksFor(t, command, arg), t.stage # "Failed"
  PROVE  Sendable(t)
BY DEF Sendable, AsksFor, Asking, Commands

\* What is noted of the settings changes nothing else.
LEMMA SavedShape ==
  ASSUME NEW s \in Links, model \in Settings
  PROVE  /\ Saved(s) \in Links /\ Saved(s).stage = s.stage /\ Saved(s).page = s.page
         /\ Saved(s).binding = s.binding /\ Saved(s).bound = s.bound
         /\ Saved(s).operationState = s.operationState /\ Saved(s).pending = s.pending
         /\ Changed(s) => Saved(s).applied = model /\ Saved(s).sampled = {model}
         /\ ~Changed(s) => Saved(s) = s
<1>1. CASE Changed(s)
  <2> DEFINE w == [Noted(s) EXCEPT !.dirty = FALSE]
  <2>1. Saved(s) = w
    BY <1>1 DEF Saved
  <2>2. Noted(s) \in Links
    BY DEF Links, Noted
  <2>3. w \in Links
    BY <2>2 DEF Links
  <2>4. /\ w.stage = s.stage /\ w.page = s.page
        /\ w.binding = s.binding /\ w.bound = s.bound
        /\ w.operationState = s.operationState /\ w.pending = s.pending
        /\ w.applied = model /\ w.sampled = {model}
    BY DEF Links, Noted
  <2> HIDE DEF w
  <2> QED
    BY <1>1, <2>1, <2>3, <2>4
<1>2. CASE ~Changed(s)
  BY <1>2 DEF Saved
<1> QED
  BY <1>1, <1>2

\* The requests of the handshake.
LEMMA HandshakeKeeps ==
  ASSUME NEW s, TickBegins(s), NEW u \in Links, SameStage(u, s),
         s.stage \notin {"Active", "Failed"}
  PROVE  Prepared(Handshake(u))
<1>1. /\ Typed /\ Len(toRadio) < MaxReplies /\ s \in Links /\ s.applied \in s.sampled
      /\ Sound(s, rx, toRadio, module, crossed) /\ model \in Settings
      /\ u.stage = s.stage /\ u.page = s.page /\ u.binding = s.binding
      /\ u.applied \in u.sampled
  BY DEF TickBegins, Typed, SameStage
<1>2. s.stage \in {"Ready", "Standby", "Pages", "Bind", "Run"}
  BY <1>1, Fields DEF Stages
<1>3. CASE s.stage = "Ready"
  <2> DEFINE t == Request(u, "READY", <<>>)
  <2>1. Handshake(u) = t
    BY <1>1, <1>3 DEF Handshake
  <2>2. t \in Links /\ SameStage(t, u) /\ AsksFor(t, "READY", <<>>)
    BY <1>1, FrameShapes, RequestShape DEF Commands
  <2> HIDE DEF t
  <2>3. SameStage(t, s) /\ t.stage = "Ready" /\ t.applied \in t.sampled
    BY <1>1, <1>3, <2>2 DEF SameStage
  <2>4. Sound(t, rx, toRadio, module, crossed)
    BY <1>1, <1>3, <2>2, <2>3, SoundAskReady DEF Sound, AsksFor
  <2>5. Sendable(t)
    BY <2>2, <2>3, RequestSendable DEF Commands
  <2> QED
    BY <2>1, <2>2, <2>3, <2>4, <2>5 DEF Prepared
<1>4. CASE s.stage = "Standby"
  <2> DEFINE t == Request(u, "MODE", <<FALSE>>)
  <2>1. Handshake(u) = t
    BY <1>1, <1>4 DEF Handshake
  <2>2. t \in Links /\ SameStage(t, u) /\ AsksFor(t, "MODE", <<FALSE>>) /\ NewNumber(t, toRadio)
    BY <1>1, FrameShapes, RequestShape DEF Commands
  <2> HIDE DEF t
  <2>3. SameStage(t, s) /\ t.stage = "Standby" /\ t.applied \in t.sampled
    BY <1>1, <1>4, <2>2 DEF SameStage
  <2>4. Sound(t, rx, toRadio, module, crossed)
    BY <1>1, <1>4, <2>2, <2>3, SoundStandby
  <2>5. Sendable(t)
    BY <2>2, <2>3, RequestSendable DEF Commands
  <2> QED
    BY <2>1, <2>2, <2>3, <2>4, <2>5 DEF Prepared
<1>5. CASE s.stage = "Pages"
  <2> DEFINE v == [u EXCEPT !.sampled = IF u.page = 0 THEN @ ELSE @ \union {model}]
             page == Page(s.page, s.binding, model)
             t == Request(v, "CONFIG", page)
  <2>1. Handshake(u) = t
    BY <1>1, <1>5 DEF Handshake, SendsPage
  <2>2. s.page \in 0 .. 5 /\ s.binding \in BOOLEAN
    BY <1>1, Fields
  <2>3. [command |-> "CONFIG", arg |-> page] \in Frames
    BY <1>1, <2>2, FrameShapes
  <2>4. v \in Links
    BY <1>1 DEF Links
  <2>5. SameStage(v, s) /\ (s.page # 0 => model \in v.sampled)
    BY <1>1 DEF Links, SameStage
  <2>6. \E n \in v.sampled : page = Page(s.page, s.binding, n)
    <3>1. s.applied \in v.sampled
      BY <1>1, <2>5 DEF SameStage
    <3>2. s.page = 0 => page = Page(s.page, s.binding, s.applied)
      BY DEF Page
    <3> QED
      BY <2>5, <3>1, <3>2
  <2> HIDE DEF v, page
  <2>7. t \in Links /\ SameStage(t, v) /\ AsksFor(t, "CONFIG", page) /\ NewNumber(t, toRadio)
    BY <1>1, <2>3, <2>4, RequestShape DEF Commands
  <2> HIDE DEF t
  <2>8. SameStage(t, s) /\ t.stage = "Pages" /\ t.applied \in t.sampled
    BY <1>1, <1>5, <2>5, <2>7 DEF SameStage
  <2>9. PICK n \in t.sampled : page = Page(s.page, s.binding, n)
    BY <2>6, <2>7 DEF SameStage
  <2>10. Sound(t, rx, toRadio, module, crossed)
    BY <1>1, <1>5, <2>7, <2>8, <2>9, SoundPages
  <2>11. Sendable(t)
    BY <2>7, <2>8, RequestSendable DEF Commands
  <2> QED
    BY <2>1, <2>7, <2>8, <2>10, <2>11 DEF Prepared
<1>6. CASE s.stage = "Bind"
  <2> DEFINE t == Request(u, "APPLY", <<>>)
  <2>1. Handshake(u) = t
    BY <1>1, <1>6 DEF Handshake
  <2>2. t \in Links /\ SameStage(t, u) /\ AsksFor(t, "APPLY", <<>>) /\ NewNumber(t, toRadio)
    BY <1>1, FrameShapes, RequestShape DEF Commands
  <2> HIDE DEF t
  <2>3. SameStage(t, s) /\ t.stage = "Bind" /\ t.applied \in t.sampled
    BY <1>1, <1>6, <2>2 DEF SameStage
  <2>4. Sound(t, rx, toRadio, module, crossed)
    BY <1>1, <1>6, <2>2, <2>3, SoundBind
  <2>5. Sendable(t)
    BY <2>2, <2>3, RequestSendable DEF Commands
  <2> QED
    BY <2>1, <2>2, <2>3, <2>4, <2>5 DEF Prepared
<1>7. CASE s.stage = "Run"
  <2> DEFINE t == Request(u, "MODE", <<TRUE>>)
  <2>1. Handshake(u) = t
    BY <1>1, <1>7 DEF Handshake
  <2>2. t \in Links /\ SameStage(t, u) /\ AsksFor(t, "MODE", <<TRUE>>) /\ NewNumber(t, toRadio)
    BY <1>1, FrameShapes, RequestShape DEF Commands
  <2> HIDE DEF t
  <2>3. SameStage(t, s) /\ t.stage = "Run" /\ t.applied \in t.sampled
    BY <1>1, <1>7, <2>2 DEF SameStage
  <2>4. Sound(t, rx, toRadio, module, crossed)
    BY <1>1, <1>7, <2>2, <2>3, SoundRun
  <2>5. Sendable(t)
    BY <2>2, <2>3, RequestSendable DEF Commands
  <2> QED
    BY <2>1, <2>2, <2>3, <2>4, <2>5 DEF Prepared
<1> QED
  BY <1>2, <1>3, <1>4, <1>5, <1>6, <1>7

\* What a module in use is sent: its new configuration, a poll, the channels or nothing.
LEMMA DriveKeeps ==
  ASSUME NEW s, TickBegins(s), NEW u \in Links, SameStage(u, s), s.stage = "Active",
         u.operationState # "AWAITING", u.pending \in {s.pending, None}, Drive(u)
  PROVE  \E t \in Links : Send(t) /\ Prepared(t)
<1> DEFINE w == Saved(u)
<1>1. /\ Typed /\ Len(toRadio) < MaxReplies /\ s \in Links /\ s.applied \in s.sampled
      /\ Sound(s, rx, toRadio, module, crossed) /\ model \in Settings
      /\ u.stage = "Active" /\ u.applied \in u.sampled /\ u.page = s.page
      /\ u.binding = s.binding /\ u.bound = s.bound /\ s.sampled \subseteq u.sampled
  BY DEF TickBegins, Typed, SameStage
<1>2. s.bound \in BOOLEAN /\ s.binding \in BOOLEAN
  BY <1>1, Fields
<1>3. /\ w \in Links /\ w.stage = "Active" /\ w.page = s.page
      /\ w.binding = s.binding /\ w.bound = s.bound
      /\ w.operationState # "AWAITING" /\ w.pending \in {s.pending, None}
      /\ w.applied \in w.sampled
      /\ ~Changed(u) => w.applied = u.applied /\ s.sampled \subseteq w.sampled
  BY <1>1, SavedShape
<1>4. CASE Changed(u) /\ u.bound
  <2> DEFINE v == [w EXCEPT !.stage = "Standby", !.page = 0]
             t == Request(v, "MODE", <<FALSE>>)
  <2>1. Send(t)
    BY <1>4 DEF Drive
  <2> HIDE DEF w
  <2>2. "Standby" \in Stages /\ 0 \in 0 .. 5
    BY DEF Stages
  <2>3. v \in Links
    BY <1>3, <2>2 DEF Links
  <2>4. v.stage = "Standby" /\ v.page = 0 /\ v.applied \in v.sampled
    BY <1>3, <1>4 DEF Links
  <2> HIDE DEF v
  <2>5. t \in Links /\ SameStage(t, v) /\ AsksFor(t, "MODE", <<FALSE>>) /\ NewNumber(t, toRadio)
    BY <1>1, <2>3, FrameShapes, RequestShape DEF Commands
  <2> HIDE DEF t
  <2>6. t.stage = "Standby" /\ t.page = 0 /\ t.applied \in t.sampled
    BY <1>2, <2>4, <2>5 DEF SameStage
  <2>7. Sound(t, rx, toRadio, module, crossed)
    BY <1>1, <2>5, <2>6, SoundReconfigure
  <2>8. Sendable(t)
    BY <2>5, <2>6, RequestSendable DEF Commands
  <2> QED
    BY <2>1, <2>5, <2>6, <2>7, <2>8 DEF Prepared
<1>5. CASE ~ (Changed(u) /\ u.bound)
  <2>1. \/ Send(Request(w, "STATE", <<>>))
        \/ u.bound /\ ~u.binding /\ Send(PutFrame(w, "CHANNELS", <<>>, FALSE))
        \/ ~ (u.bound /\ ~u.binding) /\ Send(SkipFrame(w))
    BY <1>5 DEF Drive
  <2> HIDE DEF w
  <2>2. s.bound /\ ~s.binding => s.sampled \subseteq w.sampled
    BY <1>1, <1>2, <1>3, <1>5
  <2>3. CASE Send(Request(w, "STATE", <<>>))
    <3> DEFINE t == Request(w, "STATE", <<>>)
    <3>1. t \in Links /\ SameStage(t, w) /\ AsksFor(t, "STATE", <<>>) /\ NewNumber(t, toRadio)
      BY <1>1, <1>3, FrameShapes, RequestShape DEF Commands
    <3> HIDE DEF t
    <3>2. InUse(t, s) /\ t.stage = "Active" /\ t.applied \in t.sampled
      BY <1>1, <1>3, <2>2, <3>1 DEF InUse, SameStage, AsksFor
    <3>3. Sound(t, rx, toRadio, module, crossed)
      BY <1>1, <1>2, <3>1, <3>2, SoundInUse
    <3>4. Sendable(t)
      BY <3>1, <3>2, RequestSendable DEF Commands
    <3> QED
      BY <2>3, <3>1, <3>2, <3>3, <3>4 DEF Prepared, t
  <2>4. CASE u.bound /\ ~u.binding /\ Send(PutFrame(w, "CHANNELS", <<>>, FALSE))
    <3> DEFINE t == PutFrame(w, "CHANNELS", <<>>, FALSE)
    <3>1. /\ t \in Links /\ SameStage(t, w) /\ t.operationState = "IDLE"
          /\ t.frame = [command |-> "CHANNELS", arg |-> <<>>] /\ t.pending = w.pending
      BY <1>1, <1>3, FrameShapes, SendOnceShape
    <3> HIDE DEF t
    <3>2. InUse(t, s) /\ t.stage = "Active" /\ t.applied \in t.sampled
      BY <1>1, <1>3, <2>2, <3>1 DEF InUse, SameStage
    <3>3. Sound(t, rx, toRadio, module, crossed)
      <4>1. s.bound /\ ~s.binding /\ t.operationState # "AWAITING" /\ t.frame.command = "CHANNELS"
        BY <1>1, <2>4, <3>1
      <4> QED
        BY <1>1, <1>2, <3>2, <4>1, SoundInUse
    <3>4. t.applied = model
      BY <1>1, <1>3, <1>5, <2>4, <3>1, SavedShape DEF Changed, SameStage, w
    <3>5. Sendable(t)
      BY <3>1, <3>4 DEF Sendable, Commands
    <3> QED
      BY <2>4, <3>1, <3>2, <3>3, <3>5 DEF Prepared, t
  <2>5. CASE Send(SkipFrame(w))
    <3> DEFINE t == SkipFrame(w)
    <3>1. NoFrame \in Frames
      BY DEF Frames
    <3>2. /\ t \in Links /\ SameStage(t, w) /\ t.operationState = w.operationState
          /\ t.frame = NoFrame /\ t.pending = w.pending
      BY <1>3, <3>1 DEF SkipFrame, Links, SameStage
    <3> HIDE DEF t
    <3>3. InUse(t, s) /\ t.stage = "Active" /\ t.applied \in t.sampled
      BY <1>1, <1>3, <2>2, <3>2 DEF InUse, SameStage
    <3>4. t.frame.command = None /\ t.operationState # "AWAITING"
      BY <1>3, <3>2 DEF NoFrame
    <3>5. Sound(t, rx, toRadio, module, crossed)
      BY <1>1, <1>2, <3>3, <3>4, SoundInUse
    <3>6. Sendable(t)
      BY <3>4 DEF Sendable, Commands, None
    <3> QED
      BY <2>5, <3>2, <3>3, <3>5, <3>6 DEF Prepared, t
  <2> QED
    BY <2>1, <2>3, <2>4, <2>5
<1> QED
  BY <1>4, <1>5

\* What is forgiven keeps its stage, and nothing is asked for any more.
LEMMA ForgivenShape ==
  ASSUME NEW s \in Links, Forgives(s)
  PROVE  /\ s.stage \in {"Ready", "Active"}
         /\ Forgiven(s) \in Links /\ SameStage(Forgiven(s), s)
         /\ Forgiven(s).operationState = "UNKNOWN" /\ Forgiven(s).pending = None
<1> DEFINE v == Clear(s)
           c == [v EXCEPT !.pending = None]
<1>1. /\ v \in Links /\ SameStage(v, s) /\ v.operationState = "UNKNOWN"
      /\ v.readyTries = s.readyTries
  BY ClearShape
<1> HIDE DEF v
<1>2. None \in Commands \union {None, "STOP"}
  OBVIOUS
<1>3. /\ c \in Links /\ SameStage(c, s) /\ c.operationState = "UNKNOWN"
      /\ c.readyTries = s.readyTries /\ c.pending = None
  BY <1>1, <1>2 DEF Links, SameStage
<1>4. Forgiven(s) = IF s.stage = "Ready" THEN [c EXCEPT !.readyTries = @ + 1]
                                         ELSE [c EXCEPT !.synced = FALSE]
  BY DEF Forgiven, v
<1> HIDE DEF c
<1>5. CASE s.stage = "Ready"
  <2>1. s.readyTries + 1 \in 0 .. MaxReadyTries - 1
    BY <1>5, Fields, LinkAssumption DEF Forgives, TriedOut
  <2> DEFINE w == [c EXCEPT !.readyTries = @ + 1]
  <2>2. w \in Links
    BY <1>3, <2>1 DEF Links
  <2>3. SameStage(w, s) /\ w.operationState = "UNKNOWN" /\ w.pending = None
    BY <1>3 DEF Links, SameStage
  <2>4. Forgiven(s) = w
    BY <1>4, <1>5
  <2> HIDE DEF w
  <2> QED
    BY <1>5, <2>2, <2>3, <2>4
<1>6. CASE s.stage = "Active"
  <2> DEFINE w == [c EXCEPT !.synced = FALSE]
  <2>1. w \in Links
    BY <1>3 DEF Links
  <2>2. SameStage(w, s) /\ w.operationState = "UNKNOWN" /\ w.pending = None
    BY <1>3 DEF Links, SameStage
  <2>3. Forgiven(s) = w
    BY <1>4, <1>6
  <2> HIDE DEF w
  <2> QED
    BY <1>6, <2>1, <2>2, <2>3
<1> QED
  BY <1>5, <1>6 DEF Forgives

\* Whatever a tick serves, it prepares one link and sends its frame.
LEMMA ServeKeeps ==
  ASSUME NEW s, TickBegins(s), Serve(s)
  PROVE  \E t \in Links : Send(t) /\ Prepared(t)
<1>1. /\ Typed /\ Len(toRadio) < MaxReplies /\ s \in Links /\ s.applied \in s.sampled
      /\ Sound(s, rx, toRadio, module, crossed)
      /\ InStep(s, rx) /\ Counts(s, rx)
  BY DEF TickBegins, Sound
<1>2. CASE Stop(s)
  <2> DEFINE u == [s EXCEPT !.pending = None]
             t == PutFrame(u, "STOP", <<>>, FALSE)
  <2>1. s.stage = "Failed" /\ Send(t)
    BY <1>2 DEF Stop
  <2>2. u \in Links /\ SameStage(u, s) /\ u.pending = None
    BY <1>1 DEF Links, SameStage
  <2> HIDE DEF u
  <2>3. /\ t \in Links /\ SameStage(t, u) /\ t.operationState = "IDLE"
        /\ t.frame = [command |-> "STOP", arg |-> <<>>] /\ t.pending = u.pending
    BY <1>1, <2>2, FrameShapes, SendOnceShape
  <2> HIDE DEF t
  <2>4. /\ t.stage = "Failed" /\ t.page = s.page /\ t.applied \in t.sampled
        /\ t.frame.command = "STOP" /\ t.pending # "CONFIG"
    BY <1>1, <2>1, <2>2, <2>3 DEF SameStage, None
  <2>5. Sound(t, rx, toRadio, module, crossed)
    BY <1>1, <2>3, <2>4, SoundGivenUp
  <2>6. Sendable(t)
    BY <2>4 DEF Sendable, Commands
  <2> QED
    BY <2>1, <2>3, <2>4, <2>5, <2>6 DEF Prepared
<1>3. CASE Retry(s)
  <2> DEFINE t == Restart(s)
  <2>1. Send(t)
    BY <1>3 DEF Retry
  <2>2. /\ t \in Links /\ t.stage = "Ready" /\ t.operationState = "UNKNOWN" /\ t.frame = NoFrame
        /\ t.page = 0 /\ t.pending = None /\ t.applied = s.applied /\ t.sampled = s.sampled
    BY <1>1, RestartShape
  <2> HIDE DEF t
  <2>3. Sound(t, rx, toRadio, module, crossed)
    BY <1>1, <2>2, SoundRestarted
  <2>4. Sendable(t)
    BY <2>2 DEF Sendable, Commands, NoFrame, None
  <2> QED
    BY <1>1, <2>1, <2>2, <2>3, <2>4 DEF Prepared
<1>4. CASE Wait(s)
  <2> DEFINE t == SkipFrame(s)
  <2>1. s.stage = "Failed" /\ s.pending # "STOP" /\ Send(t)
    BY <1>4 DEF Wait
  <2>2. NoFrame \in Frames
    BY DEF Frames
  <2>3. /\ t \in Links /\ SameStage(t, s) /\ t.operationState = s.operationState
        /\ t.frame = NoFrame /\ t.pending = s.pending
    BY <1>1, <2>2 DEF SkipFrame, Links, SameStage
  <2> HIDE DEF t
  <2>4. s.operationState # "AWAITING"
    BY <1>1, <2>1 DEF InStep, Asking
  <2>5. t.stage = "Failed" /\ t.page = s.page /\ t.applied \in t.sampled /\ t.frame.command = None
    BY <1>1, <2>1, <2>3 DEF SameStage, NoFrame
  <2>6. Sound(t, rx, toRadio, module, crossed)
    BY <1>1, <2>3, <2>4, <2>5, SoundGivenUp
  <2>7. Sendable(t)
    BY <2>5 DEF Sendable, Commands, None
  <2> QED
    BY <2>1, <2>3, <2>5, <2>6, <2>7 DEF Prepared
<1>5. CASE Resend(s)
  <2> DEFINE t == [s EXCEPT !.repeatCount = @ + 1]
  <2>1. s.stage # "Failed" /\ s.operationState = "AWAITING" /\ s.repeatCount < MaxRetries /\ Send(t)
    BY <1>5 DEF Resend
  <2>2. s.repeatCount + 1 \in 0 .. MaxRetries
    BY <1>1, <2>1, Fields, LinkAssumption
  <2>3. t \in Links
    BY <1>1, <2>2 DEF Links
  <2>4. /\ StageKept(t, s) /\ AsksNoMore(t, s)
        /\ t.operationState = s.operationState /\ t.frame = s.frame
    BY <1>1 DEF Links, StageKept, AsksNoMore
  <2> HIDE DEF t
  <2>5. Sound(t, rx, toRadio, module, crossed)
    BY <1>1, <2>4, SoundAlike
  <2>6. Sendable(t) /\ t.applied \in t.sampled
    BY <1>1, <2>1, <2>4 DEF Sendable, InStep, Asking, StageKept, Commands
  <2> QED
    BY <2>1, <2>3, <2>5, <2>6 DEF Prepared
<1>6. CASE GiveUp(s)
  <2> DEFINE t == Fail(s)
  <2>1. Send(t)
    BY <1>6 DEF GiveUp
  <2>2. /\ t \in Links /\ t.stage = "Failed" /\ t.pending = "STOP"
        /\ t.operationState = "UNKNOWN" /\ t.frame = NoFrame
        /\ t.page = s.page /\ t.applied = s.applied /\ t.sampled = s.sampled
    BY <1>1, FailShape
  <2> HIDE DEF t
  <2>3. t.frame.command = None
    BY <2>2 DEF NoFrame
  <2>4. Sound(t, rx, toRadio, module, crossed)
    BY <1>1, <2>2, <2>3, SoundGivenUp
  <2>5. Sendable(t)
    BY <2>3 DEF Sendable, Commands, None
  <2> QED
    BY <1>1, <2>1, <2>2, <2>4, <2>5 DEF Prepared
<1>7. CASE Go(s)
  <2> DEFINE u == IF s.operationState = "AWAITING" THEN Forgiven(s) ELSE s
  <2>1. /\ s.stage # "Failed"
        /\ s.operationState = "AWAITING" => Forgives(s)
        /\ IF u.stage = "Active" THEN Drive(u) ELSE Send(Handshake(u))
    BY <1>7 DEF Go
  <2>2. /\ u \in Links /\ SameStage(u, s) /\ u.operationState # "AWAITING"
        /\ u.pending \in {s.pending, None}
    <3>1. CASE s.operationState = "AWAITING"
      BY <1>1, <2>1, <3>1, ForgivenShape
    <3>2. CASE s.operationState # "AWAITING"
      BY <1>1, <3>2 DEF SameStage
    <3> QED
      BY <3>1, <3>2
  <2> HIDE DEF u
  <2>3. CASE s.stage = "Active"
    <3>1. Drive(u)
      BY <2>1, <2>2, <2>3 DEF SameStage
    <3> QED
      BY <2>2, <2>3, <3>1, DriveKeeps
  <2>4. CASE s.stage # "Active"
    <3>1. Send(Handshake(u))
      BY <2>1, <2>2, <2>4 DEF SameStage
    <3>2. Prepared(Handshake(u))
      BY <2>1, <2>2, <2>4, HandshakeKeeps
    <3> QED
      BY <3>1, <3>2 DEF Prepared
  <2> QED
    BY <2>3, <2>4
<1> QED
  BY <1>2, <1>3, <1>4, <1>5, <1>6, <1>7 DEF Serve

\* Entering and leaving the bind mode begins the handshake again.
LEMMA EnteredBegins ==
  ASSUME Inv, Len(toRadio) < MaxReplies
  PROVE  TickBegins(Entered)
<1>1. /\ Typed /\ link \in Links /\ link.applied \in link.sampled /\ bindMode \in BOOLEAN
      /\ Sound(link, rx, toRadio, module, crossed)
      /\ InStep(link, rx) /\ Counts(link, rx)
  BY DEF Inv, Typed, Sound
<1>2. CASE bindMode = link.binding
  BY <1>1, <1>2 DEF Entered, TickBegins
<1>3. CASE bindMode # link.binding
  <2> DEFINE u == [link EXCEPT !.binding = bindMode]
             t == Restart(u)
  <2>1. Entered = t
    BY <1>3 DEF Entered
  <2>2. u \in Links /\ u.applied = link.applied /\ u.sampled = link.sampled
    BY <1>1 DEF Links
  <2> HIDE DEF u
  <2>3. /\ t \in Links /\ t.stage = "Ready" /\ t.operationState = "UNKNOWN" /\ t.frame = NoFrame
        /\ t.page = 0 /\ t.pending = None /\ t.applied = link.applied /\ t.sampled = link.sampled
    BY <2>2, RestartShape
  <2> HIDE DEF t
  <2>4. Sound(t, rx, toRadio, module, crossed)
    BY <1>1, <2>3, SoundRestarted
  <2> QED
    BY <1>1, <2>1, <2>3, <2>4 DEF TickBegins
<1> QED
  BY <1>2, <1>3

\* A tick prepares one link and sends its frame.
LEMMA TickPrepares ==
  ASSUME Inv, Tick
  PROVE  \E t \in Links : Send(t) /\ Prepared(t)
<1> DEFINE s == Entered
<1>1. Len(toRadio) < MaxReplies /\ (Serve(s) \/ Serve(Fail(s)))
  BY DEF Tick
<1>2. TickBegins(s)
  BY <1>1, EnteredBegins
<1> HIDE DEF s
<1>3. TickBegins(Fail(s))
  <2> DEFINE t == Fail(s)
  <2>1. /\ Typed /\ Len(toRadio) < MaxReplies /\ s \in Links /\ s.applied \in s.sampled
        /\ InStep(s, rx) /\ Counts(s, rx)
    BY <1>2 DEF TickBegins, Sound
  <2>2. /\ t \in Links /\ t.stage = "Failed" /\ t.pending = "STOP"
        /\ t.operationState = "UNKNOWN" /\ t.frame = NoFrame
        /\ t.page = s.page /\ t.applied = s.applied /\ t.sampled = s.sampled
    BY <2>1, FailShape
  <2> HIDE DEF t
  <2>3. t.frame.command = None
    BY <2>2 DEF NoFrame
  <2>4. Sound(t, rx, toRadio, module, crossed)
    BY <2>1, <2>2, <2>3, SoundGivenUp
  <2> QED
    BY <2>1, <2>2, <2>4 DEF TickBegins, t
<1> QED
  BY <1>1, <1>2, <1>3, ServeKeeps

-----------------------------------------------------------------------------
(* A tick from its frame on: what the module does with it, and its answer. *)

\* An answer on its way may say what the module has.
LEMMA SoundReply ==
  ASSUME NEW t, NEW r, NEW q \in Seq(Replies), NEW m, NEW c, NEW a \in Replies,
         Sound(t, r, q, m, c), c \/ (Answers(t, a) => Says(a, t, m))
  PROVE  Sound(t, r, Append(q, a), m, c)
<1>1. ASSUME OnTheWay(t, q, m), Answers(t, a) => Says(a, t, m)
      PROVE  OnTheWay(t, Append(q, a), m)
  <2> DEFINE z == Append(q, a)
  <2>1. Len(z) = Len(q) + 1 /\ Len(q) \in Nat /\ z[Len(q) + 1] = a
        /\ \A n \in 1 .. Len(q) : z[n] = q[n]
    OBVIOUS
  <2> HIDE DEF z
  <2>2. ASSUME NEW n \in 1 .. Len(z), Answers(t, z[n]) PROVE Says(z[n], t, m)
    <3>1. CASE n = Len(q) + 1
      BY <1>1, <2>1, <2>2, <3>1
    <3>2. CASE n \in 1 .. Len(q)
      BY <1>1, <2>1, <2>2, <3>2 DEF OnTheWay
    <3> QED
      BY <2>1, <3>1, <3>2
  <2> QED
    BY <2>2 DEF OnTheWay, z
<1> QED
  BY <1>1 DEF Sound, Settled

\* The module takes a mode: it runs in the stages that have asked for it.
LEMMA SoundMode ==
  ASSUME NEW t, NEW r, NEW q, NEW m, NEW c, NEW on \in BOOLEAN, NEW z,
         Sound(t, r, q, m, c), Sendable(t), t.frame = Mode(on),
         z.run = on, z.pages = m.pages, z.restarted = m.restarted
  PROVE  /\ Sound(t, r, q, z, c)
         /\ \A a : c \/ (a.command = "MODE" => Says(a, t, z))
<1>1. t.frame.command = "MODE" /\ t.stage # "Failed" /\ Asking(t)
      /\ Mode(TRUE) # Mode(FALSE)
  BY ModeShape DEF Sendable, Commands
<1> SUFFICES ASSUME Settled(t, r, q, m)
             PROVE  Settled(t, r, q, z) /\ \A a : a.command = "MODE" => Says(a, t, z)
  BY DEF Sound
<1>2. /\ on => t.stage \in {"Run", "Active"}
      /\ ~on => t.stage \in {"Standby", "Pages", "Active"}
  <2>1. CASE on = TRUE
    BY <1>1, <2>1 DEF Settled, Asks
  <2>2. CASE on = FALSE
    BY <1>1, <2>2 DEF Settled, Asks
  <2> QED
    BY <2>1, <2>2
<1>3. /\ Clean(t, z) = Clean(t, m)
      /\ Configured(t, z) = Configured(t, m) /\ Complete(z.pages) = Complete(m.pages)
  BY DEF Clean, Configured, Own, Complete
<1>4. \A a : a.command = "MODE" => Says(a, t, z)
  BY <1>2 DEF Says
<1>5. \A a : Says(a, t, m) => Says(a, t, z)
  BY <1>2, <1>3 DEF Says
<1>6. InStage(t, z)
  <2>1. t.stage = "Active" /\ t.bound /\ ~t.binding => z.run
    <3>1. CASE on = TRUE
      BY <3>1
    <3>2. CASE on = FALSE
      BY <3>2 DEF Settled, InStage
    <3> QED
      BY <3>1, <3>2
  <2>2. t.stage = "Pages" => ~z.run
    BY <1>2
  <2> QED
    BY <1>1, <1>3, <2>1, <2>2 DEF Settled, InStage
<1>7. Uses(t, z)
  BY <1>1 DEF Uses
<1>8. InHand(t, r, z) /\ OnTheWay(t, q, z)
  BY <1>5 DEF Settled, InHand, OnTheWay
<1> QED
  BY <1>4, <1>6, <1>7, <1>8 DEF Settled

\* z is m with the page a: the first page begins a new batch.
TakenPage(z, m, a) ==
  /\ a[1] \in Pages /\ z.run = m.run
  /\ z.restarted <=> (m.restarted /\ a[1] # 0)
  /\ \A i \in Pages : z.pages[i] = IF i = a[1] THEN a ELSE IF a[1] = 0 THEN <<>> ELSE m.pages[i]

\* An answer to a page that does not say more than there is.
TellsPages(a, z) == a.command = "CONFIG" /\ (a.arg = <<TRUE>> => Complete(z.pages))

\* The module takes a page of the operation under way; the batch is whole only after the
\* pages that follow the first.
LEMMA SoundPage ==
  ASSUME NEW t, NEW r, NEW q, NEW m, NEW c, NEW z,
         Sound(t, r, q, m, c), Sendable(t), t.frame.command = "CONFIG",
         TakenPage(z, m, t.frame.arg)
  PROVE  /\ Sound(t, r, q, z, c)
         /\ \A a : c \/ (TellsPages(a, z) => Says(a, t, z))
<1> DEFINE p == t.frame.arg[1]
<1>1. t.stage # "Failed" /\ Asking(t)
  BY DEF Sendable, Commands
<1> SUFFICES ASSUME Settled(t, r, q, m)
             PROVE  /\ Settled(t, r, q, z)
                    /\ \A a : TellsPages(a, z) => Says(a, t, z)
  BY DEF Sound
<1>2. t.stage \in {"Pages", "Run", "Bind"}
  BY <1>1 DEF Settled, Asks
<1>3. PICK k \in 0 .. 4, x \in t.sampled : t.frame.arg = Page(k, t.binding, x)
  BY <1>2 DEF Settled, InStage
<1>4. k = p /\ t.frame.arg # <<>> /\ Own(t, z, p)
  <2>1. k = p /\ t.frame.arg # <<>>
    BY <1>3, PageShape
  <2> QED
    BY <1>3, <2>1 DEF Own, TakenPage
<1>5. /\ p \in Pages /\ z.run = m.run
      /\ z.restarted <=> (m.restarted /\ p # 0)
  BY DEF TakenPage
<1>6. /\ t.stage \in {"Run", "Bind"} => p # 0
      /\ t.stage = "Pages" => p <= t.page
  BY DEF Settled, InStage
<1>7. /\ \A i \in Pages : i # p => z.pages[i] = IF p = 0 THEN <<>> ELSE m.pages[i]
      /\ z.pages[p] = t.frame.arg
  BY DEF TakenPage
<1> HIDE DEF p
<1>8. \A i \in Pages : p # 0 /\ Own(t, m, i) => Own(t, z, i)
  BY <1>4, <1>7 DEF Own
<1>9. p # 0 /\ Complete(m.pages) => Complete(z.pages)
  BY <1>4, <1>5, <1>7 DEF Complete
<1>10. Complete(z.pages) => p # 0
  <2>1. 1 \in Pages /\ 1 # 0
    BY DEF Pages
  <2> QED
    BY <1>7, <2>1 DEF Complete
<1>11. t.stage = "Pages" => Clean(t, z)
  <2>1. CASE p = 0
    BY <1>4, <1>6, <1>7, <2>1 DEF Clean
  <2>2. CASE p # 0 /\ t.stage = "Pages"
    <3>1. t.page > 0
      BY <1>5, <1>6, <2>2 DEF Pages, Sound, Counts
    <3>2. Clean(t, m)
      BY <2>2, <3>1 DEF Settled, InStage
    <3>3. CASE m.restarted
      BY <1>5, <2>2, <3>3 DEF Clean
    <3>4. CASE ~m.restarted
      <4>1. ASSUME NEW i \in Pages
            PROVE  z.pages[i] = <<>> \/ (Own(t, z, i) /\ i <= t.page)
        <5>1. CASE i = p
          BY <1>4, <1>6, <2>2, <5>1
        <5>2. CASE i # p
          BY <1>7, <1>8, <2>2, <3>2, <3>4, <5>2 DEF Clean
        <5> QED
          BY <5>1, <5>2
      <4> QED
        BY <4>1 DEF Clean
    <3> QED
      BY <3>3, <3>4
  <2> QED
    BY <2>1, <2>2
<1>12. t.stage \in {"Run", "Bind"} => Configured(t, z)
  <2> SUFFICES ASSUME t.stage \in {"Run", "Bind"} PROVE Configured(t, z)
    OBVIOUS
  <2>1. Configured(t, m) /\ p # 0
    BY <1>6 DEF Settled, InStage
  <2> QED
    BY <1>5, <1>8, <2>1 DEF Configured
<1>13. \A a : TellsPages(a, z) => Says(a, t, z)
  BY <1>10, <1>11 DEF Says, TellsPages, p
<1>14. \A a : Says(a, t, m) => Says(a, t, z)
  <2> SUFFICES ASSUME NEW a, Says(a, t, m) PROVE Says(a, t, z)
    OBVIOUS
  <2>1. a.command = "MODE" /\ a.arg = <<TRUE>> /\ t.stage = "Run" => z.run \/ z.restarted
    BY <1>5, <1>6 DEF Says
  <2>2. ASSUME a.command = "CONFIG", t.stage = "Pages", a.arg = <<TRUE>>
        PROVE  p # 0 /\ (z.restarted \/ Complete(z.pages))
    BY <1>5, <1>9, <2>2 DEF Says, p
  <2> QED
    BY <1>2, <1>5, <1>11, <2>1, <2>2 DEF Says, p
<1>15. Asks(t)
  BY <1>1 DEF Settled
<1>16. InStage(t, z)
  BY <1>2, <1>5, <1>11, <1>12 DEF Settled, InStage
<1>17. Uses(t, z)
  BY DEF Uses
<1>18. InHand(t, r, z) /\ OnTheWay(t, q, z)
  BY <1>14 DEF Settled, InHand, OnTheWay
<1> QED
  BY <1>13, <1>15, <1>16, <1>17, <1>18 DEF Settled

\* A failed link that stops the module expects nothing of it.
LEMMA SoundStop ==
  ASSUME NEW t, NEW r, NEW q, NEW m, NEW c, NEW z,
         Sound(t, r, q, m, c), t.stage = "Failed", t.frame.command = "STOP"
  PROVE  Sound(t, r, q, z, c)
BY SoundFailed DEF Sound

\* sendBuffer() keeps the stage and what is asked; the module and its answer fit them.
LEMMA SendKeeps ==
  ASSUME NEW t, Typed, Len(toRadio) < MaxReplies, Prepared(t), Send(t),
         UNCHANGED <<rx, model>>
  PROVE  /\ link' \in Links /\ link'.applied \in link'.sampled /\ link'.stage = t.stage
         /\ toRadio' \in Seq(Replies) /\ Len(toRadio') <= MaxReplies /\ module' \in Modules
         /\ Sound(link', rx, toRadio', module', crossed)
<1> DEFINE f == t.frame
<1>1. /\ t \in Links /\ t.applied \in t.sampled /\ Sendable(t)
      /\ Sound(t, rx, toRadio, module, crossed)
      /\ toRadio \in Seq(Replies) /\ module \in Modules
      /\ MaxReplies \in Nat /\ Len(toRadio) \in Nat
  BY LinkAssumption DEF Prepared, Typed
<1>2. f \in Frames /\ t.acknowledgements \in 0 .. MaxAcks /\ MaxAcks \in Nat
  BY <1>1, Fields, LinkAssumption
<1>3. \/ t.acknowledgements > 0 /\ link' = [t EXCEPT !.acknowledgements = @ - 1]
         /\ UNCHANGED <<toRadio, module>>
      \/ link' = [t EXCEPT !.responsePending = FALSE] /\ UNCHANGED <<toRadio, module>>
      \/ link' = t /\ UNCHANGED <<toRadio, module>>
      \/ link' = t /\ Answered(f)
      \/ link' = t /\ Unanswered(f)
  BY DEF Send, Lost
<1>4. CASE t.acknowledgements > 0 /\ link' = [t EXCEPT !.acknowledgements = @ - 1]
           /\ UNCHANGED <<toRadio, module>>
  <2>1. t.acknowledgements - 1 \in 0 .. MaxAcks
    BY <1>2, <1>4
  <2>2. link' \in Links
    BY <1>1, <1>4, <2>1 DEF Links
  <2>3. StageKept(link', t) /\ AsksNoMore(link', t)
    BY <1>1, <1>4 DEF Links, StageKept, AsksNoMore
  <2>4. Sound(link', rx, toRadio, module, crossed)
    BY <1>1, <2>3, SoundAlike
  <2> QED
    BY <1>1, <1>4, <2>2, <2>3, <2>4 DEF StageKept
<1>5. CASE link' = [t EXCEPT !.responsePending = FALSE] /\ UNCHANGED <<toRadio, module>>
  <2>1. link' \in Links
    BY <1>1, <1>5 DEF Links
  <2>2. StageKept(link', t) /\ AsksNoMore(link', t)
    BY <1>1, <1>5 DEF Links, StageKept, AsksNoMore
  <2>3. Sound(link', rx, toRadio, module, crossed)
    BY <1>1, <2>2, SoundAlike
  <2> QED
    BY <1>1, <1>5, <2>1, <2>2, <2>3 DEF StageKept
<1>6. CASE link' = t /\ UNCHANGED <<toRadio, module>>
  BY <1>1, <1>6
<1>7. CASE link' = t /\ Unanswered(f)
  <2>1. /\ UNCHANGED toRadio
        /\ module' = IF f.command = "STOP" THEN [module EXCEPT !.run = FALSE] ELSE module
    BY <1>7 DEF Unanswered
  <2>2. module' \in Modules
    BY <1>1, <2>1 DEF Modules
  <2>3. Sound(t, rx, toRadio, module', crossed)
    <3>1. CASE f.command = "STOP"
      BY <1>1, <3>1, SoundStop DEF Sendable
    <3>2. CASE f.command # "STOP"
      BY <1>1, <2>1, <3>2
    <3> QED
      BY <3>1, <3>2
  <2> QED
    BY <1>1, <1>7, <2>1, <2>2, <2>3
<1>8. CASE link' = t /\ Answered(f)
  <2>1. f.command \in {"READY", "MODE", "CONFIG", "APPLY", "STATE"}
    BY <1>8 DEF Answered
  <2>2. PICK arg \in {<<>>, <<TRUE>>, <<FALSE>>} :
          /\ toRadio' = Append(toRadio, [command |-> f.command, number |-> t.pendingIndex,
                                         arg |-> arg])
          /\ \/ /\ Accepts(f)
                /\ f.command = "CONFIG" /\ arg = <<TRUE>> => Complete(module'.pages)
             \/ Refusable(f) /\ UNCHANGED module /\ arg = <<FALSE>>
    <3> DEFINE says == CASE f.command = "READY" -> module.up
                         [] f.command \in {"CONFIG", "APPLY"} -> Complete(module'.pages)
                         [] OTHER -> TRUE
    <3>1. \/ Accepts(f) /\ Reply(f, <<says>>)
          \/ Accepts(f) /\ Reply(f, <<>>)
          \/ Refusable(f) /\ Reply(f, <<FALSE>>) /\ UNCHANGED module
      BY <1>8 DEF Answered
    <3>2. says \in BOOLEAN /\ (f.command = "CONFIG" /\ says => Complete(module'.pages))
      <4>1. module.up \in BOOLEAN /\ Complete(module'.pages) \in BOOLEAN
        BY <1>1 DEF Modules, Complete
      <4>2. CASE f.command = "READY"
        BY <4>1, <4>2
      <4>3. CASE f.command \in {"CONFIG", "APPLY"}
        BY <4>1, <4>3
      <4>4. CASE f.command \in {"MODE", "STATE"}
        BY <4>4
      <4> QED
        BY <2>1, <4>2, <4>3, <4>4
    <3> HIDE DEF says
    <3>3. <<says>> \in {<<TRUE>>, <<FALSE>>} /\ (<<says>> = <<TRUE>> => says)
      BY <3>2
    <3>4. ASSUME NEW arg, Reply(f, arg)
          PROVE  toRadio' = Append(toRadio, [command |-> f.command, number |-> t.pendingIndex,
                                             arg |-> arg])
      BY <1>8, <3>4 DEF Reply
    <3>5. <<>> # <<TRUE>>
      OBVIOUS
    <3>6. CASE Accepts(f) /\ Reply(f, <<says>>)
      BY <3>2, <3>3, <3>4, <3>6
    <3>7. CASE Accepts(f) /\ Reply(f, <<>>)
      BY <3>4, <3>5, <3>7
    <3>8. CASE Refusable(f) /\ Reply(f, <<FALSE>>) /\ UNCHANGED module
      BY <3>4, <3>8
    <3> QED
      BY <3>1, <3>6, <3>7, <3>8
  <2> DEFINE a == [command |-> f.command, number |-> t.pendingIndex, arg |-> arg]
  <2>3. a \in Replies /\ a.command = f.command /\ a.arg = arg /\ <<FALSE>> # <<TRUE>>
    <3>1. t.pendingIndex \in -1 .. Numbers - 1
      BY <1>1, Fields, LinkAssumption
    <3>2. f.command \in Handshaking \union {"STATE", "NOTIFY", "LEARNED", "PAGE"}
      BY <2>1 DEF Handshaking
    <3>3. <<FALSE>> # <<TRUE>>
      OBVIOUS
    <3> QED
      BY <3>1, <3>2, <3>3 DEF Replies
  <2>4. toRadio' = Append(toRadio, a)
    BY <2>2
  <2> HIDE DEF a
  <2>5. toRadio' \in Seq(Replies) /\ Len(toRadio') <= MaxReplies
    BY <1>1, <2>3, <2>4
  <2>6. /\ module' \in Modules /\ Sound(t, rx, toRadio, module', crossed)
        /\ crossed \/ Says(a, t, module')
    <3>1. CASE f.command \in {"READY", "APPLY", "STATE"}
      <4>1. UNCHANGED module
        BY <2>2, <3>1 DEF Accepts
      <4>2. Says(a, t, module)
        BY <2>3, <3>1 DEF Says
      <4> QED
        BY <1>1, <4>1, <4>2
    <3>2. CASE f.command = "MODE"
      <4>1. CASE UNCHANGED module /\ arg = <<FALSE>>
        BY <1>1, <2>3, <3>2, <4>1 DEF Says
      <4>2. CASE Accepts(f)
        <5>1. PICK on \in BOOLEAN : f = Mode(on)
          BY <1>2, <3>2, FrameCases
        <5>2. module' = [module EXCEPT !.run = on]
          BY <3>2, <4>2, <5>1, ModeShape DEF Accepts
        <5>3. /\ module' \in Modules /\ module'.run = on
              /\ module'.pages = module.pages /\ module'.restarted = module.restarted
          BY <1>1, <5>2 DEF Modules
        <5>4. /\ Sound(t, rx, toRadio, module', crossed)
              /\ \A b : crossed \/ (b.command = "MODE" => Says(b, t, module'))
          BY <1>1, <5>1, <5>3, SoundMode
        <5> QED
          BY <2>3, <3>2, <5>3, <5>4
      <4> QED
        BY <2>2, <4>1, <4>2
    <3>3. CASE f.command = "CONFIG"
      <4>1. CASE Refusable(f) /\ UNCHANGED module /\ arg = <<FALSE>>
        <5>1. f.arg[1] = 3
          BY <3>3, <4>1 DEF Refusable
        <5>2. ASSUME t.stage = "Pages", ~crossed PROVE Clean(t, module)
          <6>1. f.arg[1] <= t.page /\ (t.page > 0 => Clean(t, module))
            BY <1>1, <3>3, <5>2 DEF Sound, Settled, InStage
          <6>2. t.page \in 0 .. 5
            BY <1>1, Fields
          <6> QED
            BY <5>1, <6>1, <6>2
        <5>3. crossed \/ Says(a, t, module)
          BY <2>3, <3>3, <4>1, <5>2 DEF Says
        <5> QED
          BY <1>1, <4>1, <5>3
      <4>2. CASE Accepts(f) /\ (arg = <<TRUE>> => Complete(module'.pages))
        <5> DEFINE p == f.arg[1]
        <5>1. /\ p \in Pages
              /\ module' = [module EXCEPT
                   !.pages = [i \in Pages |-> IF i = p THEN f.arg
                                             ELSE IF p = 0 THEN <<>> ELSE module.pages[i]],
                   !.restarted = module.restarted /\ p # 0]
          BY <3>3, <4>2 DEF Accepts, TakesPage
        <5>2. f.arg \in Contents /\ <<>> \in Contents
          <6>1. f.arg \in Contents
            BY <1>2, <3>3, FrameCases
          <6> QED
            BY <6>1 DEF Contents
        <5>3. TakenPage(module', module, f.arg)
          <6>1. /\ module'.run = module.run
                /\ module'.restarted <=> (module.restarted /\ p # 0)
                /\ \A i \in Pages : module'.pages[i] = IF i = p THEN f.arg
                                                    ELSE IF p = 0 THEN <<>> ELSE module.pages[i]
            BY <1>1, <5>1 DEF Modules
          <6> QED
            BY <5>1, <6>1 DEF TakenPage
        <5>4. module' \in Modules
          BY <1>1, <5>1, <5>2 DEF Modules
        <5>5. /\ Sound(t, rx, toRadio, module', crossed)
              /\ \A b : crossed \/ (TellsPages(b, module') => Says(b, t, module'))
          BY <1>1, <1>2, <3>3, <5>3, SoundPage
        <5>6. TellsPages(a, module')
          BY <2>3, <3>3, <4>2 DEF TellsPages
        <5> QED
          BY <5>4, <5>5, <5>6
      <4> QED
        BY <2>2, <3>3, <4>1, <4>2
    <3> QED
      BY <2>1, <3>1, <3>2, <3>3
  <2>7. Sound(t, rx, toRadio', module', crossed)
    BY <1>1, <2>3, <2>4, <2>6, SoundReply
  <2> QED
    BY <1>1, <1>8, <2>5, <2>6, <2>7
<1> QED
  BY <1>3, <1>4, <1>5, <1>6, <1>7, <1>8

-----------------------------------------------------------------------------
(* The receive task.                                                       *)

\* What a step of the receive task must leave, whatever the frame on its way and the module.
LeavesSound ==
  /\ link' \in Links /\ link'.applied \in link'.sampled /\ RxTyped'
  /\ Sound(link', rx', toRadio', module, crossed')

\* What a step of parseNb4Data() begins with.
HandleBegins ==
  /\ Inv /\ toRadio' = toRadio /\ crossed' = (crossed \/ SettledLate)

\* The parts of the invariant a step needs.
LEMMA InvParts ==
  ASSUME Inv
  PROVE  /\ link \in Links /\ link.applied \in link.sampled /\ RxTyped
         /\ model \in Settings
         /\ Sound(link, rx, toRadio, module, crossed)
         /\ InStep(link, rx) /\ Counts(link, rx)
         /\ crossed \in BOOLEAN /\ toRadio \in Seq(Replies) /\ module \in Modules
BY LinkAssumption DEF Inv, Typed, Sound

\* While a frame is handled it stays in hand with the stage it came in.
LEMMA AtShape ==
  ASSUME RxTyped, NEW from, NEW to \in Ats, At(from, to), from # "idle"
  PROVE  /\ rx.at = from /\ RxTyped' /\ rx'.at = to /\ rx.frame \in Replies
         /\ to # "idle" => rx'.frame = rx.frame /\ rx'.stage = rx.stage
<1>1. CASE to = "idle"
  BY <1>1 DEF RxTyped, Ats, At, Idle
<1>2. CASE to # "idle"
  BY <1>2 DEF RxTyped, At
<1> QED
  BY <1>1, <1>2

\* With no answer being settled the history does not change.
LEMMA NotCrossed ==
  ASSUME HandleBegins, rx.at \notin {"taken", "counting", "counted"}
  PROVE  crossed' = crossed
BY InvParts DEF HandleBegins, SettledLate

\* An answer that is settled without crossing an operation was found for its stage.
LEMMA Settling ==
  ASSUME HandleBegins, ~crossed', rx.at \in {"taken", "counting", "counted"},
         rx.frame.command \in Handshaking
  PROVE  /\ Settled(link, rx, toRadio, module)
         /\ Handling(rx) /\ link.stage = rx.stage
BY InvParts DEF HandleBegins, SettledLate, Sound, Handling

\* A frame that is dropped leaves the rest as it was.
LEMMA SoundDropped ==
  ASSUME NEW l, NEW r, NEW s, NEW q, NEW m, NEW c, Sound(l, r, q, m, c),
         s.at = "idle", r.at \notin {"failing", "counted"}
  PROVE  Sound(l, s, q, m, c)
<1>1. InStep(l, s) /\ Counts(l, s)
  BY DEF Sound, InStep, Counts, Handling
<1>2. InHand(l, s, m)
  BY DEF InHand, Handling
<1> QED
  BY <1>1, <1>2 DEF Sound, Settled

\* A report of the state, of a receiver or of a missing page: the handshake goes on as it was.
LEMMA NoticeKeeps ==
  ASSUME HandleBegins, ParseState \/ ParseLearned \/ ParsePage
  PROVE  LeavesSound
<1>1. At("parse", "idle")
  BY DEF ParseState, ParseLearned, ParsePage
<1>2. "idle" \in Ats
  BY DEF Ats
<1>3. rx.at = "parse" /\ RxTyped' /\ rx'.at = "idle" /\ rx.frame \in Replies
  BY <1>1, <1>2, AtShape, InvParts DEF HandleBegins
<1>4. crossed' = crossed /\ toRadio' = toRadio
  BY <1>3, NotCrossed DEF HandleBegins
<1>5. /\ link \in Links /\ link.applied \in link.sampled
      /\ Sound(link, rx, toRadio, module, crossed)
  BY InvParts DEF HandleBegins
<1>6. Sound(link, rx', toRadio, module, crossed)
  BY <1>3, <1>5, SoundDropped
<1>7. CASE ParseState
  <2>1. link' = [link EXCEPT !.synced = Good,
                             !.pending = IF rx.frame.command = "STATE" THEN None ELSE @]
    BY <1>7 DEF ParseState
  <2>2. Good \in BOOLEAN
    BY DEF Good
  <2>3. (IF rx.frame.command = "STATE" THEN None ELSE link.pending)
          \in Commands \union {None, "STOP"}
    BY <1>5, Fields
  <2>4. link' \in Links
    BY <1>5, <2>1, <2>2, <2>3 DEF Links
  <2>5. ~ (link.stage = "Failed" /\ Asking(link))
    BY <1>3, <1>5 DEF Sound, InStep
  <2>6. StageKept(link', link) /\ AsksNoMore(link', link)
    BY <1>5, <2>1, <2>5 DEF Links, StageKept, AsksNoMore
  <2> QED
    BY <1>3, <1>4, <1>5, <1>6, <2>4, <2>6, SoundAlike DEF LeavesSound, StageKept
<1>8. CASE ParseLearned
  <2>1. \/ link.binding /\ link' = [link EXCEPT !.bound = TRUE, !.received = TRUE]
        \/ link' = link
    BY <1>8 DEF ParseLearned
  <2>2. CASE link.binding /\ link' = [link EXCEPT !.bound = TRUE, !.received = TRUE]
    <3>1. link' \in Links
      BY <1>5, <2>2 DEF Links
    <3>2. StageKept(link', link) /\ AsksNoMore(link', link)
      BY <1>5, <2>2 DEF Links, StageKept, AsksNoMore
    <3> QED
      BY <1>3, <1>4, <1>5, <1>6, <3>1, <3>2, SoundAlike DEF LeavesSound, StageKept
  <2>3. CASE link' = link
    BY <1>3, <1>4, <1>5, <1>6, <2>3 DEF LeavesSound
  <2> QED
    BY <2>1, <2>2, <2>3
<1>9. CASE ParsePage
  <2>1. link' = [link EXCEPT !.responsePending = TRUE]
    BY <1>9 DEF ParsePage
  <2>2. link' \in Links
    BY <1>5, <2>1 DEF Links
  <2>3. StageKept(link', link) /\ AsksNoMore(link', link)
    BY <1>5, <2>1 DEF Links, StageKept, AsksNoMore
  <2> QED
    BY <1>3, <1>4, <1>5, <1>6, <2>2, <2>3, SoundAlike DEF LeavesSound, StageKept
<1> QED
  BY <1>7, <1>8, <1>9

\* handleReply(): what is asked was answered.
LEMMA MatchKeeps ==
  ASSUME HandleBegins, Match
  PROVE  LeavesSound
<1>1. At("matching", "parse") /\ link' = [link EXCEPT !.operationState = "IDLE"]
  BY DEF Match
<1>2. "parse" \in Ats
  BY DEF Ats
<1>3. /\ rx.at = "matching" /\ RxTyped' /\ rx'.at = "parse"
      /\ rx'.frame = rx.frame /\ rx'.stage = rx.stage
  BY <1>1, <1>2, AtShape, InvParts DEF HandleBegins
<1>4. crossed' = crossed /\ toRadio' = toRadio
  BY <1>3, NotCrossed DEF HandleBegins
<1>5. /\ link \in Links /\ link.applied \in link.sampled
      /\ Sound(link, rx, toRadio, module, crossed)
  BY InvParts DEF HandleBegins
<1>6. link' \in Links
  BY <1>1, <1>5 DEF Links
<1>7. StageKept(link', link) /\ AsksNoMore(link', link)
  BY <1>1, <1>5 DEF Links, StageKept, AsksNoMore
<1>8. Sound(link', rx, toRadio, module, crossed)
  BY <1>5, <1>7, SoundAlike
<1>9. Sound(link', rx', toRadio, module, crossed)
  <2>1. InStep(link', rx') /\ Counts(link', rx')
    BY <1>3, <1>8 DEF Sound, InStep, Counts, Handling
  <2>2. InHand(link', rx, module) => InHand(link', rx', module)
    BY <1>3 DEF InHand, Handling
  <2> QED
    BY <1>8, <2>1, <2>2 DEF Sound, Settled
<1> QED
  BY <1>3, <1>4, <1>5, <1>6, <1>7, <1>9 DEF LeavesSound, StageKept

\* parseNb4Data() finds the command of the answer pending, or drops it.
LEMMA ParseAnswerKeeps ==
  ASSUME HandleBegins, ParseAnswer
  PROVE  LeavesSound
<1>1. /\ link' = link
      /\ At("parse", IF rx.frame.command = link.pending THEN "matched" ELSE "idle")
  BY DEF ParseAnswer
<1>2. /\ link \in Links /\ link.applied \in link.sampled
      /\ Sound(link, rx, toRadio, module, crossed)
  BY InvParts DEF HandleBegins
<1>3. CASE rx.frame.command = link.pending
  <2>1. "matched" \in Ats /\ At("parse", "matched")
    BY <1>1, <1>3 DEF Ats
  <2>2. /\ rx.at = "parse" /\ RxTyped' /\ rx'.at = "matched"
        /\ rx'.frame = rx.frame /\ rx'.stage = rx.stage
    BY <2>1, AtShape, InvParts DEF HandleBegins
  <2>3. crossed' = crossed /\ toRadio' = toRadio
    BY <2>2, NotCrossed DEF HandleBegins
  <2>4. InStep(link, rx') /\ Counts(link, rx')
    BY <1>2, <1>3, <2>2 DEF Sound, InStep, Counts, Handling
  <2>5. InHand(link, rx, module) => InHand(link, rx', module)
    BY <2>2 DEF InHand, Handling
  <2>6. Sound(link, rx', toRadio, module, crossed)
    BY <1>2, <2>4, <2>5 DEF Sound, Settled
  <2> QED
    BY <1>1, <1>2, <2>2, <2>3, <2>6 DEF LeavesSound
<1>4. CASE rx.frame.command # link.pending
  <2>1. "idle" \in Ats /\ At("parse", "idle")
    BY <1>1, <1>4 DEF Ats
  <2>2. rx.at = "parse" /\ RxTyped' /\ rx'.at = "idle"
    BY <2>1, AtShape, InvParts DEF HandleBegins
  <2>3. crossed' = crossed /\ toRadio' = toRadio
    BY <2>2, NotCrossed DEF HandleBegins
  <2>4. Sound(link, rx', toRadio, module, crossed)
    BY <1>2, <2>2, SoundDropped
  <2> QED
    BY <1>1, <1>2, <2>2, <2>3, <2>4 DEF LeavesSound
<1> QED
  BY <1>3, <1>4

\* The answer is taken: nothing is pending any more.
LEMMA TakeKeeps ==
  ASSUME HandleBegins, Take
  PROVE  LeavesSound
<1> DEFINE to == IF rx.frame.command = "CONFIG" /\ ~Short THEN "counting" ELSE "taken"
<1>1. link' = [link EXCEPT !.pending = None] /\ At("matched", to)
  BY DEF Take
<1>2. to \in Ats /\ to # "idle" /\ to \in {"counting", "taken"}
      /\ (to = "counting" => rx.frame.command = "CONFIG")
  BY DEF Ats
<1> HIDE DEF to
<1>3. /\ rx.at = "matched" /\ RxTyped' /\ rx'.at = to
      /\ rx'.frame = rx.frame /\ rx'.stage = rx.stage
  BY <1>1, <1>2, AtShape, InvParts DEF HandleBegins
<1>4. crossed' = crossed /\ toRadio' = toRadio
  BY <1>3, NotCrossed DEF HandleBegins
<1>5. /\ link \in Links /\ link.applied \in link.sampled
      /\ Sound(link, rx, toRadio, module, crossed)
  BY InvParts DEF HandleBegins
<1>6. None \in Commands \union {None, "STOP"}
  OBVIOUS
<1>7. link' \in Links /\ link'.pending = None
  BY <1>1, <1>5, <1>6 DEF Links
<1>8. StageKept(link', link) /\ AsksNoMore(link', link)
  <2>1. ~ (link.stage = "Failed" /\ Asking(link))
    BY <1>3, <1>5 DEF Sound, InStep
  <2> QED
    BY <1>1, <1>5, <2>1 DEF Links, StageKept, AsksNoMore
<1>9. Sound(link', rx, toRadio, module, crossed)
  BY <1>5, <1>8, SoundAlike
<1>10. Sound(link', rx', toRadio, module, crossed)
  <2>1. InStep(link', rx')
    BY <1>2, <1>3, <1>9 DEF Sound, InStep, Handling
  <2>2. Counts(link', rx')
    BY <1>2, <1>3, <1>7, <1>9 DEF Sound, Counts, None
  <2>3. InHand(link', rx, module) => InHand(link', rx', module)
    BY <1>2, <1>3 DEF InHand, Handling
  <2> QED
    BY <1>9, <2>1, <2>2, <2>3 DEF Sound, Settled
<1> QED
  BY <1>3, <1>4, <1>5, <1>7, <1>8, <1>10 DEF LeavesSound, StageKept

\* A refusal: whatever was asked, the link has failed.
LEMMA RefusedKeeps ==
  ASSUME HandleBegins, NEW from \in {"taken", "counted"}, At(from, "failing"),
         link' = FailBegins(link)
  PROVE  LeavesSound
<1>1. "failing" \in Ats /\ "failing" # "idle" /\ from # "idle"
  BY DEF Ats
<1>2. rx.at = from /\ RxTyped' /\ rx'.at = "failing"
  BY <1>1, AtShape, InvParts DEF HandleBegins
<1>3. /\ link \in Links /\ link.applied \in link.sampled /\ toRadio' = toRadio
      /\ Sound(link, rx, toRadio, module, crossed) /\ crossed \in BOOLEAN
      /\ InStep(link, rx) /\ Counts(link, rx)
  BY InvParts DEF HandleBegins
<1>4. /\ link' \in Links /\ link'.stage = "Failed" /\ link'.pending = "STOP"
      /\ link'.operationState = link.operationState /\ link'.pendingIndex = link.pendingIndex
      /\ link'.pendingCommand = link.pendingCommand /\ link'.frame = link.frame
      /\ link'.page = link.page /\ link'.applied = link.applied /\ link'.sampled = link.sampled
  BY <1>3, FailShape
<1>5. InStep(link', rx')
  BY <1>2, <1>3, <1>4 DEF InStep, Asking, Handling
<1>6. Counts(link', rx')
  BY <1>2, <1>3, <1>4 DEF Counts
<1>7. ASSUME ~crossed' PROVE Settled(link', rx', toRadio, module)
  <2>1. Settled(link, rx, toRadio, module)
    BY <1>3, <1>7 DEF HandleBegins, Sound
  <2>2. Asks(link')
    BY <1>4 DEF Asks
  <2>3. InStage(link', module)
    BY <1>4, <2>1 DEF Settled, InStage
  <2>4. Uses(link', module)
    BY <1>4, <2>1 DEF Settled, Uses
  <2>5. InHand(link', rx', module)
    BY <1>2 DEF InHand, Handling
  <2>6. OnTheWay(link', toRadio, module)
    BY <1>4 DEF OnTheWay, Says
  <2> QED
    BY <2>2, <2>3, <2>4, <2>5, <2>6 DEF Settled
<1>8. crossed' \in BOOLEAN
  BY <1>3 DEF HandleBegins, SettledLate
<1> QED
  BY <1>2, <1>3, <1>4, <1>5, <1>6, <1>7, <1>8 DEF LeavesSound, Sound

\* An answer that moves the handshake on, or leaves it: what is asked stays, and the frame is
\* done with.  Only that the new stage is right is left to show.
LEMMA MovesOn ==
  ASSUME HandleBegins, NEW from \in {"taken", "counted"}, At(from, "idle"),
         link' \in Links, link'.applied \in link'.sampled,
         link'.stage \notin {"Ready", "Failed"} \/ link'.stage = link.stage,
         link'.operationState = link.operationState, link'.pendingCommand = link.pendingCommand,
         link'.frame = link.frame, link'.pending = link.pending,
         link'.page = 0 \/ (link'.page = link.page /\ link'.stage # "Pages")
           \/ (link'.page = link.page /\ link'.stage = link.stage /\ from = "taken"),
         ~crossed' => /\ Asking(link') => Asks(link')
                      /\ InStage(link', module) /\ Uses(link', module)
                      /\ OnTheWay(link', toRadio, module)
  PROVE  LeavesSound
<1>1. "idle" \in Ats /\ from # "idle"
  BY DEF Ats
<1>2. rx.at = from /\ RxTyped' /\ rx'.at = "idle"
  BY <1>1, AtShape, InvParts DEF HandleBegins
<1>3. /\ toRadio' = toRadio /\ InStep(link, rx) /\ Counts(link, rx) /\ crossed \in BOOLEAN
  BY InvParts DEF HandleBegins
<1>4. InStep(link', rx')
  BY <1>2, <1>3 DEF InStep, Asking, Handling
<1>5. Counts(link', rx')
  BY <1>2, <1>3 DEF Counts
<1>6. InHand(link', rx', module)
  BY <1>2 DEF InHand, Handling
<1>7. crossed' \in BOOLEAN
  BY <1>3 DEF HandleBegins, SettledLate
<1>8. crossed' \/ Settled(link', rx', toRadio', module)
  BY <1>3, <1>6 DEF Settled
<1> QED
  BY <1>2, <1>4, <1>5, <1>7, <1>8 DEF LeavesSound, Sound

\* The module is there: the handshake goes on with its standby.
LEMMA SettleReadyKeeps ==
  ASSUME HandleBegins, SettleReady
  PROVE  LeavesSound
<1>1. /\ link \in Links /\ link.applied \in link.sampled /\ toRadio' = toRadio
      /\ Sound(link, rx, toRadio, module, crossed)
  BY InvParts DEF HandleBegins
<1>2. \/ Refused
      \/ ~TriedOut(link) /\ Settles([link EXCEPT !.readyTries = @ + 1], "idle")
      \/ Settles([link EXCEPT !.stage = "Standby", !.synced = FALSE], "idle")
  BY DEF SettleReady
<1>3. CASE Refused
  BY <1>3, RefusedKeeps DEF Refused, Settles
<1>4. CASE ~TriedOut(link) /\ Settles([link EXCEPT !.readyTries = @ + 1], "idle")
  <2>1. link' = [link EXCEPT !.readyTries = @ + 1] /\ At("taken", "idle")
    BY <1>4 DEF Settles
  <2>2. link.readyTries + 1 \in 0 .. MaxReadyTries - 1
    BY <1>1, <1>4, Fields, LinkAssumption DEF TriedOut
  <2>3. link' \in Links
    BY <1>1, <2>1, <2>2 DEF Links
  <2>4. StageKept(link', link) /\ AsksNoMore(link', link)
    BY <1>1, <2>1 DEF Links, StageKept, AsksNoMore
  <2>5. "idle" \in Ats
    BY DEF Ats
  <2>6. rx.at = "taken" /\ RxTyped' /\ rx'.at = "idle"
    BY <2>1, <2>5, AtShape, InvParts DEF HandleBegins
  <2>7. Sound(link', rx', toRadio, module, crossed)
    BY <1>1, <2>4, <2>6, SoundAlike, SoundDropped
  <2>8. Sound(link', rx', toRadio, module, crossed')
    BY <2>7 DEF Sound, HandleBegins
  <2> QED
    BY <1>1, <2>3, <2>4, <2>6, <2>8 DEF LeavesSound, StageKept
<1>5. CASE Settles([link EXCEPT !.stage = "Standby", !.synced = FALSE], "idle")
  <2>1. link' = [link EXCEPT !.stage = "Standby", !.synced = FALSE] /\ At("taken", "idle")
    BY <1>5 DEF Settles
  <2>2. "Standby" \in Stages
    BY DEF Stages
  <2>3. link' \in Links
    BY <1>1, <2>1, <2>2 DEF Links
  <2>4. /\ link'.stage = "Standby" /\ link'.operationState = link.operationState
        /\ link'.pendingCommand = link.pendingCommand /\ link'.frame = link.frame
        /\ link'.pending = link.pending /\ link'.page = link.page
        /\ link'.applied = link.applied
        /\ link'.sampled = link.sampled /\ link'.binding = link.binding
        /\ link'.pendingIndex = link.pendingIndex
    BY <1>1, <2>1 DEF Links
  <2>5. ASSUME ~crossed'
        PROVE  /\ Asking(link') => Asks(link')
               /\ InStage(link', module) /\ Uses(link', module)
               /\ OnTheWay(link', toRadio, module)
    <3>1. rx.at = "taken" /\ rx.frame.command = "READY"
      BY <1>5 DEF SettleReady, Settles, At
    <3>2. /\ Settled(link, rx, toRadio, module)
          /\ Handling(rx) /\ link.stage = rx.stage
      BY <2>5, <3>1, Settling DEF Handshaking
    <3>3. link.stage \in {"Ready", "Standby"}
      BY <3>1, <3>2 DEF Settled, InHand
    <3>4. link.stage = "Ready" => link.frame.command \in {None, "READY"}
      BY InvParts DEF HandleBegins, InStep
    <3>5. link.stage = "Standby" =>
            link.frame.command \in {None, "READY"} \/ link.frame = Mode(FALSE)
      BY <3>2 DEF Settled, InStage
    <3>6. \/ link.frame.command \in {None, "READY"}
          \/ link.stage = "Standby" /\ link.frame = Mode(FALSE) /\ link.frame.command = "MODE"
      BY <3>3, <3>4, <3>5, ModeShape
    <3>7. Mode(TRUE).command = "MODE" /\ Mode(FALSE).command = "MODE" /\ Mode(TRUE) # Mode(FALSE)
      BY ModeShape
    <3>8. Asks(link') /\ InStage(link', module) /\ Uses(link', module)
      BY <2>4, <3>6, <3>7 DEF Asks, InStage, Uses, None
    <3>9. ASSUME NEW n \in 1 .. Len(toRadio), Answers(link', toRadio[n])
          PROVE  Says(toRadio[n], link', module)
      <4>1. toRadio[n].command = link.frame.command /\ Answers(link, toRadio[n])
        BY <2>4, <3>9, InvParts DEF Answers, HandleBegins, InStep, Asking
      <4>2. CASE link.frame.command \in {None, "READY"}
        BY <4>1, <4>2 DEF Says, None
      <4>3. CASE link.stage = "Standby" /\ link.frame.command = "MODE"
        <5>1. Says(toRadio[n], link, module)
          BY <3>2, <4>1 DEF Settled, OnTheWay
        <5> QED
          BY <2>4, <4>1, <4>3, <5>1 DEF Says
      <4> QED
        BY <3>6, <4>2, <4>3
    <3> QED
      BY <3>8, <3>9 DEF OnTheWay
  <2> QED
    BY <1>1, <2>1, <2>3, <2>4, <2>5, MovesOn
<1> QED
  BY <1>2, <1>3, <1>4, <1>5

\* The module has the mode: the pages follow a standby, and use follows a start.
LEMMA SettleModeKeeps ==
  ASSUME HandleBegins, SettleMode
  PROVE  LeavesSound
<1>1. /\ link \in Links /\ link.applied \in link.sampled /\ toRadio' = toRadio
      /\ Sound(link, rx, toRadio, module, crossed) /\ model \in Settings
      /\ InStep(link, rx)
  BY InvParts DEF HandleBegins
<1>2. /\ rx.frame.command = "MODE" /\ rx.at = "taken"
      /\ \/ ~Good /\ Refused
         \/ Good /\ link.stage = "Standby"
            /\ Settles([Noted(link) EXCEPT !.synced = FALSE, !.page = 0,
                       !.stage = IF link.binding \/ link.bound THEN "Pages" ELSE "Active"], "idle")
         \/ Good /\ link.stage = "Run"
            /\ Settles([link EXCEPT !.synced = FALSE, !.stage = "Active"], "idle")
         \/ Good /\ link.stage \notin {"Standby", "Run"} /\ Settles(link, "idle")
  BY DEF SettleMode, Settles, At, Refused
<1>3. ASSUME ~crossed'
      PROVE  /\ Settled(link, rx, toRadio, module)
             /\ Handling(rx) /\ link.stage = rx.stage /\ Says(rx.frame, link, module)
             /\ link.stage = "Standby" => link.frame = Mode(FALSE)
             /\ link.stage = "Run" => link.frame = Mode(TRUE)
  <2>1. /\ Settled(link, rx, toRadio, module)
        /\ Handling(rx) /\ link.stage = rx.stage
    BY <1>2, <1>3, Settling DEF Handshaking
  <2> QED
    BY <1>2, <2>1 DEF Settled, InHand
<1>4. Mode(TRUE).command = "MODE" /\ Mode(FALSE).command = "MODE" /\ Mode(TRUE) # Mode(FALSE)
  BY ModeShape
<1>5. CASE Refused
  BY <1>5, RefusedKeeps DEF Refused, Settles
<1>6. CASE Good /\ link.stage = "Standby"
           /\ Settles([Noted(link) EXCEPT !.synced = FALSE, !.page = 0,
                        !.stage = IF link.binding \/ link.bound THEN "Pages" ELSE "Active"], "idle")
  <2> DEFINE to == IF link.binding \/ link.bound THEN "Pages" ELSE "Active"
  <2>1. /\ link' = [Noted(link) EXCEPT !.synced = FALSE, !.page = 0, !.stage = to]
        /\ At("taken", "idle")
    BY <1>6 DEF Settles
  <2>2. to \in Stages /\ to \in {"Pages", "Active"} /\ 0 \in 0 .. 5
        /\ (to = "Active" => ~link.bound)
    BY DEF Stages
  <2> HIDE DEF to
  <2>3. link' \in Links
    BY <1>1, <2>1, <2>2 DEF Links, Noted
  <2>4. /\ link'.stage = to /\ link'.operationState = link.operationState
        /\ link'.pendingCommand = link.pendingCommand /\ link'.frame = link.frame
        /\ link'.pending = link.pending /\ link'.page = 0
        /\ link'.applied = model /\ link'.sampled = {model} /\ link'.bound = link.bound
    BY <1>1, <2>1 DEF Links, Noted
  <2>5. ASSUME ~crossed'
        PROVE  /\ Asking(link') => Asks(link')
               /\ InStage(link', module) /\ Uses(link', module)
               /\ OnTheWay(link', toRadio, module)
    <3>1. link.frame = Mode(FALSE) /\ Says(rx.frame, link, module)
      BY <1>3, <1>6, <2>5
    <3>2. ~module.run
      BY <1>2, <1>6, <3>1 DEF Says, Good
    <3>3. Asks(link') /\ InStage(link', module) /\ Uses(link', module)
      <4>1. /\ link'.frame = Mode(FALSE) /\ link'.frame # Mode(TRUE)
            /\ link'.frame.command = "MODE"
        BY <1>4, <2>4, <3>1
      <4>2. link'.stage \in {"Pages", "Active"} /\ (link'.stage = "Active" => ~link'.bound)
        BY <2>2, <2>4
      <4>3. Asks(link') /\ Uses(link', module)
        BY <4>1, <4>2 DEF Asks, Uses
      <4>4. InStage(link', module)
        <5>1. ~ (link'.page > 0)
          BY <2>4
        <5> QED
          BY <3>2, <4>1, <4>2, <5>1 DEF InStage
      <4> QED
        BY <4>3, <4>4
    <3>4. ASSUME NEW n \in 1 .. Len(toRadio), Answers(link', toRadio[n])
          PROVE  Says(toRadio[n], link', module)
      <4>1. toRadio[n].command = "MODE"
        BY <1>1, <1>4, <2>4, <3>1, <3>4 DEF Answers, InStep, Asking
      <4> QED
        BY <2>2, <2>4, <4>1 DEF Says
    <3> QED
      BY <3>3, <3>4 DEF OnTheWay
  <2>6. link'.applied \in link'.sampled
    BY <2>4
  <2> QED
    BY <2>1, <2>2, <2>3, <2>4, <2>5, <2>6, MovesOn
<1>7. CASE Good /\ link.stage = "Run"
           /\ Settles([link EXCEPT !.synced = FALSE, !.stage = "Active"], "idle")
  <2>1. link' = [link EXCEPT !.synced = FALSE, !.stage = "Active"] /\ At("taken", "idle")
    BY <1>7 DEF Settles
  <2>2. "Active" \in Stages
    BY DEF Stages
  <2>3. link' \in Links
    BY <1>1, <2>1, <2>2 DEF Links
  <2>4. /\ link'.stage = "Active" /\ link'.operationState = link.operationState
        /\ link'.pendingCommand = link.pendingCommand /\ link'.frame = link.frame
        /\ link'.pending = link.pending /\ link'.page = link.page
        /\ link'.applied = link.applied
        /\ link'.sampled = link.sampled /\ link'.binding = link.binding
    BY <1>1, <2>1 DEF Links
  <2>5. ASSUME ~crossed'
        PROVE  /\ Asking(link') => Asks(link')
               /\ InStage(link', module) /\ Uses(link', module)
               /\ OnTheWay(link', toRadio, module)
    <3>1. /\ link.frame = Mode(TRUE) /\ Says(rx.frame, link, module)
          /\ Configured(link, module)
      BY <1>3, <1>7, <2>5 DEF Settled, InStage
    <3>2. module.run \/ module.restarted
      BY <1>2, <1>7, <3>1 DEF Says, Good
    <3>3. Configured(link', module)
      BY <2>4, <3>1 DEF Configured, Own
    <3>4. Asks(link') /\ InStage(link', module) /\ Uses(link', module)
      BY <1>4, <2>4, <3>1, <3>2, <3>3 DEF Asks, InStage, Uses
    <3>5. OnTheWay(link', toRadio, module)
      BY <2>4 DEF OnTheWay, Says
    <3> QED
      BY <3>4, <3>5
  <2> QED
    BY <1>1, <2>1, <2>3, <2>4, <2>5, MovesOn
<1>8. CASE Settles(link, "idle")
  <2>1. link' = link /\ At("taken", "idle")
    BY <1>8 DEF Settles
  <2>2. ~crossed' => Settled(link, rx, toRadio, module)
    BY <1>3
  <2> QED
    BY <1>1, <2>1, <2>2, MovesOn DEF Settled
<1> QED
  BY <1>2, <1>5, <1>6, <1>7, <1>8

\* The receiver is bound: the module is in use.
LEMMA SettleBindKeeps ==
  ASSUME HandleBegins, SettleBind
  PROVE  LeavesSound
<1>1. /\ link \in Links /\ link.applied \in link.sampled /\ toRadio' = toRadio
      /\ InStep(link, rx) /\ Sound(link, rx, toRadio, module, crossed)
  BY InvParts DEF HandleBegins
<1>2. /\ rx.frame.command = "APPLY" /\ rx.at = "taken"
      /\ Refused \/ Settles([link EXCEPT !.stage = "Active"], "idle")
  BY DEF SettleBind, Settles, At, Refused
<1>3. CASE Refused
  BY <1>3, RefusedKeeps DEF Refused, Settles
<1>4. CASE Settles([link EXCEPT !.stage = "Active"], "idle")
  <2>1. link' = [link EXCEPT !.stage = "Active"] /\ At("taken", "idle")
    BY <1>4 DEF Settles
  <2>2. "Active" \in Stages
    BY DEF Stages
  <2>3. link' \in Links
    BY <1>1, <2>1, <2>2 DEF Links
  <2>4. /\ link'.stage = "Active" /\ link'.operationState = link.operationState
        /\ link'.pendingCommand = link.pendingCommand /\ link'.frame = link.frame
        /\ link'.pending = link.pending /\ link'.page = link.page
        /\ link'.applied = link.applied
        /\ link'.sampled = link.sampled /\ link'.binding = link.binding
        /\ link'.bound = link.bound
    BY <1>1, <2>1 DEF Links
  <2>5. ASSUME ~crossed'
        PROVE  /\ Asking(link') => Asks(link')
               /\ InStage(link', module) /\ Uses(link', module)
               /\ OnTheWay(link', toRadio, module)
    <3>1. /\ Settled(link, rx, toRadio, module)
          /\ Handling(rx) /\ link.stage = rx.stage
      BY <1>2, <2>5, Settling DEF Handshaking
    <3>2. link.stage = "Active" \/ (link.stage = "Bind" /\ link.frame.command = "APPLY")
      BY <1>2, <3>1 DEF Settled, InHand
    <3>3. OnTheWay(link', toRadio, module)
      BY <2>4 DEF OnTheWay, Says
    <3>4. Configured(link', module) = Configured(link, module)
      BY <2>4 DEF Configured, Own
    <3>5. CASE link.stage = "Active"
      <4>1. (Asking(link') => Asks(link')) /\ Uses(link', module)
        BY <2>4, <3>1, <3>5 DEF Settled, Asking, Asks, Uses
      <4>2. InStage(link', module)
        BY <2>4, <3>1, <3>4, <3>5 DEF Settled, InStage
      <4> QED
        BY <3>3, <4>1, <4>2
    <3>6. CASE link.stage = "Bind" /\ link.frame.command = "APPLY"
      <4>1. link.binding /\ link.frame # Mode(TRUE) /\ link.frame # Mode(FALSE)
        <5>1. Mode(TRUE).command = "MODE" /\ Mode(FALSE).command = "MODE"
          BY ModeShape
        <5> QED
          BY <3>1, <3>6, <5>1 DEF Settled, InStage
      <4>2. Asks(link')
        BY <2>4, <3>6, <4>1 DEF Asks
      <4>3. InStage(link', module)
        BY <2>4, <3>6, <4>1 DEF InStage
      <4>4. Uses(link', module)
        BY <2>4, <3>1, <3>6 DEF Settled, Uses
      <4> QED
        BY <3>3, <4>2, <4>3, <4>4
    <3> QED
      BY <3>2, <3>5, <3>6
  <2> QED
    BY <1>1, <2>1, <2>3, <2>4, <2>5, MovesOn
<1> QED
  BY <1>2, <1>3, <1>4

\* A page is answered: it is counted, and the fourth answer is looked at.
LEMMA SettlePageKeeps ==
  ASSUME HandleBegins, SettlePage
  PROVE  LeavesSound
<1> DEFINE to == IF link.page = 3 THEN "counted" ELSE "idle"
<1>1. At("counting", to) /\ link' = [link EXCEPT !.page = @ + 1]
  BY DEF SettlePage
<1>2. to \in Ats /\ (to = "counted" <=> link.page = 3) /\ to \in {"counted", "idle"}
  BY DEF Ats
<1> HIDE DEF to
<1>3. /\ rx.at = "counting" /\ RxTyped' /\ rx'.at = to
      /\ to # "idle" => rx'.frame = rx.frame /\ rx'.stage = rx.stage
  BY <1>1, <1>2, AtShape, InvParts DEF HandleBegins
<1>4. /\ link \in Links /\ link.applied \in link.sampled /\ toRadio' = toRadio
      /\ Sound(link, rx, toRadio, module, crossed) /\ crossed \in BOOLEAN
      /\ InStep(link, rx) /\ Counts(link, rx) /\ rx.frame.command = "CONFIG"
  BY <1>3, InvParts DEF HandleBegins, InStep
<1>5. link.page \in 0 .. 4
  BY <1>3, <1>4 DEF Counts
<1>6. link.page + 1 \in 0 .. 5
  BY <1>5
<1>7. link' \in Links
  BY <1>1, <1>4, <1>6 DEF Links
<1>8. /\ link'.stage = link.stage /\ link'.operationState = link.operationState
      /\ link'.pendingCommand = link.pendingCommand /\ link'.frame = link.frame
      /\ link'.pending = link.pending /\ link'.page = link.page + 1
      /\ link'.applied = link.applied
      /\ link'.sampled = link.sampled /\ link'.binding = link.binding
      /\ link'.bound = link.bound /\ link'.pendingIndex = link.pendingIndex
  BY <1>1, <1>4 DEF Links
<1>9. InStep(link', rx')
  BY <1>2, <1>3, <1>4, <1>8 DEF InStep, Asking, Handling
<1>10. Counts(link', rx')
  BY <1>2, <1>3, <1>4, <1>5, <1>8 DEF Counts
<1>11. ASSUME ~crossed' PROVE Settled(link', rx', toRadio, module)
  <2>1. /\ Settled(link, rx, toRadio, module)
        /\ Handling(rx) /\ link.stage = rx.stage
    BY <1>3, <1>4, <1>11, Settling DEF Handshaking
  <2>2. \A p \in Pages : Own(link', module, p) = Own(link, module, p)
    BY <1>8 DEF Own
  <2>3. Clean(link, module) => Clean(link', module)
    <3>1. ASSUME NEW p \in Pages, p <= link.page PROVE p <= link'.page
      BY <1>5, <1>8, <3>1 DEF Pages
    <3> QED
      BY <2>2, <3>1 DEF Clean
  <2>4. Configured(link', module) = Configured(link, module)
    BY <2>2 DEF Configured
  <2>5. link.stage = "Pages" => Clean(link', module)
    BY <1>4, <2>1, <2>3 DEF Settled, InHand, Says
  <2>6. \A f : Says(f, link, module) => Says(f, link', module)
    BY <1>8, <2>5 DEF Says
  <2>7. (Asking(link') => Asks(link')) /\ Uses(link', module)
    BY <1>8, <2>1 DEF Settled, Asking, Asks, Uses
  <2>8. ASSUME link.stage = "Pages", link.frame.command = "CONFIG"
        PROVE  link.frame.arg[1] <= link'.page
    <3>1. link.frame.arg[1] <= link.page
      BY <2>1, <2>8 DEF Settled, InStage
    <3>2. \E p \in 0 .. 4, n \in link.sampled : link.frame.arg = Page(p, link.binding, n)
      BY <2>1, <2>8 DEF Settled, InStage
    <3>3. link.frame.arg[1] \in 0 .. 4
      BY <3>2, PageShape
    <3> QED
      BY <1>5, <1>8, <3>1, <3>3
  <2>9. InStage(link', module)
    BY <1>8, <2>1, <2>4, <2>5, <2>8 DEF Settled, InStage
  <2>10. InHand(link', rx', module)
    BY <1>2, <1>3, <1>8, <2>1, <2>6 DEF Settled, InHand, Handling
  <2>11. OnTheWay(link', toRadio, module)
    BY <1>8, <2>1, <2>6 DEF Settled, OnTheWay, Answers
  <2> QED
    BY <2>7, <2>9, <2>10, <2>11 DEF Settled
<1>12. crossed' \in BOOLEAN
  BY <1>4 DEF HandleBegins, SettledLate
<1> QED
  BY <1>3, <1>4, <1>7, <1>8, <1>9, <1>10, <1>11, <1>12 DEF LeavesSound, Sound

\* The fourth answer ends the pages: the module has them all, or the link has failed.
LEMMA BatchKeeps ==
  ASSUME HandleBegins, Batch
  PROVE  LeavesSound
<1>1. /\ link \in Links /\ link.applied \in link.sampled /\ toRadio' = toRadio
      /\ InStep(link, rx) /\ Sound(link, rx, toRadio, module, crossed)
  BY InvParts DEF HandleBegins
<1> DEFINE to == IF link.binding THEN "Bind" ELSE "Run"
<1>2. \/ At("counted", "failing") /\ link' = FailBegins(link)
      \/ At("counted", "idle") /\ Good /\ link' = [link EXCEPT !.stage = to, !.dirty = FALSE]
  BY DEF Batch, Whole
<1>3. CASE At("counted", "failing") /\ link' = FailBegins(link)
  BY <1>3, RefusedKeeps
<1>4. CASE At("counted", "idle") /\ Good /\ link' = [link EXCEPT !.stage = to, !.dirty = FALSE]
  <2>1. to \in Stages /\ (link.binding => to = "Bind") /\ (~link.binding => to = "Run")
    BY DEF Stages
  <2> HIDE DEF to
  <2>2. link' \in Links
    BY <1>1, <1>4, <2>1 DEF Links
  <2>3. /\ link'.stage = to /\ link'.operationState = link.operationState
        /\ link'.pendingCommand = link.pendingCommand /\ link'.frame = link.frame
        /\ link'.pending = link.pending /\ link'.page = link.page
        /\ link'.applied = link.applied
        /\ link'.sampled = link.sampled /\ link'.binding = link.binding
        /\ link'.bound = link.bound /\ link'.pendingIndex = link.pendingIndex
    BY <1>1, <1>4 DEF Links
  <2>4. rx.at = "counted" /\ rx.frame.command = "CONFIG" /\ to \in {"Bind", "Run"}
    BY <1>1, <1>4, <2>1 DEF At, InStep
  <2>5. ASSUME ~crossed'
        PROVE  /\ Asking(link') => Asks(link')
               /\ InStage(link', module) /\ Uses(link', module)
               /\ OnTheWay(link', toRadio, module)
    <3>1. /\ Settled(link, rx, toRadio, module)
          /\ Handling(rx) /\ link.stage = rx.stage
      BY <2>4, <2>5, Settling DEF Handshaking
    <3>2. Says(rx.frame, link, module) /\ link.stage \in {"Pages", "Run", "Bind"}
      BY <2>4, <3>1 DEF Settled, InHand
    <3>3. /\ Configured(link', module) = Configured(link, module)
          /\ Clean(link', module) = Clean(link, module)
      BY <2>3 DEF Configured, Clean, Own
    <3>4. CASE link.stage = "Pages"
      <4>1. /\ Clean(link, module) /\ link.frame.command = "CONFIG"
            /\ link.frame.arg[1] # 0 /\ (module.restarted \/ Complete(module.pages))
        BY <1>4, <2>4, <3>2, <3>4 DEF Says, Good
      <4>2. Configured(link, module)
        BY <4>1 DEF Configured, Clean, Complete
      <4>3. link.frame # Mode(TRUE) /\ link.frame # Mode(FALSE)
        BY <4>1, ModeShape
      <4>4. Asks(link') /\ Uses(link', module)
        BY <2>3, <2>4, <4>1, <4>3 DEF Asks, Uses
      <4>5. /\ ~module.run
            /\ \E p \in 0 .. 4, n \in link.sampled :
                 link.frame.arg = Page(p, link.binding, n)
        BY <3>1, <3>4, <4>1 DEF Settled, InStage
      <4>6. InStage(link', module)
        BY <2>1, <2>3, <2>4, <3>3, <4>1, <4>2, <4>5 DEF InStage
      <4>7. OnTheWay(link', toRadio, module)
        <5> SUFFICES ASSUME NEW n \in 1 .. Len(toRadio), Answers(link', toRadio[n])
                     PROVE  Says(toRadio[n], link', module)
          BY DEF OnTheWay
        <5>1. toRadio[n].command = "CONFIG"
          BY <1>1, <2>3, <4>1 DEF Answers, InStep, Asking
        <5> QED
          BY <2>3, <2>4, <5>1 DEF Says
      <4> QED
        BY <4>4, <4>6, <4>7
    <3>5. CASE link.stage \in {"Run", "Bind"}
      <4>1. to = link.stage
        BY <2>1, <3>1, <3>5 DEF Settled, InStage
      <4>2. StageKept(link', link) /\ AsksNoMore(link', link)
        BY <2>3, <4>1 DEF StageKept, AsksNoMore
      <4>3. Sound(link, rx, toRadio, module, FALSE)
        BY <1>1, <3>1 DEF Sound
      <4>4. Sound(link', rx, toRadio, module, FALSE)
        BY <4>2, <4>3, SoundAlike
      <4> QED
        BY <4>4 DEF Sound, Settled
    <3> QED
      BY <3>2, <3>4, <3>5
  <2> QED
    BY <1>1, <1>4, <2>2, <2>3, <2>4, <2>5, MovesOn
<1> QED
  BY <1>2, <1>3, <1>4

\* clear() ends a failure; the mixer may have begun the handshake again by then.
LEMMA FailEndsKeeps ==
  ASSUME HandleBegins, FailEnds
  PROVE  LeavesSound
<1>1. At("failing", "idle") /\ link' = Clear(link)
  BY DEF FailEnds
<1>2. "idle" \in Ats
  BY DEF Ats
<1>3. rx.at = "failing" /\ RxTyped' /\ rx'.at = "idle"
  BY <1>1, <1>2, AtShape, InvParts DEF HandleBegins
<1>4. crossed' = crossed /\ toRadio' = toRadio
  BY <1>3, NotCrossed DEF HandleBegins
<1>5. /\ link \in Links /\ link.applied \in link.sampled /\ InStep(link, rx) /\ Counts(link, rx)
  BY InvParts DEF HandleBegins
<1>6. /\ link' \in Links /\ SameStage(link', link) /\ link'.operationState = "UNKNOWN"
      /\ link'.frame = NoFrame /\ link'.pending = link.pending
  BY <1>1, <1>5, ClearShape
<1>7. link'.stage \in {"Ready", "Failed"} /\ link'.frame.command = None
  BY <1>3, <1>5, <1>6 DEF InStep, SameStage, NoFrame
<1>8. InStep(link', rx') /\ Counts(link', rx')
  BY <1>3, <1>5, <1>6, <1>7 DEF InStep, Counts, Asking, Handling, SameStage
<1>9. Sound(link', rx', toRadio, module, crossed)
  BY <1>7, <1>8, SoundReady, SoundFailed
<1> QED
  BY <1>3, <1>4, <1>5, <1>6, <1>9 DEF LeavesSound, SameStage

\* A frame is taken from its way: an answer is matched by its number, a notice acknowledged,
\* and what is neither is dropped.
LEMMA ReceiveKeeps ==
  ASSUME Inv, Receive, crossed' = (crossed \/ SettledLate)
  PROVE  LeavesSound /\ toRadio' \in Seq(Replies) /\ Len(toRadio') <= MaxReplies
<1> DEFINE f == Head(toRadio)
<1>1. /\ link \in Links /\ link.applied \in link.sampled /\ RxTyped
      /\ Sound(link, rx, toRadio, module, crossed)
      /\ InStep(link, rx) /\ Counts(link, rx)
      /\ toRadio \in Seq(Replies) /\ crossed \in BOOLEAN
      /\ Len(toRadio) <= MaxReplies /\ MaxReplies \in Nat
  BY InvParts, LinkAssumption DEF Inv, Typed
<1>2. rx.at = "idle" /\ toRadio # <<>> /\ toRadio' = Tail(toRadio)
  BY DEF Receive
<1>3. /\ f \in Replies /\ f = toRadio[1] /\ 1 \in 1 .. Len(toRadio)
      /\ toRadio' \in Seq(Replies) /\ Len(toRadio') = Len(toRadio) - 1
      /\ \A n \in 1 .. Len(toRadio') : toRadio'[n] = toRadio[n + 1] /\ n + 1 \in 1 .. Len(toRadio)
  BY <1>1, <1>2
<1>4. Len(toRadio') <= MaxReplies
  BY <1>1, <1>3
<1>5. crossed' = crossed
  BY <1>1, <1>2 DEF SettledLate
<1>6. OnTheWay(link, toRadio, module) => OnTheWay(link, toRadio', module)
  BY <1>3 DEF OnTheWay
<1>7. \/ Notice(f) /\ link' = Acknowledge(f) /\ rx' = [rx EXCEPT !.at = "parse", !.frame = f]
      \/ /\ ~Notice(f) /\ Answers(link, f) /\ link' = link
         /\ rx' = [rx EXCEPT !.at = "matching", !.frame = f, !.stage = link.stage]
      \/ rx' = Idle /\ link' = link
  BY DEF Receive
<1>8. "parse" \in Ats /\ "matching" \in Ats /\ "idle" \in Ats
  BY DEF Ats
<1> HIDE DEF f
<1>9. CASE Notice(f) /\ link' = Acknowledge(f) /\ rx' = [rx EXCEPT !.at = "parse", !.frame = f]
  <2>1. RxTyped' /\ rx'.at = "parse" /\ rx'.frame = f
    BY <1>1, <1>3, <1>8, <1>9 DEF RxTyped
  <2>2. ~Handling(rx')
    BY <1>9, <2>1 DEF Notice, Handling, Handshaking
  <2>3. InStep(link, rx') /\ Counts(link, rx')
    BY <1>1, <1>2, <2>1, <2>2 DEF InStep, Counts
  <2>4. Sound(link, rx', toRadio', module, crossed)
    BY <1>1, <1>6, <2>2, <2>3 DEF Sound, Settled, InHand
  <2>5. link' \in Links /\ StageKept(link', link) /\ AsksNoMore(link', link)
    <3>1. CASE link' = link
      BY <1>1, <3>1 DEF StageKept, AsksNoMore
    <3>2. CASE link' = [link EXCEPT !.acknowledgements = @ + 1] /\ link.acknowledgements < MaxAcks
      <4>1. link.acknowledgements + 1 \in 0 .. MaxAcks
        BY <1>1, <3>2, Fields, LinkAssumption
      <4> QED
        BY <1>1, <3>2, <4>1 DEF Links, StageKept, AsksNoMore
    <3> QED
      BY <1>9, <3>1, <3>2 DEF Acknowledge
  <2>6. Sound(link', rx', toRadio', module, crossed)
    BY <2>4, <2>5, SoundAlike
  <2> QED
    BY <1>1, <1>3, <1>4, <1>5, <2>1, <2>5, <2>6 DEF LeavesSound, StageKept
<1>10. CASE /\ ~Notice(f) /\ Answers(link, f) /\ link' = link
            /\ rx' = [rx EXCEPT !.at = "matching", !.frame = f, !.stage = link.stage]
  <2>1. link.stage \in Stages
    BY <1>1, Fields
  <2>2. RxTyped' /\ rx'.at = "matching" /\ rx'.frame = f /\ rx'.stage = link.stage
    BY <1>1, <1>3, <1>8, <1>10, <2>1 DEF RxTyped
  <2>3. /\ Asking(link) /\ f.command = link.frame.command /\ link.stage # "Failed"
        /\ f.command \in Commands
    BY <1>1, <1>2, <1>10 DEF Answers, Asking, InStep
  <2>4. InStep(link, rx')
    BY <1>1, <2>1, <2>2, <2>3 DEF InStep, Handling, Handshaking, None
  <2>5. Counts(link, rx')
    BY <1>1, <1>2, <2>2 DEF Counts
  <2>6. ASSUME ~crossed PROVE Settled(link, rx', toRadio', module)
    <3>1. Settled(link, rx, toRadio, module)
      BY <1>1, <2>6 DEF Sound
    <3>2. Says(f, link, module)
      BY <1>3, <1>10, <3>1 DEF Settled, OnTheWay
    <3>3. link.frame \in Frames /\ Asks(link)
      BY <1>1, <2>3, <3>1, Fields DEF Settled
    <3>4. f.command = "MODE" =>
            /\ link.stage \in {"Standby", "Pages", "Run", "Active"}
            /\ link.stage = "Standby" => link.frame = Mode(FALSE)
            /\ link.stage = "Run" => link.frame = Mode(TRUE)
      <4> SUFFICES ASSUME f.command = "MODE"
                   PROVE  /\ link.stage \in {"Standby", "Pages", "Run", "Active"}
                          /\ link.stage = "Standby" => link.frame = Mode(FALSE)
                          /\ link.stage = "Run" => link.frame = Mode(TRUE)
        OBVIOUS
      <4>1. link.frame = Mode(TRUE) \/ link.frame = Mode(FALSE)
        BY <2>3, <3>3, FrameCases
      <4> QED
        BY <2>3, <3>3, <4>1 DEF Asks
    <3>5. InHand(link, rx', module)
      BY <2>2, <2>3, <3>2, <3>3, <3>4 DEF InHand, Asks
    <3> QED
      BY <1>6, <3>1, <3>5 DEF Settled
  <2> QED
    BY <1>1, <1>3, <1>4, <1>5, <1>10, <2>2, <2>4, <2>5, <2>6 DEF LeavesSound, Sound
<1>11. CASE rx' = Idle /\ link' = link
  <2>1. RxTyped' /\ rx'.at = "idle"
    BY <1>8, <1>11 DEF RxTyped, Idle
  <2>2. Sound(link, rx', toRadio, module, crossed)
    BY <1>1, <1>2, <2>1, SoundDropped
  <2>3. Sound(link, rx', toRadio', module, crossed)
    BY <1>6, <2>2 DEF Sound, Settled
  <2> QED
    BY <1>1, <1>3, <1>4, <1>5, <1>11, <2>1, <2>3 DEF LeavesSound
<1> QED
  BY <1>7, <1>9, <1>10, <1>11

-----------------------------------------------------------------------------
(* The theorems.                                                           *)

\* The link starts at the beginning of the handshake, and the module stands by.
LEMMA TypedStart == Init => Inv
<1> SUFFICES ASSUME Init PROVE Inv
  OBVIOUS
<1>1. PICK b \in BOOLEAN :
        link = [operationState |-> "UNKNOWN", repeatCount |-> 0,
             pendingIndex |-> 0, pendingCommand |-> None, frame |-> NoFrame,
             acknowledgements |-> 0, responsePending |-> FALSE,
             stage |-> "Ready", pending |-> None, page |-> 0, readyTries |-> 0, error |-> FALSE,
             binding |-> FALSE, received |-> FALSE, bound |-> b, synced |-> FALSE,
             applied |-> model, sampled |-> {model}, dirty |-> FALSE]
  BY DEF Init
<1>2. /\ rx = Idle /\ toRadio = <<>> /\ bindMode = FALSE /\ crossed = FALSE
      /\ model \in Settings
      /\ module = [up |-> FALSE, run |-> FALSE, pages |-> [p \in Pages |-> <<>>],
                   restarted |-> FALSE]
  BY LinkAssumption DEF Init
<1>3. link \in Links
  <2>1. /\ 0 \in 0 .. MaxRetries /\ 0 \in 0 .. Numbers - 1 /\ 0 \in 0 .. MaxAcks
        /\ 0 \in 0 .. MaxReadyTries - 1
    BY LinkAssumption
  <2>2. NoFrame \in Frames /\ "Ready" \in Stages
    BY DEF Frames, Stages
  <2> QED
    BY <1>1, <1>2, <2>1, <2>2 DEF Links
<1>4. /\ link.stage = "Ready" /\ link.operationState = "UNKNOWN" /\ link.frame = NoFrame
      /\ link.page = 0 /\ link.pending = None /\ link.applied \in link.sampled
  BY <1>1
<1>5. RxTyped
  BY <1>2 DEF RxTyped, Idle, Ats
<1>6. module \in Modules
  <2>1. <<>> \in Contents
    BY DEF Contents
  <2> QED
    BY <1>2, <2>1 DEF Modules
<1>7. Typed
  <2>1. toRadio \in Seq(Replies) /\ Len(toRadio) <= MaxReplies
    BY <1>2, LinkAssumption
  <2>2. model \in Settings /\ link.applied \in link.sampled
    BY <1>2, <1>4
  <2>3. bindMode \in BOOLEAN /\ crossed \in BOOLEAN
    BY <1>2
  <2> QED
    BY <1>3, <1>5, <1>6, <2>1, <2>2, <2>3 DEF Typed
<1>8. InStep(link, rx)
  BY <1>2, <1>4 DEF InStep, Asking, Handling, Idle, NoFrame
<1>9. Counts(link, rx)
  BY <1>2, <1>4 DEF Counts, Idle
<1> QED
  BY <1>4, <1>7, <1>8, <1>9, SoundReady DEF Inv

\* A step of the receive task keeps the invariant.
LEMMA ReceiveTaskKeeps ==
  ASSUME Inv, ReceiveTask
  PROVE  Inv'
<1>1. /\ UNCHANGED <<module, bindMode, model>> /\ crossed' = (crossed \/ SettledLate)
      /\ Receive \/ (Handle /\ UNCHANGED toRadio)
  BY DEF ReceiveTask
<1>2. /\ toRadio \in Seq(Replies) /\ Len(toRadio) <= MaxReplies /\ module \in Modules
      /\ bindMode \in BOOLEAN /\ crossed \in BOOLEAN /\ model \in Settings
  BY DEF Inv, Typed
<1>3. LeavesSound /\ toRadio' \in Seq(Replies) /\ Len(toRadio') <= MaxReplies
  <2>1. CASE Receive
    BY <1>1, <2>1, ReceiveKeeps
  <2>2. CASE Handle /\ UNCHANGED toRadio
    <3>1. HandleBegins
      BY <1>1, <2>2 DEF HandleBegins
    <3>2. Refused => LeavesSound
      BY <3>1, RefusedKeeps DEF Refused, Settles
    <3>3. Settle => LeavesSound
      BY <3>1, <3>2, SettleReadyKeeps, SettleModeKeeps, SettleBindKeeps DEF Settle
    <3> QED
      BY <1>2, <2>2, <3>1, <3>3, MatchKeeps, NoticeKeeps, ParseAnswerKeeps, TakeKeeps,
         SettlePageKeeps, BatchKeeps, FailEndsKeeps DEF Handle
  <2> QED
    BY <1>1, <2>1, <2>2
<1>4. crossed' \in BOOLEAN
  BY <1>1, <1>2 DEF SettledLate
<1> QED
  BY <1>1, <1>2, <1>3, <1>4 DEF Inv, Typed, LeavesSound

\* A tick keeps the invariant: what it prepares does, and its frame does.
LEMMA TickKeeps ==
  ASSUME Inv, Tick
  PROVE  Inv'
<1>1. PICK t \in Links : Send(t) /\ Prepared(t)
  BY TickPrepares
<1>2. /\ Len(toRadio) < MaxReplies /\ UNCHANGED <<rx, bindMode, model>>
      /\ crossed' = (crossed /\ link'.stage # "Ready")
  BY DEF Tick
<1>3. Typed
  BY DEF Inv
<1>4. /\ link' \in Links /\ link'.applied \in link'.sampled /\ link'.stage = t.stage
      /\ toRadio' \in Seq(Replies) /\ Len(toRadio') <= MaxReplies /\ module' \in Modules
      /\ Sound(link', rx, toRadio', module', crossed)
  BY <1>1, <1>2, <1>3, SendKeeps
<1>5. Sound(link', rx, toRadio', module', crossed')
  <2>1. CASE link'.stage = "Ready"
    BY <1>4, <2>1, SoundReady DEF Sound
  <2>2. CASE link'.stage # "Ready"
    <3>1. crossed' = crossed
      BY <1>2, <1>3, <2>2 DEF Typed
    <3> QED
      BY <1>4, <3>1
  <2> QED
    BY <2>1, <2>2
<1>6. crossed' \in BOOLEAN
  BY <1>2, <1>3 DEF Typed
<1>7. RxTyped'
  BY <1>2, <1>3 DEF Typed, RxTyped
<1> QED
  BY <1>2, <1>3, <1>4, <1>5, <1>6, <1>7 DEF Inv, Typed

\* A module that restarts has lost its pages, and is known to have lost a whole batch.
LEMMA SoundModuleRestarted ==
  ASSUME NEW l, NEW r, NEW q, NEW m, NEW c, NEW z, Sound(l, r, q, m, c),
         z.run = FALSE, \A p \in Pages : z.pages[p] = <<>>,
         z.restarted <=> (m.restarted \/ Complete(m.pages))
  PROVE  Sound(l, r, q, z, c)
<1> SUFFICES ASSUME Settled(l, r, q, m) PROVE Settled(l, r, q, z)
  BY DEF Sound
<1>1. Clean(l, z)
  BY DEF Clean
<1>2. Configured(l, m) => z.restarted
  BY PageShape DEF Configured, Own, Complete
<1>3. InStage(l, z)
  BY <1>1, <1>2 DEF Settled, InStage, Configured
<1>4. Uses(l, z)
  <2>1. ASSUME ~z.restarted PROVE l.frame.command \notin {"CHANNELS", "APPLY"}
    <3>1. ~m.restarted /\ ~Complete(m.pages)
      BY <2>1
    <3>2. PICK p \in Pages : m.pages[p] = <<>>
      BY <3>1 DEF Complete
    <3>3. CASE l.frame.command = "CHANNELS"
      <4>1. \E n \in l.sampled : m.pages[p] = Page(p, FALSE, n)
        BY <3>1, <3>3 DEF Settled, Uses
      <4>2. \A n \in l.sampled : Page(p, FALSE, n) # <<>>
        BY DEF Page
      <4> QED
        BY <3>2, <4>1, <4>2
    <3>4. CASE l.frame.command = "APPLY"
      <4>1. \E n \in l.sampled : m.pages[p] = Page(p, TRUE, n)
        BY <3>1, <3>4 DEF Settled, Uses
      <4>2. \A n \in l.sampled : Page(p, TRUE, n) # <<>>
        BY DEF Page
      <4> QED
        BY <3>2, <4>1, <4>2
    <3> QED
      BY <3>3, <3>4
  <2> QED
    BY <2>1 DEF Settled, Uses
<1>5. \A f : Says(f, l, m) => Says(f, l, z)
  <2>1. l.stage = "Run" => z.restarted
    BY <1>2 DEF Settled, InStage
  <2> QED
    BY <1>1, <2>1 DEF Says
<1>6. InHand(l, r, z) /\ OnTheWay(l, q, z)
  BY <1>5 DEF Settled, InHand, OnTheWay
<1> QED
  BY <1>3, <1>4, <1>6 DEF Settled

\* Every step keeps the invariant.
LEMMA StepKeeps == Inv /\ [Next]_vars => Inv'
<1> SUFFICES ASSUME Inv, [Next]_vars PROVE Inv'
  OBVIOUS
<1>1. /\ link \in Links /\ link.applied \in link.sampled /\ RxTyped
      /\ Sound(link, rx, toRadio, module, crossed) /\ Typed
      /\ toRadio \in Seq(Replies) /\ Len(toRadio) <= MaxReplies /\ module \in Modules
      /\ bindMode \in BOOLEAN /\ crossed \in BOOLEAN /\ model \in Settings
      /\ MaxReplies \in Nat /\ Len(toRadio) \in Nat /\ Numbers \in Nat
  BY InvParts, Fields, LinkAssumption DEF Inv, Typed
<1>2. CASE ToggleBind
  BY <1>1, <1>2 DEF ToggleBind, Inv, Typed, RxTyped
<1>3. CASE EditModel
  <2>1. model' \in Settings /\ UNCHANGED <<link, rx, toRadio, module, bindMode, crossed>>
    BY <1>3 DEF EditModel
  <2> QED
    BY <1>1, <2>1 DEF Inv, Typed, RxTyped
<1>4. CASE EditOptions
  <2>1. /\ link' = [link EXCEPT !.dirty = TRUE]
        /\ UNCHANGED <<rx, toRadio, module, bindMode, model, crossed>>
    BY <1>4 DEF EditOptions
  <2>2. link' \in Links /\ StageKept(link', link) /\ AsksNoMore(link', link)
    BY <1>1, <2>1 DEF Links, StageKept, AsksNoMore
  <2>3. Sound(link', rx, toRadio, module, crossed)
    BY <1>1, <2>2, SoundAlike
  <2> QED
    BY <1>1, <2>1, <2>2, <2>3 DEF Inv, Typed, RxTyped, StageKept
<1>5. CASE ModuleStarts
  <2>1. /\ module' = [module EXCEPT !.up = TRUE]
        /\ UNCHANGED <<link, rx, toRadio, bindMode, model, crossed>>
    BY <1>5 DEF ModuleStarts
  <2>2. /\ module' \in Modules /\ module'.run = module.run
        /\ module'.pages = module.pages /\ module'.restarted = module.restarted
    BY <1>1, <2>1 DEF Modules
  <2>3. Sound(link, rx, toRadio, module', crossed)
    <3>1. /\ Clean(link, module') = Clean(link, module)
          /\ Configured(link, module') = Configured(link, module)
      BY <2>2 DEF Clean, Configured, Own
    <3>2. \A f : Says(f, link, module') = Says(f, link, module)
      BY <2>2, <3>1 DEF Says
    <3>3. ASSUME Settled(link, rx, toRadio, module)
          PROVE  Settled(link, rx, toRadio, module')
      BY <2>2, <3>1, <3>2, <3>3 DEF Settled, InStage, Uses, InHand, OnTheWay
    <3> QED
      BY <1>1, <3>3 DEF Sound
  <2> QED
    BY <1>1, <2>1, <2>2, <2>3 DEF Inv, Typed, RxTyped
<1>6. CASE ModuleRestarts
  <2>1. /\ module' = [up |-> FALSE, run |-> FALSE, pages |-> [p \in Pages |-> <<>>],
                      restarted |-> module.restarted \/ Complete(module.pages)]
        /\ UNCHANGED <<link, rx, toRadio, bindMode, model, crossed>>
    BY <1>6 DEF ModuleRestarts
  <2>2. module' \in Modules
    <3>1. <<>> \in Contents
      BY DEF Contents
    <3>2. (module.restarted \/ Complete(module.pages)) \in BOOLEAN
      OBVIOUS
    <3> QED
      BY <2>1, <3>1, <3>2 DEF Modules
  <2>3. /\ module'.run = FALSE /\ \A p \in Pages : module'.pages[p] = <<>>
        /\ module'.restarted <=> (module.restarted \/ Complete(module.pages))
    BY <2>1
  <2>4. Sound(link, rx, toRadio, module', crossed)
    BY <1>1, <2>3, SoundModuleRestarted
  <2> QED
    BY <1>1, <2>1, <2>2, <2>4 DEF Inv, Typed, RxTyped
<1>7. CASE ModuleNotifies
  <2>1. PICK command \in {"NOTIFY", "LEARNED", "PAGE"}, good \in BOOLEAN :
          toRadio' = Append(toRadio, [command |-> command, number |-> -1, arg |-> <<good>>])
    BY <1>7 DEF ModuleNotifies
  <2> DEFINE a == [command |-> command, number |-> -1, arg |-> <<good>>]
  <2>2. Len(toRadio) < MaxReplies /\ UNCHANGED <<link, rx, module, bindMode, model, crossed>>
    BY <1>7 DEF ModuleNotifies
  <2>3. a \in Replies /\ a.command = command
    <3>1. -1 \in -1 .. Numbers - 1
      BY <1>1
    <3>2. <<good>> \in {<<TRUE>>, <<FALSE>>}
      OBVIOUS
    <3> QED
      BY <3>1, <3>2 DEF Replies
  <2>4. toRadio' = Append(toRadio, a)
    BY <2>1
  <2> HIDE DEF a
  <2>5. toRadio' \in Seq(Replies) /\ Len(toRadio') <= MaxReplies
    BY <1>1, <2>2, <2>3, <2>4
  <2>6. Says(a, link, module)
    BY <2>3 DEF Says
  <2>7. Sound(link, rx, toRadio', module, crossed)
    BY <1>1, <2>3, <2>4, <2>6, SoundReply
  <2> QED
    BY <1>1, <2>2, <2>5, <2>7 DEF Inv, Typed, RxTyped
<1>8. CASE HoldUp
  <2>1. /\ rx' = [rx EXCEPT !.held = TRUE]
        /\ UNCHANGED <<link, toRadio, module, bindMode, model, crossed>>
    BY <1>8 DEF HoldUp
  <2>2. RxTyped' /\ rx'.at = rx.at /\ rx'.frame = rx.frame /\ rx'.stage = rx.stage
    BY <1>1, <2>1 DEF RxTyped
  <2>3. Handling(rx') = Handling(rx)
    BY <2>2 DEF Handling
  <2>4. Sound(link, rx', toRadio, module, crossed)
    <3>1. InStep(link, rx') /\ Counts(link, rx')
      BY <1>1, <2>2, <2>3 DEF Sound, InStep, Counts
    <3>2. InHand(link, rx, module) => InHand(link, rx', module)
      BY <2>2, <2>3 DEF InHand
    <3> QED
      BY <1>1, <3>1, <3>2 DEF Sound, Settled
  <2> QED
    BY <1>1, <2>1, <2>2, <2>4 DEF Inv, Typed
<1>9. CASE Tick
  BY <1>9, TickKeeps
<1>10. CASE ReceiveTask
  BY <1>10, ReceiveTaskKeeps
<1>11. CASE UNCHANGED vars
  BY <1>1, <1>11 DEF vars, Inv, Typed, RxTyped
<1> QED
  BY <1>2, <1>3, <1>4, <1>5, <1>6, <1>7, <1>8, <1>9, <1>10, <1>11 DEF Next

\* The invariant holds.
THEOREM Soundness == Spec => []Inv
<1> QED
  BY TypedStart, StepKeeps, PTL DEF Spec

\* The types and limits of the transport and of the handshake.
THEOREM TypeCorrect == Spec => []TypeOK
<1>1. Inv => TypeOK
  <2> SUFFICES ASSUME Inv PROVE TypeOK
    OBVIOUS
  <2>1. /\ link \in Links /\ RxTyped /\ Counts(link, rx)
        /\ crossed \in BOOLEAN /\ Len(toRadio) <= MaxReplies
        /\ model \in Settings /\ link.applied \in link.sampled
    BY InvParts DEF Inv, Typed
  <2>2. link.readyTries \in 0 .. MaxReadyTries
    BY <2>1, Fields, LinkAssumption
  <2>3. rx.at \in Ats
    BY <2>1 DEF RxTyped
  <2> QED
    BY <2>1, <2>2, <2>3, Fields DEF TypeOK, Stages, Ats
<1> QED
  BY <1>1, Soundness, PTL

\* The frame of a tick is the one it prepared, with the settings noted then, and neither
\* channels nor a bind change what the module has.
LEMMA FrameSent ==
  ASSUME NEW t \in Links, Send(t)
  PROVE  /\ link'.frame = t.frame /\ link'.applied = t.applied
         /\ t.frame.command \in {"CHANNELS", "APPLY"} => module' = module
<1>1. \/ link' = [t EXCEPT !.acknowledgements = @ - 1] /\ UNCHANGED module
      \/ link' = [t EXCEPT !.responsePending = FALSE] /\ UNCHANGED module
      \/ link' = t /\ (UNCHANGED module \/ Answered(t.frame) \/ Unanswered(t.frame))
  BY DEF Send, Lost
<1>2. link'.frame = t.frame /\ link'.applied = t.applied
  BY <1>1 DEF Links
<1>3. ASSUME t.frame.command = "CHANNELS" PROVE module' = module
  BY <1>1, <1>3 DEF Answered, Unanswered
<1>4. ASSUME t.frame.command = "APPLY" PROVE module' = module
  BY <1>1, <1>4 DEF Answered, Unanswered, Accepts
<1> QED
  BY <1>2, <1>3, <1>4

\* Channels only reach a module that runs with the four pages of what the model has, except
\* for settings that were edited while the pages were sent and edited back before the
\* module ran; a bind only reaches one that has the four pages of a bind.
THEOREM UsedAsConfigured == Spec => ConfiguredForUse
<1>1. ASSUME Inv, Inv', Tick, ~module.restarted, ~crossed
      PROVE  /\ link'.frame.command = "CHANNELS" =>
                  /\ module.run
                  /\ \A p \in Pages :
                       \/ module.pages[p] = Page(p, FALSE, model)
                       \/ Mixed(link')
                          /\ \E n \in link'.sampled : module.pages[p] = Page(p, FALSE, n)
             /\ link'.frame.command = "APPLY" =>
                  \A p \in Pages : \E n \in link'.sampled : module.pages[p] = Page(p, TRUE, n)
  <2>1. PICK t \in Links : Send(t) /\ Prepared(t)
    BY <1>1, TickPrepares
  <2>2. /\ link'.frame.command = "CHANNELS" => link'.applied = model
        /\ link'.frame.command \in {"CHANNELS", "APPLY"} => module' = module
    BY <2>1, FrameSent DEF Prepared, Sendable
  <2>3. ~crossed'
    BY <1>1 DEF Tick
  <2>4. Uses(link', module') /\ link'.applied \in link'.sampled
    BY <1>1, <2>3 DEF Inv, Typed, Sound, Settled
  <2>5. ASSUME link'.frame.command = "CHANNELS", NEW p \in Pages, ~Mixed(link')
        PROVE  module.pages[p] = Page(p, FALSE, model)
    <3>1. PICK n \in link'.sampled : module.pages[p] = Page(p, FALSE, n)
      BY <1>1, <2>2, <2>4, <2>5 DEF Uses
    <3>2. n = model
      BY <2>2, <2>5, <3>1 DEF Mixed
    <3> QED
      BY <3>1, <3>2
  <2>6. link'.frame.command = "CHANNELS" =>
          /\ module.run
          /\ \A p \in Pages : \E n \in link'.sampled : module.pages[p] = Page(p, FALSE, n)
    BY <1>1, <2>2, <2>4 DEF Uses
  <2>7. link'.frame.command = "APPLY" =>
          \A p \in Pages : \E n \in link'.sampled : module.pages[p] = Page(p, TRUE, n)
    BY <1>1, <2>2, <2>4 DEF Uses
  <2> QED
    BY <2>5, <2>6, <2>7
<1>2. ASSUME Inv, Inv', [Next]_vars
      PROVE  [Tick /\ ~module.restarted /\ ~crossed =>
                /\ link'.frame.command = "CHANNELS" =>
                     /\ module.run
                     /\ \A p \in Pages :
                          \/ module.pages[p] = Page(p, FALSE, model)
                          \/ Mixed(link') /\ \E s \in link'.sampled :
                                                module.pages[p] = Page(p, FALSE, s)
                /\ link'.frame.command = "APPLY" =>
                     \A p \in Pages : \E s \in link'.sampled :
                                        module.pages[p] = Page(p, TRUE, s)]_vars
  BY <1>1, <1>2
<1> QED
  BY <1>2, Soundness, PTL DEF Spec, ConfiguredForUse


\* Pages are only sent to a module that stands by.
THEOREM StandsByForPages == Spec => []PagesInStandby
<1>1. Inv => PagesInStandby
  <2> SUFFICES ASSUME Inv, ~crossed, link.frame.command = "CONFIG" PROVE ~module.run
    BY DEF PagesInStandby
  <2>1. InStage(link, module)
    BY InvParts DEF Sound, Settled
  <2> QED
    BY <2>1 DEF InStage
<1> QED
  BY <1>1, Soundness, PTL

=============================================================================
