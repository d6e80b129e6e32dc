---------------------------- MODULE MCRfUpdateCore ----------------------------
(***************************************************************************)
(* Instances of RfUpdateCore for TLC: one module and one receiver image,   *)
(* small enough that a final receiver window ends behind the image, and    *)
(* identities that differ in each field the code compares.                 *)
(***************************************************************************)
EXTENDS RfUpdateCore

ModuleImage == [product |-> 9, reported |-> 1, version |-> 2, size |-> 3, receiver |-> FALSE]
ReceiverImage == [product |-> 2, reported |-> 0, version |-> 2, size |-> 3, receiver |-> TRUE]
ShortImage == [product |-> 8, reported |-> 1, version |-> 3, size |-> 2, receiver |-> FALSE]
LargeImage == [product |-> 1, reported |-> 1, version |-> 2, size |-> 5, receiver |-> TRUE]

Reading(e, c, p, h, v) ==
  [epoch |-> e, car |-> c, product |-> p, hardware |-> h, version |-> v, words |-> 0]

MCImages == {ModuleImage, ShortImage, ReceiverImage, LargeImage}

\* Per component: as it was, the same in a newer reading or in another car, and with
\* the image; a module of other hardware; and no answer at all.
MCIdentities ==
  {Reading(1, 1, 1, 1, 1), Reading(2, 2, 1, 1, 1), Reading(2, 1, 1, 1, 2), Reading(2, 1, 1, 2, 2),
   Reading(1, 1, 2, 1, 1), Reading(2, 1, 2, 1, 1), Reading(2, 2, 2, 1, 1), Reading(2, 2, 2, 1, 2),
   Reading(2, 1, 0, 1, 1)}

\* Two different replies each component may give, and replies of the wrong product or
\* version, or of nothing at all.
Reply(w, v, r) == [word |-> w, version |-> v, rest |-> r]
MCPeers == {Reply(2, 1, 0), Reply(2, 1, 1), Reply(2, 2, 0), Reply(0, 0, 0)}
=============================================================================
