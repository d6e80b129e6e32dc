------------------------------- MODULE BootSlot -------------------------------
(***************************************************************************)
(* What an update of the application promises: the radio has one slot for  *)
(* an application.  It is only emptied for an image that was offered       *)
(* whole, and only ever filled with such an image.                         *)
(***************************************************************************)
CONSTANTS Images, None

VARIABLES
  bootable,   \* the application that a start accepts, if any
  offered     \* the image that is held whole, if any

Init == bootable \in Images \union {None} /\ offered = None

Offer == offered' \in Images \union {None}

\* The application is given up for the image that is held.
Begin == offered # None /\ bootable' = None

\* The image that is held becomes the application.
Commit == offered # None /\ bootable = None /\ bootable' = offered

Next == Offer /\ (UNCHANGED bootable \/ Begin \/ Commit)

Spec == Init /\ [][Next]_<<bootable, offered>>
=============================================================================
