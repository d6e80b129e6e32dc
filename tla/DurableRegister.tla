--------------------------- MODULE DurableRegister ---------------------------
(***************************************************************************)
(* What the RF update relies on its journal for: a single durable value.   *)
(* A write that was not acknowledged may or may not have happened; one     *)
(* that was acknowledged has.  After a restart the register either says    *)
(* that it cannot be trusted or returns a value it may hold, and from then *)
(* on holds that value.                                                    *)
(***************************************************************************)
CONSTANTS Contents, Missing

VARIABLES
  possible,   \* the values the register may hold
  found,      \* what the last restart returned
  damaged     \* the last restart could not be trusted

Init == possible = {Missing} /\ found = Missing /\ damaged = FALSE

Attempt(c) ==
  /\ possible' = possible \union {c}
  /\ UNCHANGED <<found, damaged>>

Acknowledge(c) ==
  /\ c \in possible
  /\ possible' = {c}
  /\ UNCHANGED <<found, damaged>>

Restart(c) ==
  /\ c \in possible
  /\ possible' = {c} /\ found' = c /\ damaged' = FALSE

RestartDamaged(c) ==
  /\ found' = c /\ damaged' = TRUE
  /\ UNCHANGED possible

Next ==
  \/ \E c \in Contents : Attempt(c) \/ Acknowledge(c)
  \/ \E c \in Contents \union {Missing} : Restart(c) \/ RestartDamaged(c)

Spec == Init /\ [][Next]_<<possible, found, damaged>>
=============================================================================
