---------------------------- MODULE MCBootUpdate ----------------------------
(***************************************************************************)
(* BootUpdate on three sectors: the vectors and a block, a block, and a    *)
(* block that only the larger of two images has beside the manifest.       *)
(***************************************************************************)
EXTENDS BootUpdate, TLC

CONSTANTS small, large

MCImages == {small, large}
MCSize == small :> 3 @@ large :> 5
MCSector == 0 :> 0 @@ 1 :> 0 @@ 2 :> 0 @@ 3 :> 1 @@ 4 :> 2 @@ 5 :> 2
=============================================================================
