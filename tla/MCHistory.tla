----------------------------- MODULE MCHistory -----------------------------
(***************************************************************************)
(* Instances of History.                                                   *)
(***************************************************************************)
EXTENDS History

CONSTANTS w1, w2, r1

MCNames == <<"exp", "main">>

============================================================================
