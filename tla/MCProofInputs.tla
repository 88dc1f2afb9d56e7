---------------------------- MODULE MCProofInputs ----------------------------
(***************************************************************************)
(* Small instances of ProofInputs for TLC.                                 *)
(***************************************************************************)
EXTENDS ProofInputs, TLC

CONSTANTS
    k1, k2,   \* storage slot keys
    other     \* a contract beside the one of the request

MCKeys == <<k1, k2>>

(* Before slot 8 the contract's k2 is empty; by the block the request      *)
(* names it is set again.  The other contract has never changed its slots. *)
MCWrites ==
    Contract :> (k1 :> {2} @@ k2 :> {8, Block})
        @@ other :> (k1 :> {1} @@ k2 :> {3})
=============================================================================
