------------------------------ MODULE Follower ------------------------------
(***************************************************************************)
(* What a worker's light client promises the rest of the service, without  *)
(* RPCs, updates, periods or locks: its header only moves forward, never   *)
(* beyond what the source chain has finalized; what is saved of it is the  *)
(* header itself and only ever newer; and a new process goes on from what  *)
(* the last one saved.                                                     *)
(*                                                                         *)
(* LightClient implements it in the terms of the consensus client,         *)
(* ProofService in those of Redis.                                         *)
(***************************************************************************)
EXTENDS Integers

CONSTANTS
    InitSlot,   \* slot of INIT_CHECKPOINT
    NoHeader    \* older than any slot

VARIABLES
    finalized,   \* finalized slot of the source chain
    head,        \* slot of the client's finalized header
    saved        \* slot of the saved header, or NoHeader

followerVars == <<finalized, head, saved>>

Init ==
    /\ finalized \in Nat /\ InitSlot <= finalized
    /\ head = InitSlot
    /\ saved = NoHeader

Finalize ==
    /\ finalized' > finalized
    /\ UNCHANGED <<head, saved>>

Advance ==
    /\ head' \in head .. finalized
    /\ UNCHANGED <<finalized, saved>>

Save ==
    /\ head > saved
    /\ saved' = head
    /\ UNCHANGED <<finalized, head>>

Restart ==
    /\ head' = IF saved = NoHeader THEN InitSlot ELSE saved
    /\ UNCHANGED <<finalized, saved>>

Next == Finalize \/ Advance \/ Save \/ Restart

Spec == Init /\ [][Next]_followerVars
=============================================================================
