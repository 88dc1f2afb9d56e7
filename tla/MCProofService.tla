--------------------------- MODULE MCProofService ---------------------------
(***************************************************************************)
(* Small instances of ProofService for TLC.                                *)
(***************************************************************************)
EXTENDS ProofService, TLC

CONSTANTS a, b,    \* workers
          h1, h2,  \* handlers
          r1, r2,  \* requests
          t1, t2   \* task slots

(* A finalized header's block number is its slot.  At the slot of          *)
(* INIT_CHECKPOINT, 1, the block of r1 is not yet there and the contract   *)
(* of r2 is not behind; at slot 2 both requests are covered.               *)
MCBlockAt  == [s \in Slots |-> s]
MCReqBlock == [r \in Requests |-> IF r = r1 THEN 2 ELSE 1]
MCReqHead  == [r \in Requests |-> IF r = r1 THEN 0 ELSE 1]

AllOnA == [h \in Handlers |-> a]

Faults(redis, crash, disconnect, stall, ttl) ==
    [redis |-> redis, crash |-> crash, disconnect |-> disconnect,
     stall |-> stall, ttl |-> ttl]

NoFaults     == Faults(0, 0, 0, 0, 0)
EveryFault   == Faults(1, 1, 1, 1, 1)
RedisAndCrash == Faults(1, 1, 0, 0, 0)

TaskSymmetry == Permutations(Tasks)
=============================================================================
