----------------------------- MODULE RedisStore -----------------------------
(***************************************************************************)
(* The shared Redis instance of the ZK API and the commands RedisStore     *)
(* sends to it (zk-api/src/redis_store.rs).  Several workers (processes)   *)
(* share one instance; a command is atomic, everything between two         *)
(* commands interleaves.                                                   *)
(*                                                                         *)
(* A header is abstracted to its slot, a proof state to its status, a lock *)
(* to its presence and, for a generation lock, to which of the two         *)
(* durations it was last given.  The value of a lock is the constant       *)
(* "locked" whoever takes it: a lock has no owner here because it has none *)
(* in the code.                                                            *)
(***************************************************************************)
EXTENDS Integers, FiniteSets

CONSTANTS
    Requests,     \* proof ids: the hash of a request's fields
    MaxSlot,      \* bound on the slots of the source chain
    MaxFaults     \* bound on the faults of each kind

NoHeader == 0
Slots    == 1 .. MaxSlot

(* ProofRequestStatus, with "absent" for a missing key. Initiated is only  *)
(* ever the status of a value not yet stored.                              *)
Status == {"absent", "waiting", "generating", "success", "errored"}

(* "initial" is the one-second lock taken before a task is spawned,        *)
(* "extended" the lock after PEXPIRE by the task's extension loop.         *)
GenLock == {"free", "initial", "extended"}

FaultKinds == {"redis", "crash", "disconnect", "stall", "ttl"}

ASSUME SlotAssumption  == MaxSlot \in Nat \ {0}
ASSUME FaultAssumption == MaxFaults \in [FaultKinds -> Nat]

VARIABLES
    finalizedHeader,  \* slot of <prefix>:state:finalized_header, or NoHeader
    proofState,       \* status under <prefix>:state:<id>
    globalLock,       \* is <prefix>:lock present
    genLock,          \* <prefix>:lock:<id>
    faults            \* how many faults of each kind have happened

redisVars == <<finalizedHeader, proofState, globalLock, genLock, faults>>

RedisTypeOK ==
    /\ finalizedHeader \in Slots \cup {NoHeader}
    /\ proofState \in [Requests -> Status]
    /\ globalLock \in BOOLEAN
    /\ genLock \in [Requests -> GenLock]
    /\ faults \in [FaultKinds -> Nat]

RedisInit ==
    /\ finalizedHeader = NoHeader
    /\ proofState = [r \in Requests |-> "absent"]
    /\ globalLock = FALSE
    /\ genLock = [r \in Requests |-> "free"]
    /\ faults = [k \in FaultKinds |-> 0]

(* A fault of kind k happens, within its bound.                            *)
Charge(k) ==
    /\ faults[k] < MaxFaults[k]
    /\ faults' = [faults EXCEPT ![k] = @ + 1]

-----------------------------------------------------------------------------
(* What the caller of a command learns: it succeeds; it fails and was not  *)
(* executed; it fails (a timeout, a lost reply) although it was executed.  *)
Outcomes     == {"ok", "lost", "applied"}
ReadOutcomes == {"ok", "lost"}

Executed(o) == o # "lost"

Price(o) == IF o = "ok" THEN UNCHANGED faults ELSE Charge("redis")

-----------------------------------------------------------------------------
(* Proof states and the header                                             *)

ReadOnly(o) ==
    /\ Price(o)
    /\ UNCHANGED <<finalizedHeader, proofState, globalLock, genLock>>

set_proof_state(r, status, o) ==
    /\ Price(o)
    /\ proofState' = IF Executed(o) THEN [proofState EXCEPT ![r] = status]
                                    ELSE proofState
    /\ UNCHANGED <<finalizedHeader, globalLock, genLock>>

(* One MULTI: the new header and, for every request in S, the status.      *)
update_finalized_header_and_proof_states(slot, S, status, o) ==
    /\ Price(o)
    /\ IF Executed(o)
         THEN /\ finalizedHeader' = slot
              /\ proofState' = [r \in Requests |->
                                  IF r \in S THEN status ELSE proofState[r]]
         ELSE UNCHANGED <<finalizedHeader, proofState>>
    /\ UNCHANGED <<globalLock, genLock>>

-----------------------------------------------------------------------------
(* Locks: SET NX PX to acquire, DEL to release, PEXPIRE to extend.  DEL    *)
(* and PEXPIRE act on the key, whoever holds the lock.                     *)

acquire_global_lock(o) ==
    /\ Price(o)
    /\ globalLock' = (globalLock \/ Executed(o))
    /\ UNCHANGED <<finalizedHeader, proofState, genLock>>

release_global_lock(o) ==
    /\ Price(o)
    /\ globalLock' = (globalLock /\ ~Executed(o))
    /\ UNCHANGED <<finalizedHeader, proofState, genLock>>

acquire_proof_generation_lock(r, o) ==
    /\ Price(o)
    /\ genLock' = IF Executed(o) /\ genLock[r] = "free"
                    THEN [genLock EXCEPT ![r] = "initial"] ELSE genLock
    /\ UNCHANGED <<finalizedHeader, proofState, globalLock>>

release_proof_generation_lock(r, o) ==
    /\ Price(o)
    /\ genLock' = IF Executed(o) THEN [genLock EXCEPT ![r] = "free"] ELSE genLock
    /\ UNCHANGED <<finalizedHeader, proofState, globalLock>>

extend_proof_generation_lock(r, o) ==
    /\ Price(o)
    /\ genLock' = IF Executed(o) /\ genLock[r] # "free"
                    THEN [genLock EXCEPT ![r] = "extended"] ELSE genLock
    /\ UNCHANGED <<finalizedHeader, proofState, globalLock>>

-----------------------------------------------------------------------------
(* Expiry of keys: done by Redis itself.                                   *)

global_lock_expires ==
    /\ globalLock
    /\ globalLock' = FALSE
    /\ UNCHANGED <<finalizedHeader, proofState, genLock>>

proof_generation_lock_expires(r) ==
    /\ genLock[r] # "free"
    /\ genLock' = [genLock EXCEPT ![r] = "free"]
    /\ UNCHANGED <<finalizedHeader, proofState, globalLock>>

(* PROOF_STATE_TTL_SECS, one week, after the last write of the key.        *)
proof_state_expires(r) ==
    /\ proofState[r] # "absent"
    /\ Charge("ttl")
    /\ proofState' = [proofState EXCEPT ![r] = "absent"]
    /\ UNCHANGED <<finalizedHeader, globalLock, genLock>>
=============================================================================
