---------------------------- MODULE LockExtension ----------------------------
(***************************************************************************)
(* The lock of one generation task in time: acquired with SET NX PX,       *)
(* extended by the ticker loop of generate_and_store_proof with PEXPIRE,   *)
(* its commands answered by Redis within the response timeout.  Time is in *)
(* seconds and relative: ttl and due count down, age counts up.            *)
(***************************************************************************)
EXTENDS Integers

CONSTANTS
    Initial,    \* INITIAL_PROOF_GENERATION_LOCK_DURATION_MS
    Interval,   \* LOCK_EXTENSION_INTERVAL_SECS
    Buffer,     \* LOCK_EXTENSION_BUFFER_SECS
    Timeout     \* REDIS_TIMEOUT_SECS

ASSUME TimingAssumption ==
    /\ Initial \in Nat \ {0}
    /\ Interval \in Nat
    /\ Buffer \in Nat
    /\ Timeout \in Nat
    /\ Timeout <= Interval
    /\ Timeout < Buffer

VARIABLES
    ttl,       \* time the lock has left in Redis, 0 when there is none
    stage,     \* where the lock and its extension loop are
    age,       \* how long ago the command in flight was sent
    executed,  \* what the PEXPIRE in flight has done
    due,       \* time to the next scheduled tick, negative when overdue
    lease      \* the duration the lock was last given

vars == <<ttl, stage, age, executed, due, lease>>

Stage == {"acquiring", "waiting", "extending", "releasing", "stopped"}

TypeOK ==
    /\ ttl \in Nat
    /\ stage \in Stage
    /\ age \in 0 .. Timeout
    /\ executed \in {"no", "extended", "missing"}
    /\ due \in Int
    /\ lease \in {"initial", "extended"}

(* Redis has just set the lock; the answer is on its way.                  *)
Init ==
    /\ ttl = Initial
    /\ stage = "acquiring"
    /\ age = 0
    /\ executed = "no"
    /\ due = 0
    /\ lease = "initial"

(* The answer arrives and the task is spawned; the first tick of the       *)
(* interval is due at once.                                                *)
Spawn ==
    /\ stage = "acquiring"
    /\ stage' = "waiting"
    /\ UNCHANGED <<ttl, age, executed, due, lease>>

(* A tick: PEXPIRE is sent.  Ticks keep their schedule: one that comes     *)
(* late does not put off the next.                                         *)
Tick ==
    /\ stage = "waiting"
    /\ due <= 0
    /\ stage' = "extending"
    /\ age' = 0
    /\ executed' = "no"
    /\ due' = due + Interval
    /\ UNCHANGED <<ttl, lease>>

(* Mutant: the lock is extended by the interval, without the buffer.       *)
ExecuteWithoutBuffer ==
    /\ stage = "extending"
    /\ executed = "no"
    /\ IF ttl > 0
         THEN /\ ttl' = Interval
              /\ executed' = "extended"
              /\ lease' = "extended"
         ELSE /\ executed' = "missing"
              /\ UNCHANGED <<ttl, lease>>
    /\ UNCHANGED <<stage, age, due>>

(* PEXPIRE executes in Redis.                                              *)
Execute ==
    /\ stage = "extending"
    /\ executed = "no"
    /\ IF ttl > 0
         THEN /\ ttl' = Interval + Buffer
              /\ executed' = "extended"
              /\ lease' = "extended"
         ELSE /\ executed' = "missing"
              /\ UNCHANGED <<ttl, lease>>
    /\ UNCHANGED <<stage, age, due>>

(* Its answer arrives; without a lock to extend the loop ends.             *)
Answer ==
    /\ stage = "extending"
    /\ executed # "no"
    /\ stage' = IF executed = "extended" THEN "waiting" ELSE "stopped"
    /\ UNCHANGED <<ttl, age, executed, due, lease>>

(* The command fails or times out, executed or not, or the task has ended  *)
(* and cancels the loop while it waits: the loop releases the lock.        *)
Fail ==
    /\ stage = "extending"
    /\ stage' = "releasing"
    /\ UNCHANGED <<ttl, age, executed, due, lease>>

Cancel ==
    /\ stage = "waiting"
    /\ stage' = "releasing"
    /\ UNCHANGED <<ttl, age, executed, due, lease>>

Release ==
    /\ stage = "releasing"
    /\ stage' = "stopped"
    /\ ttl' \in {0, ttl}
    /\ UNCHANGED <<age, executed, due, lease>>

(* Mutant: the connection has no response timeout.                         *)
PassUnbounded ==
    /\ stage = "waiting" => due > 0
    /\ ttl' = IF ttl > 0 THEN ttl - 1 ELSE 0
    /\ age' = IF stage \in {"acquiring", "extending"} THEN age + 1 ELSE age
    /\ due' = IF stage \in {"waiting", "extending"} THEN due - 1 ELSE due
    /\ UNCHANGED <<stage, executed, lease>>

(* A second passes. No command is in flight beyond the timeout, and a loop *)
(* that waits takes a tick as soon as it is due.                           *)
Pass ==
    /\ stage \in {"acquiring", "extending"} => age < Timeout
    /\ stage = "waiting" => due > 0
    /\ ttl' = IF ttl > 0 THEN ttl - 1 ELSE 0
    /\ age' = IF stage \in {"acquiring", "extending"} THEN age + 1 ELSE age
    /\ due' = IF stage \in {"waiting", "extending"} THEN due - 1 ELSE due
    /\ UNCHANGED <<stage, executed, lease>>

Next ==
    \/ Spawn
    \/ Tick
    \/ Execute
    \/ Answer
    \/ Fail
    \/ Cancel
    \/ Release
    \/ Pass

Spec == Init /\ [][Next]_vars

-----------------------------------------------------------------------------
(* A lock that was extended once does not lapse while its loop runs,       *)
(* however slowly Redis answers, as long as it answers within the timeout: *)
(* what the comment on LOCK_EXTENSION_BUFFER_SECS intends.                 *)
ExtendedLockHolds ==
    lease = "extended" /\ stage \in {"waiting", "extending"} => ttl > 0

(* The strengthening of ExtendedLockHolds that is inductive: the lock      *)
(* outlives the next tick by the buffer, and a command in flight has used  *)
(* up no more than its age of that.                                        *)
LockMargin ==
    lease = "extended" =>
        /\ stage = "waiting" => ttl >= Buffer /\ ttl >= due + Buffer
        /\ stage = "extending" /\ executed = "no" => ttl >= Buffer - age
        /\ stage = "extending" /\ executed = "extended" =>
             ttl >= Interval + Buffer - age /\ ttl >= due + Buffer
        /\ stage = "extending" => executed # "missing"
=============================================================================
