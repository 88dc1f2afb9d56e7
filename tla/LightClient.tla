----------------------------- MODULE LightClient -----------------------------
(***************************************************************************)
(* The light client of a worker (proof_service.rs: init_light_client,      *)
(* advance_light_client, check_header_health) through periods, lagging     *)
(* RPCs and restarts.  ProofService sees of it only that its slot moves    *)
(* forward, up to the finalized one; here is why it does.                  *)
(*                                                                         *)
(* Redis is taken to store each new header at once: that it does so in the *)
(* end is RedisCatchesUp of ProofService.                                  *)
(***************************************************************************)
EXTENDS ConsensusClient

CONSTANTS
    InitSlot,   \* slot of INIT_CHECKPOINT
    InitNow,    \* slot at which the service is started
    MaxAge      \* MAX_FINALIZED_HEADER_AGE, in slots

ASSUME LightClientAssumption ==
    /\ {InitSlot, InitNow, MaxAge} \subseteq Nat
    /\ InitSlot <= Finalized(InitNow - 1)
    /\ InitSlot \notin Missed
    /\ InitNow <= MaxNow

(* The service starts long after genesis; a period is longer than all lags *)
(* together, and a header may be as old as one that was finalized when the *)
(* last but one slot began.                                                *)
ASSUME FreshAssumption ==
    /\ Lag + 1 < InitNow
    /\ Lag + MaxLag + 2 < PeriodLength
    /\ Lag + 3 < PeriodLength
    /\ Lag + 2 <= MaxAge

VARIABLES
    loop,     \* where `run` is
    stored,   \* slot of the header in Redis, or NoHeader
    polled    \* the slot of the last advance

vars == <<clientVars, loop, stored, polled>>

NoHeader == -1

LoopPC == {"down", "boot", "bootstrapped", "sync", "save", "health", "sleep", "advance"}

TypeOK ==
    /\ ClientTypeOK
    /\ loop \in LoopPC
    /\ stored \in Nat \cup {NoHeader}
    /\ polled \in 0 .. now

Init ==
    /\ now = InitNow
    /\ lapses = 0
    /\ prompt = Rpcs
    /\ store = [slot |-> 0, next |-> FALSE]
    /\ calls = NoCalls
    /\ loop = "boot"
    /\ stored = NoHeader
    /\ polled = 0

-----------------------------------------------------------------------------
(* Mutant: the client always starts from the initial checkpoint.           *)
BootFromInit ==
    /\ loop = "boot"
    /\ Bootstrap(InitSlot)
    /\ loop' = "bootstrapped"
    /\ UNCHANGED <<stored, polled>>

(* get_initial_checkpoint                                                  *)
Checkpoint == IF stored = NoHeader THEN InitSlot ELSE stored

(* The bootstrap of sync.                                                  *)
Boot ==
    /\ loop = "boot"
    /\ Bootstrap(Checkpoint)
    /\ loop' = "bootstrapped"
    /\ UNCHANGED <<stored, polled>>

(* No node can bootstrap a client from the stored header: the process ends *)
(* and is started again.                                                   *)
FailBoot ==
    /\ loop = "boot"
    /\ ~CanBootstrap(Checkpoint)
    /\ loop' = "down"
    /\ UNCHANGED <<clientVars, stored, polled>>

Restart ==
    /\ loop = "down"
    /\ loop' = "boot"
    /\ UNCHANGED <<clientVars, stored, polled>>

StartSync ==
    /\ loop = "bootstrapped"
    /\ BeginSync
    /\ loop' = "sync"
    /\ polled' = now
    /\ UNCHANGED stored

(* The client failed to sync: the error ends the process.                  *)
EndSync ==
    /\ loop = "sync"
    /\ \/ GiveUp /\ loop' = "boot"
       \/ \E r \in Rpcs : Adopt(r) /\ loop' = "save"
    /\ UNCHANGED <<stored, polled>>

Save ==
    /\ loop = "save"
    /\ stored' = IF store.slot > stored THEN store.slot ELSE stored
    /\ loop' = "health"
    /\ UNCHANGED <<clientVars, polled>>

Age == now - stored

(* Mutant: an old header is only logged.                                   *)
NeverExit ==
    /\ loop = "health"
    /\ loop' = "sleep"
    /\ UNCHANGED <<clientVars, stored, polled>>

(* check_header_health                                                     *)
Health ==
    /\ loop = "health"
    /\ loop' = IF Age > MaxAge THEN "boot" ELSE "sleep"
    /\ UNCHANGED <<clientVars, stored, polled>>

(* A tick of the interval: one a slot.                                     *)
Poll ==
    /\ loop = "sleep"
    /\ BeginAdvance
    /\ loop' = "advance"
    /\ polled' = now
    /\ UNCHANGED stored

(* When all RPCs fail the loop goes on with the store it has.              *)
EndAdvance ==
    /\ loop = "advance"
    /\ GiveUp \/ \E r \in Rpcs : Adopt(r)
    /\ loop' = "save"
    /\ UNCHANGED <<stored, polled>>

Tick ==
    /\ \/ loop \in {"down", "sync", "advance"}
       \/ loop = "sleep" /\ polled = now
    /\ NextSlot
    /\ UNCHANGED <<loop, stored, polled>>

LoopStep ==
    Boot \/ FailBoot \/ Restart \/ StartSync \/ EndSync \/ Save \/ Health \/ Poll \/ EndAdvance

(* The process is killed: while it sleeps, since killing it in the middle  *)
(* of an operation leaves no trace of the operation.                       *)
Crash ==
    /\ loop = "sleep"
    /\ lapses < MaxLapses
    /\ lapses' = lapses + 1
    /\ loop' = "boot"
    /\ UNCHANGED <<now, prompt, store, calls, stored, polled>>

Calls ==
    /\ Outage \/ \E r \in Rpcs : CallStep(r)
    /\ UNCHANGED <<loop, stored, polled>>

Progress == LoopStep \/ Calls

Next == Progress \/ Crash \/ Tick

Spec == Init /\ [][Next]_vars

(* Every call answers, fails or times out, and the loop goes on; which     *)
(* leaves nobody out, as the loop waits for all calls.                     *)
Fairness == WF_vars(Progress)

FairSpec == Spec /\ Fairness

-----------------------------------------------------------------------------
(* A process that is down, or about to bootstrap, stands at its checkpoint.*)
ClientSlot == IF loop \in {"down", "boot"} THEN Checkpoint ELSE store.slot

Client == INSTANCE Follower WITH
              finalized <- Finalized(now - 1), head <- ClientSlot, saved <- stored

(* Through restarts, outages and lagging nodes that contradict each other  *)
(* the client implements Follower: it never goes back, but for a restart   *)
(* from the stored header, and never ahead of the finalized one, and what  *)
(* is stored never regresses: what Sync and AdvanceTo of ProofService take *)
(* for granted.                                                            *)
ImplementsFollower == Client!Spec

(* One RPC that answers promptly is enough, whatever the others do or fail *)
(* to do: the header never grows old enough to shut the service down, at   *)
(* no point of a period.  The most advanced store wins, and the committee  *)
(* of the next period is asked for as soon as the store does not know it.  *)
StaysFresh == loop \in {"health", "sleep"} /\ prompt # {} => Age <= MaxAge

(* A worker that is to start from a header that is no checkpoint: there is *)
(* no way out, as get_initial_checkpoint takes whatever header Redis has.  *)
Stuck == loop \in {"down", "boot"} /\ stored \in Missed

Fresh == stored # NoHeader /\ Age <= MaxAge

(* However long the RPCs were out, the header is fresh again in the end:   *)
(* a client that missed a committee cannot verify anything any more, but   *)
(* the health check ends its process and the next one syncs from Redis -   *)
(* unless the header there is none a client can be started from.           *)
BecomesFresh == []<>(Fresh \/ Stuck)

(* What keeps ImplementsFollower: while the loop is not waiting for calls  *)
(* there are none, and what a process can start from was finalized.        *)
FollowInv ==
    /\ ClientInv
    /\ loop \notin {"sync", "advance"} => Idle
    /\ {InitSlot, stored} \subseteq NoHeader .. Finalized(now - 1)

(***************************************************************************)
(* What keeps StaysFresh.  An RPC that answers promptly never fails a      *)
(* verification, and its store cannot be beaten by one from which the next *)
(* operation would fail: a store that is a slot newer but does not know    *)
(* the next committee is at the start of a period.                         *)
(***************************************************************************)

(* A node that is l slots behind has the complete update of the period.    *)
Served(l) == FirstSlot(Period(polled)) + Lag < polled - l

(* As new as a prompt answer to an operation begun at slot t, and able to  *)
(* verify one to the next operation.                                       *)
KeepsUp(s, t) ==
    /\ s.slot >= Finalized(t - 1)
    /\ s.next \/ Period(t + 2) = Period(s.slot)

SyncInv(c) ==
    LET us   == c.updates
        goal == Period(polled)
    IN
    /\ c.op = "sync" /\ c.pc # "committee"
    /\ c.pc \in {"updates", "verify", "finality"} /\ c.store.slot > store.slot
          => c.store.next
    /\ c.pc = "updates" =>
          /\ c.store = store
          /\ c.fetch \in Period(store.slot) .. goal
          /\ goal - Period(store.slot) < MaxRequest => c.fetch = Period(store.slot)
    /\ Served(MaxLag) =>
          /\ c.pc = "verify" => us # <<>> /\ Complete(us[Len(us)], goal)
          /\ c.pc = "finality" \/ (c.pc = "verify" /\ c.verified = Len(us))
                => c.store.next /\ Period(c.store.slot) = goal

PromptSyncInv(c) ==
    LET us   == c.updates
        p    == Period(store.slot)
        goal == Period(polled)
        last == p + c.verified - 1
    IN
    /\ c.pc # "failed"
    /\ c.pc = "updates" =>
          Len(us) = c.fetch - p /\ CompleteFrom(us, Len(us), p)
    /\ c.pc = "verify" =>
          /\ Len(us) \in {goal - p, goal - p + 1}
          /\ FromPeriod(us, p) /\ CompleteFrom(us, goal - p, p)
          /\ Served(0) => Len(us) = goal - p + 1 /\ Complete(us[Len(us)], goal)
          /\ c.verified = 0 => c.store = store
          /\ c.verified > 0 =>
                /\ c.store.next /\ Period(c.store.slot) \in {last - 1, last}
                /\ Complete(us[c.verified], last) => Period(c.store.slot) = last
    /\ c.pc = "finality" =>
          /\ c.store.next /\ Period(c.store.slot) \in {goal - 1, goal}
          /\ Served(0) => Period(c.store.slot) = goal

AdvanceInv(c) ==
    /\ c.op = "advance" /\ c.pc \notin {"updates", "verify"}
    /\ c.pc = "finality" => c.store = store
    /\ c.pc = "committee" =>
          /\ ~c.store.next
          /\ c.store.slot > Finalized(polled - 1)
                => now = polled + 1 /\ Period(now) = Period(c.store.slot)

PromptAdvanceInv(c) ==
    /\ c.pc # "failed"
    /\ c.pc = "committee" => c.store.slot >= Finalized(polled - 1)

DoneInv(c) ==
    /\ c.pc # "idle" /\ c.began = polled
    /\ c.pc = "done" /\ c.store.slot > Finalized(polled - 1) => KeepsUp(c.store, polled)

OperationInv ==
    /\ store.slot <= Finalized(polled - 1)
    /\ \A r \in Rpcs : DoneInv(calls[r])
    /\ \A r \in prompt : calls[r].pc = "done" => KeepsUp(calls[r].store, polled)

FreshInv ==
    /\ InitNow <= now
    /\ loop \notin {"down", "boot", "bootstrapped"} =>
          InitNow <= polled /\ polled <= now /\ now <= polled + 1
    /\ loop \in {"bootstrapped", "sync"} => ~store.next
    /\ loop \in {"sync", "advance"} => OperationInv
    /\ loop = "sync" =>
          /\ \A r \in Rpcs : SyncInv(calls[r])
          /\ \A r \in prompt : PromptSyncInv(calls[r])
    /\ loop = "advance" =>
          /\ \A r \in Rpcs : AdvanceInv(calls[r])
          /\ \A r \in prompt : PromptAdvanceInv(calls[r])
    /\ prompt # {} =>
          /\ loop = "advance" =>
                /\ store.slot >= Finalized(polled - 2)
                /\ store.next \/ Period(polled + 1) = Period(store.slot)
          /\ loop \in {"save", "health", "sleep"} => KeepsUp(store, polled)
          /\ loop \in {"health", "sleep"} => stored >= Finalized(polled - 1)
=============================================================================
