---------------------------- MODULE ProofService ----------------------------
(***************************************************************************)
(* The ZK API's workers (zk-api/src/proof_service.rs) over one Redis.  A   *)
(* worker is a process: it runs the loop of `run`, the HTTP handlers of    *)
(* its API server and the generation tasks either of them spawned.  An     *)
(* action is one Redis command together with the local computation up to   *)
(* the next command; so every interleaving of workers, handlers and tasks  *)
(* between two commands is a behaviour of the model.                       *)
(*                                                                         *)
(* Outside src/ are the source chain (finalizedHead), the HTTP clients and *)
(* the end of processes; they are the actions of the environment.          *)
(***************************************************************************)
EXTENDS RedisStore

CONSTANTS
    Workers,    \* processes
    Handlers,   \* HTTP requests in flight at once
    Host,       \* the worker that serves a handler
    Tasks,      \* bound on the generation tasks alive at once
    InitSlot,   \* slot of INIT_CHECKPOINT
    BlockAt,    \* execution block number of the finalized header at a slot
    ReqBlock,   \* src_chain_block_number of a request
    ReqHead     \* dst_chain_contract_from_head of a request

ASSUME NonEmptyAssumption == Requests # {} /\ Workers # {}
ASSUME HostAssumption  == Host \in [Handlers -> Workers]
ASSUME SlotsAssumption == InitSlot \in Slots
ASSUME BlockAssumption ==
    /\ BlockAt \in [Slots -> Nat]
    /\ \A s, t \in Slots : s <= t => BlockAt[s] <= BlockAt[t]
ASSUME RequestAssumption ==
    /\ ReqBlock \in [Requests -> Nat]
    /\ ReqHead \in [Requests -> Nat]

VARIABLES
    finalizedHead,   \* finalized slot of the source chain
    handlers,        \* request_proof calls
    loops,           \* the loop of `run` in each worker
    tasks            \* generate_and_store_proof tasks

vars == <<redisVars, finalizedHead, handlers, loops, tasks>>

(* The finality condition of a request at a finalized header.              *)
Covered(r, slot) == BlockAt[slot] >= ReqBlock[r] /\ slot > ReqHead[r]

-----------------------------------------------------------------------------
(* A handler: where it is, its request, whether the global lock was        *)
(* acquired and what it last decided from what it read: the status seen,   *)
(* the status to write, then the answer to the client.                     *)
View == Status \cup {"contention", "error"}

HandlerPC == {"idle", "readState", "readHeader", "write", "acquireGen", "release"}

HandlerType == [pc : HandlerPC, req : Requests, acquired : BOOLEAN, view : View]

(* The loop of `run`: lc is the slot of the light client's finalized       *)
(* header, advance the flag should_advance_redis_state, todo and found     *)
(* what a scan has left to read and what it found, result what became of   *)
(* the update: "refused" if the global lock was not acquired.              *)
LoopPC == {"down", "boot", "sync", "update", "readHeader", "scanWaiting",
           "commit", "spawn", "release", "scanGenerating", "pickUp", "health",
           "sleep"}

Result == {"none", "processed", "failed", "refused"}

LoopType == [pc : LoopPC, lc : Slots, advance : BOOLEAN,
             todo : SUBSET Requests, found : SUBSET Requests, result : Result]

(* A generation task: ext is the state of its lock extension loop,         *)
(* verdict the final status it is to store.                                *)
TaskPC == {"free", "generating", "storing", "finished"}

TaskType == [pc : TaskPC, worker : Workers, req : Requests,
             ext : {"on", "releasing", "off"}, verdict : {"success", "errored"}]

DecidedViews ==
    \A h \in Handlers : handlers[h].pc \in {"write", "acquireGen"}
                           => handlers[h].view \in {"waiting", "generating"}

TypeOK ==
    /\ RedisTypeOK
    /\ finalizedHead \in Slots
    /\ handlers \in [Handlers -> HandlerType]
    /\ loops \in [Workers -> LoopType]
    /\ tasks \in [Tasks -> TaskType]
    /\ DecidedViews

DownLoop == [pc |-> "down", lc |-> InitSlot, advance |-> TRUE,
             todo |-> {}, found |-> {}, result |-> "none"]

AnyRequest == CHOOSE r \in Requests : TRUE
AnyWorker  == CHOOSE w \in Workers : TRUE

IdleHandler == [pc |-> "idle", req |-> AnyRequest, acquired |-> FALSE,
                view |-> "absent"]

FreeTask == [pc |-> "free", worker |-> AnyWorker, req |-> AnyRequest,
             ext |-> "off", verdict |-> "errored"]

NewTask(w, r) == [FreeTask EXCEPT !.pc = "generating", !.worker = w,
                                  !.req = r, !.ext = "on"]

Init ==
    /\ RedisInit
    /\ finalizedHead = InitSlot
    /\ handlers = [h \in Handlers |-> IdleHandler]
    /\ loops = [w \in Workers |-> DownLoop]
    /\ tasks = [t \in Tasks |-> FreeTask]

Up(w)      == loops[w].pc # "down"
Working(t) == tasks[t].pc \in {"generating", "storing"}
Extends(t) == tasks[t].pc # "free" /\ tasks[t].ext = "on"

(* Mutant: the task is spawned although the lock was not free.             *)
SpawnAnyway(w, r, o) ==
    /\ acquire_proof_generation_lock(r, o)
    /\ IF o = "ok"
         THEN \E t \in Tasks :
                /\ tasks[t].pc = "free"
                /\ tasks' = [tasks EXCEPT ![t] = NewTask(w, r)]
         ELSE UNCHANGED tasks

(* acquire_proof_generation_lock, and tokio::spawn of the task if the lock *)
(* was free and the answer arrived; any other outcome is only logged.      *)
AcquireAndSpawn(w, r, o) ==
    /\ acquire_proof_generation_lock(r, o)
    /\ IF o = "ok" /\ genLock[r] = "free"
         THEN \E t \in Tasks :
                /\ tasks[t].pc = "free"
                /\ tasks' = [tasks EXCEPT ![t] = NewTask(w, r)]
         ELSE UNCHANGED tasks

-----------------------------------------------------------------------------
(* request_proof: with_global_lock around process_request_locked.          *)

SetHandler(h, pc, view) ==
    handlers' = [handlers EXCEPT ![h].pc = pc, ![h].view = view]

(* An error from the acquisition is returned at once, nothing is released. *)
RequestProof(h, r, o) ==
    /\ handlers[h].pc = "idle"
    /\ Up(Host[h])
    /\ acquire_global_lock(o)
    /\ IF o = "ok"
         THEN handlers' = [handlers EXCEPT ![h] =
                             [pc |-> "readState", req |-> r,
                              acquired |-> ~globalLock, view |-> "absent"]]
         ELSE UNCHANGED handlers
    /\ UNCHANGED <<finalizedHead, loops, tasks>>

ReadState(h, o) ==
    LET status == proofState[handlers[h].req] IN
    /\ handlers[h].pc = "readState"
    /\ ReadOnly(o)
    /\ \/ o # "ok" /\ SetHandler(h, "release", "error")
       \/ o = "ok" /\ handlers[h].acquired /\ SetHandler(h, "readHeader", status)
       \/ /\ o = "ok" /\ ~handlers[h].acquired
          /\ SetHandler(h, "release",
                        IF status = "absent" THEN "contention" ELSE status)
    /\ UNCHANGED <<finalizedHead, loops, tasks>>

(* A new request and one whose last attempt errored are initialized, by    *)
(* whether they are final; the status of any other is the answer.          *)
Decide(h, o, final, otherwise) ==
    LET seen == handlers[h].view
        read == o = "ok" /\ finalizedHeader # NoHeader
    IN
    /\ handlers[h].pc = "readHeader"
    /\ ReadOnly(o)
    /\ \/ ~read /\ SetHandler(h, "release", "error")
       \/ read /\ seen \notin {"absent", "errored"} /\ SetHandler(h, "release", seen)
       \/ /\ read /\ seen \in {"absent", "errored"}
          /\ SetHandler(h, "write", IF final THEN "generating" ELSE otherwise)
    /\ UNCHANGED <<finalizedHead, loops, tasks>>

(* Mutants: a request that is not final keeps the status it has; its block *)
(* is not compared; a header at the contract's own head is accepted.       *)
KeepStatus(h, o) ==
    Decide(h, o, Covered(handlers[h].req, finalizedHeader), handlers[h].view)

ForgetBlock(h, o) ==
    Decide(h, o, finalizedHeader > ReqHead[handlers[h].req], "waiting")

AcceptHead(h, o) ==
    LET r == handlers[h].req IN
    Decide(h, o, /\ finalizedHeader # NoHeader
                 /\ BlockAt[finalizedHeader] >= ReqBlock[r]
                 /\ finalizedHeader >= ReqHead[r], "waiting")

ReadHeader(h, o) ==
    Decide(h, o, Covered(handlers[h].req, finalizedHeader), "waiting")

(* Mutant: a failure to store the state is only logged.                    *)
WriteAnyway(h, o) ==
    LET status == handlers[h].view IN
    /\ handlers[h].pc = "write"
    /\ set_proof_state(handlers[h].req, status, o)
    /\ SetHandler(h, IF status = "generating" THEN "acquireGen" ELSE "release", status)
    /\ UNCHANGED <<finalizedHead, loops, tasks>>

WriteState(h, o) ==
    LET status == handlers[h].view IN
    /\ handlers[h].pc = "write"
    /\ set_proof_state(handlers[h].req, status, o)
    /\ \/ o # "ok" /\ SetHandler(h, "release", "error")
       \/ o = "ok" /\ status = "generating" /\ SetHandler(h, "acquireGen", status)
       \/ o = "ok" /\ status # "generating" /\ SetHandler(h, "release", status)
    /\ UNCHANGED <<finalizedHead, loops, tasks>>

StartGeneration(h, o) ==
    /\ handlers[h].pc = "acquireGen"
    /\ AcquireAndSpawn(Host[h], handlers[h].req, o)
    /\ SetHandler(h, "release", handlers[h].view)
    /\ UNCHANGED <<finalizedHead, loops>>

(* The lock is deleted whether or not this handler acquired it.            *)
Respond(h, o) ==
    /\ handlers[h].pc = "release"
    /\ release_global_lock(o)
    /\ handlers' = [handlers EXCEPT ![h] = IdleHandler]
    /\ UNCHANGED <<finalizedHead, loops, tasks>>

HandlerStep(h) ==
    \/ \E o \in Outcomes :
         \/ WriteState(h, o)
         \/ StartGeneration(h, o)
    \/ \E o \in ReadOutcomes :
         \/ ReadState(h, o)
         \/ ReadHeader(h, o)
         \/ Respond(h, o)

-----------------------------------------------------------------------------
(* run: start of a worker and synchronisation of its light client.         *)

(* A process ends: its loop, its handlers and its tasks are gone.          *)
Exit(w) ==
    /\ loops' = [loops EXCEPT ![w] = DownLoop]
    /\ handlers' = [h \in Handlers |->
                      IF Host[h] = w THEN IdleHandler ELSE handlers[h]]
    /\ tasks' = [t \in Tasks |->
                   IF tasks[t].worker = w THEN FreeTask ELSE tasks[t]]

(* main starts the API server before run.                                  *)
Start(w) ==
    /\ ~Up(w)
    /\ loops' = [loops EXCEPT ![w].pc = "boot"]
    /\ UNCHANGED <<redisVars, finalizedHead, handlers, tasks>>

(* Mutant: a worker always starts from INIT_CHECKPOINT.                    *)
BootFromInit(w, o) ==
    /\ loops[w].pc = "boot"
    /\ ReadOnly(o)
    /\ loops' = [loops EXCEPT ![w].pc = "sync", ![w].lc = InitSlot]
    /\ UNCHANGED <<finalizedHead, handlers, tasks>>

(* get_initial_checkpoint                                                  *)
Checkpoint == IF finalizedHeader = NoHeader THEN InitSlot ELSE finalizedHeader

Boot(w, o) ==
    /\ loops[w].pc = "boot"
    /\ ReadOnly(o)
    /\ IF o = "ok"
         THEN /\ loops' = [loops EXCEPT
                            ![w].pc = "sync", ![w].lc = Checkpoint]
              /\ UNCHANGED <<handlers, tasks>>
         ELSE Exit(w)
    /\ UNCHANGED finalizedHead

(* The light client syncs to a finalized header its RPCs have.             *)
Sync(w) ==
    /\ loops[w].pc = "sync"
    /\ \E s \in loops[w].lc .. finalizedHead :
         loops' = [loops EXCEPT ![w].pc = "update", ![w].lc = s,
                                ![w].advance = TRUE]
    /\ UNCHANGED <<redisVars, finalizedHead, handlers, tasks>>

-----------------------------------------------------------------------------
(* update_redis_state: with_global_lock around                             *)
(* process_new_finalized_header_locked.                                    *)

EndUpdate(w, result) ==
    loops' = [loops EXCEPT ![w].pc = "release", ![w].result = result,
                           ![w].todo = {}, ![w].found = {}]

BeginScan(w, pc) ==
    loops' = [loops EXCEPT ![w].pc = pc, ![w].todo = Requests, ![w].found = {}]

AcquireForUpdate(w, o) ==
    /\ loops[w].pc = "update"
    /\ acquire_global_lock(o)
    /\ \/ o # "ok" /\ BeginScan(w, "scanGenerating")
       \/ o = "ok" /\ ~globalLock /\ loops' = [loops EXCEPT ![w].pc = "readHeader"]
       \/ o = "ok" /\ globalLock /\ EndUpdate(w, "refused")
    /\ UNCHANGED <<finalizedHead, handlers, tasks>>

ReadStoredHeader(w, o) ==
    /\ loops[w].pc = "readHeader"
    /\ ReadOnly(o)
    /\ \/ o # "ok" /\ EndUpdate(w, "failed")
       \/ /\ o = "ok" /\ finalizedHeader < loops[w].lc
          /\ BeginScan(w, "scanWaiting")
       \/ /\ o = "ok" /\ finalizedHeader >= loops[w].lc
          /\ EndUpdate(w, "processed")
    /\ UNCHANGED <<finalizedHead, handlers, tasks>>

(* find_requests_by_status reads the keys in batches, in no order.         *)
ScanNext(w, r, status, next) ==
    LET found == IF proofState[r] = status
                   THEN loops[w].found \cup {r} ELSE loops[w].found
        todo  == loops[w].todo \ {r}
    IN  loops' = [loops EXCEPT ![w].todo = todo, ![w].found = found,
                               ![w].pc = IF todo = {} THEN next ELSE @]

(* Mutant: a request that cannot be read is left out of the scan.          *)
SkipUnreadable(w, r, o) ==
    /\ loops[w].pc = "scanWaiting"
    /\ r \in loops[w].todo
    /\ ReadOnly(o)
    /\ IF o = "ok" THEN ScanNext(w, r, "waiting", "commit")
                   ELSE ScanNext(w, r, "absent", "commit")
    /\ UNCHANGED <<finalizedHead, handlers, tasks>>

ScanWaiting(w, r, o) ==
    /\ loops[w].pc = "scanWaiting"
    /\ r \in loops[w].todo
    /\ ReadOnly(o)
    /\ IF o = "ok" THEN ScanNext(w, r, "waiting", "commit") ELSE EndUpdate(w, "failed")
    /\ UNCHANGED <<finalizedHead, handlers, tasks>>

(* The waiting requests found that the new header covers.                  *)
Ready(w) == {r \in loops[w].found : Covered(r, loops[w].lc)}

Commit(w, o) ==
    /\ loops[w].pc = "commit"
    /\ update_finalized_header_and_proof_states(
         loops[w].lc, Ready(w), "generating", o)
    /\ \/ o # "ok" /\ EndUpdate(w, "failed")
       \/ o = "ok" /\ Ready(w) = {} /\ EndUpdate(w, "processed")
       \/ /\ o = "ok" /\ Ready(w) # {}
          /\ loops' = [loops EXCEPT ![w].pc = "spawn", ![w].todo = Ready(w),
                                    ![w].found = {}]
    /\ UNCHANGED <<finalizedHead, handlers, tasks>>

SpawnReleased(w, r, o) ==
    /\ loops[w].pc = "spawn"
    /\ r \in loops[w].todo
    /\ AcquireAndSpawn(w, r, o)
    /\ IF loops[w].todo = {r}
         THEN EndUpdate(w, "processed")
         ELSE loops' = [loops EXCEPT ![w].todo = @ \ {r}]
    /\ UNCHANGED <<finalizedHead, handlers>>

(* Mutant: the flag is cleared although the update failed.                 *)
ClearFlag(w, o) ==
    /\ loops[w].pc = "release"
    /\ release_global_lock(o)
    /\ loops' = [loops EXCEPT ![w].pc = "scanGenerating", ![w].todo = Requests,
                              ![w].result = "none", ![w].advance = FALSE]
    /\ UNCHANGED <<finalizedHead, handlers, tasks>>

(* Here too the lock is deleted whoever acquired it.                       *)
ReleaseAfterUpdate(w, o) ==
    /\ loops[w].pc = "release"
    /\ release_global_lock(o)
    /\ loops' = [loops EXCEPT ![w].pc = "scanGenerating", ![w].todo = Requests,
                              ![w].result = "none",
                              ![w].advance = @ /\ loops[w].result # "processed"]
    /\ UNCHANGED <<finalizedHead, handlers, tasks>>

-----------------------------------------------------------------------------
(* restart_orphaned_proofs, check_header_health, advance_light_client      *)

(* Mutant: what the scan found is not picked up.                           *)
NeverPickUp(w, r, o) ==
    /\ loops[w].pc = "scanGenerating"
    /\ r \in loops[w].todo
    /\ ReadOnly(o)
    /\ ScanNext(w, r, "generating", "health")
    /\ UNCHANGED <<finalizedHead, handlers, tasks>>

(* Mutant: what waits is picked up as well.                                *)
PickUpWaiting(w, r, o) ==
    /\ loops[w].pc = "scanGenerating"
    /\ r \in loops[w].todo
    /\ ReadOnly(o)
    /\ IF o = "ok" /\ proofState[r] = "waiting"
         THEN ScanNext(w, r, "waiting", "pickUp")
         ELSE ScanNext(w, r, "generating", "pickUp")
    /\ UNCHANGED <<finalizedHead, handlers, tasks>>

ScanGenerating(w, r, o) ==
    /\ loops[w].pc = "scanGenerating"
    /\ r \in loops[w].todo
    /\ ReadOnly(o)
    /\ IF o = "ok"
         THEN ScanNext(w, r, "generating", "pickUp")
         ELSE loops' = [loops EXCEPT ![w].pc = "health", ![w].todo = {},
                                     ![w].found = {}]
    /\ UNCHANGED <<finalizedHead, handlers, tasks>>

NothingToPickUp(w) ==
    /\ loops[w].pc = "pickUp"
    /\ loops[w].found = {}
    /\ loops' = [loops EXCEPT ![w].pc = "health"]
    /\ UNCHANGED <<redisVars, finalizedHead, handlers, tasks>>

PickUp(w, r, o) ==
    /\ loops[w].pc = "pickUp"
    /\ r \in loops[w].found
    /\ AcquireAndSpawn(w, r, o)
    /\ loops' = [loops EXCEPT ![w].found = @ \ {r}]
    /\ UNCHANGED <<finalizedHead, handlers>>

(* A missing header ends the process, a failed read does not.              *)
CheckHeaderHealth(w, o) ==
    /\ loops[w].pc = "health"
    /\ ReadOnly(o)
    /\ IF o = "ok" /\ finalizedHeader = NoHeader
         THEN Exit(w)
         ELSE /\ loops' = [loops EXCEPT ![w].pc = "sleep"]
              /\ UNCHANGED <<handlers, tasks>>
    /\ UNCHANGED finalizedHead

(* The next tick of the interval, and advance_light_client to slot s (to   *)
(* its own slot when it fails or finds nothing newer).                     *)
AdvanceTo(w, s) ==
    LET advance == loops[w].advance \/ s > loops[w].lc IN
    /\ loops[w].pc = "sleep"
    /\ s \in loops[w].lc .. finalizedHead
    /\ loops' = [loops EXCEPT
                  ![w].lc = s, ![w].advance = advance,
                  ![w].pc = IF advance THEN "update" ELSE "scanGenerating",
                  ![w].todo = IF advance THEN {} ELSE Requests]
    /\ UNCHANGED <<redisVars, finalizedHead, handlers, tasks>>

LoopStep(w) ==
    \/ Sync(w)
    \/ NothingToPickUp(w)
    \/ \E s \in Slots : AdvanceTo(w, s)
    \/ \E o \in Outcomes :
         \/ AcquireForUpdate(w, o)
         \/ Commit(w, o)
         \/ \E r \in Requests : SpawnReleased(w, r, o) \/ PickUp(w, r, o)
    \/ \E o \in ReadOutcomes :
         \/ Boot(w, o)
         \/ ReadStoredHeader(w, o)
         \/ ReleaseAfterUpdate(w, o)
         \/ CheckHeaderHealth(w, o)
         \/ \E r \in Requests : ScanWaiting(w, r, o) \/ ScanGenerating(w, r, o)

-----------------------------------------------------------------------------
(* generate_and_store_proof and its lock extension loop                    *)

(* The inputs are gathered and the proof made, or one of the two fails for *)
(* good (three attempts, a slot that is no checkpoint, a prover error).    *)
Generate(t) ==
    /\ tasks[t].pc = "generating"
    /\ \E v \in {"success", "errored"} :
         tasks' = [tasks EXCEPT ![t].pc = "storing", ![t].verdict = v]
    /\ UNCHANGED <<redisVars, finalizedHead, handlers, loops>>

(* Retried for as long as it fails.                                        *)
Store(t, o) ==
    /\ tasks[t].pc = "storing"
    /\ set_proof_state(tasks[t].req, tasks[t].verdict, o)
    /\ \/ o # "ok" /\ UNCHANGED tasks
       \/ /\ o = "ok" /\ tasks[t].ext # "off"
          /\ tasks' = [tasks EXCEPT ![t].pc = "finished"]
       \/ /\ o = "ok" /\ tasks[t].ext = "off"
          /\ tasks' = [tasks EXCEPT ![t] = FreeTask]
    /\ UNCHANGED <<finalizedHead, handlers, loops>>

StopExtending(t) ==
    tasks' = [tasks EXCEPT ![t] = IF @.pc = "finished" THEN FreeTask
                                  ELSE [@ EXCEPT !.ext = "off"]]

(* A tick of the interval: a missing lock ends the loop, an error makes it *)
(* release the lock.                                                       *)
Extend(t, o) ==
    /\ Extends(t)
    /\ extend_proof_generation_lock(tasks[t].req, o)
    /\ \/ o # "ok" /\ tasks' = [tasks EXCEPT ![t].ext = "releasing"]
       \/ o = "ok" /\ genLock[tasks[t].req] = "free" /\ StopExtending(t)
       \/ o = "ok" /\ genLock[tasks[t].req] # "free" /\ UNCHANGED tasks
    /\ UNCHANGED <<finalizedHead, handlers, loops>>

(* After an error, or when the task that ended cancelled the loop.         *)
ReleaseGenLock(t, o) ==
    /\ \/ tasks[t].pc # "free" /\ tasks[t].ext = "releasing"
       \/ tasks[t].pc = "finished" /\ tasks[t].ext = "on"
    /\ release_proof_generation_lock(tasks[t].req, o)
    /\ StopExtending(t)
    /\ UNCHANGED <<finalizedHead, handlers, loops>>

TaskStep(t) ==
    \/ Generate(t)
    \/ \E o \in Outcomes : Store(t, o) \/ Extend(t, o)
    \/ \E o \in ReadOutcomes : ReleaseGenLock(t, o)

-----------------------------------------------------------------------------
(* The environment                                                         *)

Finalize ==
    /\ \E s \in Slots : s > finalizedHead /\ finalizedHead' = s
    /\ UNCHANGED <<redisVars, handlers, loops, tasks>>

(* A kill, a failure of init_light_client, a stored header grown too old.  *)
Crash(w) ==
    /\ Up(w)
    /\ Charge("crash")
    /\ Exit(w)
    /\ UNCHANGED <<finalizedHeader, proofState, globalLock, genLock, finalizedHead>>

(* The client closes its connection: the server drops the handler's future *)
(* where it awaits, and the lock it may hold stays until it expires.       *)
Disconnect(h) ==
    /\ handlers[h].pc # "idle"
    /\ Charge("disconnect")
    /\ handlers' = [handlers EXCEPT ![h] = IdleHandler]
    /\ UNCHANGED <<finalizedHeader, proofState, globalLock, genLock,
                   finalizedHead, loops, tasks>>

(* Who acquired the global lock and has not yet deleted it.                *)
HandlerInSection(h) == handlers[h].pc # "idle" /\ handlers[h].acquired
LoopInSection(w) ==
    \/ loops[w].pc \in {"readHeader", "scanWaiting", "commit", "spawn"}
    \/ loops[w].pc = "release" /\ loops[w].result # "refused"
InSection == (\E h \in Handlers : HandlerInSection(h)) \/ (\E w \in Workers : LoopInSection(w))

(* A section that outlives REDIS_LOCK_DURATION_SECS is a stall.            *)
ExpireGlobalLock ==
    /\ global_lock_expires
    /\ IF InSection THEN Charge("stall") ELSE UNCHANGED faults
    /\ UNCHANGED <<finalizedHead, handlers, loops, tasks>>

Extended(r) == \E t \in Tasks : Extends(t) /\ tasks[t].req = r

(* A lock that is being extended outlives its extensions (LockExtension);  *)
(* the first extension may come too late for the initial second.           *)
ExpireGenLock(r) ==
    /\ proof_generation_lock_expires(r)
    /\ IF Extended(r) THEN genLock[r] = "initial" /\ Charge("stall")
                      ELSE UNCHANGED faults
    /\ UNCHANGED <<finalizedHead, handlers, loops, tasks>>

ExpireProofState(r) ==
    /\ proof_state_expires(r)
    /\ UNCHANGED <<finalizedHead, handlers, loops, tasks>>

Environment ==
    \/ Finalize
    \/ ExpireGlobalLock
    \/ \E w \in Workers : Start(w) \/ Crash(w)
    \/ \E h \in Handlers : Disconnect(h)
    \/ \E r \in Requests : ExpireGenLock(r) \/ ExpireProofState(r)

-----------------------------------------------------------------------------
Next ==
    \/ Environment
    \/ \E h \in Handlers :
         \/ HandlerStep(h)
         \/ \E r \in Requests, o \in Outcomes : RequestProof(h, r, o)
    \/ \E w \in Workers : LoopStep(w)
    \/ \E t \in Tasks : TaskStep(t)

Spec == Init /\ [][Next]_vars

(***************************************************************************)
(* Fairness.  Every loop, handler and task is scheduled; the process       *)
(* supervisor restarts a worker; Redis expires keys; the chain finalizes;  *)
(* and a light client that polls again and again at last learns the        *)
(* finalized slot.  Nothing is assumed of clients, nor of who wins a lock. *)
(***************************************************************************)
Fairness ==
    /\ WF_vars(Finalize)
    /\ WF_vars(~InSection /\ ExpireGlobalLock)
    /\ \A r \in Requests : WF_vars(~Extended(r) /\ ExpireGenLock(r))
    /\ \A h \in Handlers : WF_vars(HandlerStep(h))
    /\ \A t \in Tasks : WF_vars(TaskStep(t))
    /\ \A w \in Workers :
         /\ WF_vars(Start(w))
         /\ WF_vars(LoopStep(w))
         /\ SF_vars(AdvanceTo(w, finalizedHead))

FairSpec == Spec /\ Fairness

-----------------------------------------------------------------------------
(* Properties                                                              *)

(* The finality gate: a request is in generation, or has been, only if the *)
(* source chain has finalized the block it names and a slot beyond the     *)
(* contract's head (initialize_request_locked and                          *)
(* process_new_finalized_header_locked test it against a header read from  *)
(* Redis, which other workers may have replaced since).                    *)
GeneratingOnlyFinalized ==
    \A r \in Requests :
        proofState[r] \in {"generating", "success", "errored"}
            => Covered(r, finalizedHead)

(* What process_new_finalized_header says when it returns true: Redis      *)
(* holds the proposed header or a newer one.  The loop relies on it: with  *)
(* should_advance_redis_state cleared it will not try again.               *)
ProcessedHeaderStored ==
    \A w \in Workers : ~loops[w].advance => finalizedHeader >= loops[w].lc

(* No command has failed and no lock has lapsed under whoever relies on it. *)
Reliable == faults["redis"] = 0 /\ faults["stall"] = 0

(* At most one task at a time works on a request ("exclusive control over  *)
(* this proof_id" in generate_and_store_proof), for as long as commands    *)
(* are answered and the first extension of a lock is not late.             *)
ExclusiveGeneration ==
    Reliable =>
        \A t, u \in Tasks :
            Working(t) /\ Working(u) /\ tasks[t].req = tasks[u].req => t = u

(* A client that is told its request is accepted (202, with its status)    *)
(* will find it: its state is in Redis, whatever failed on the way, until  *)
(* it expires.                                                             *)
AcceptedIsStored ==
    \A h \in Handlers :
        /\ handlers[h].pc \in {"acquireGen", "release"}
        /\ handlers[h].view \in Status \ {"absent"}
        /\ faults["ttl"] = 0
        => proofState[handlers[h].req] # "absent"

(* A proof "ready for consumption" stays so until it expires: what is      *)
(* picked up is orphaned, not done ("Lock acquired! This task is           *)
(* orphaned." in restart_orphaned_proofs).                                 *)
SuccessStays ==
    [][\A r \in Requests :
         proofState[r] = "success" => proofState'[r] \in {"success", "absent"}]_vars

(* A waiting request is one the stored finalized header does not cover.    *)
WaitingNotYetFinal ==
    \A r \in Requests :
        proofState[r] = "waiting" /\ finalizedHeader # NoHeader
            => ~Covered(r, finalizedHeader)

(* No API request is in progress.                                          *)
Quiet == \A h \in Handlers : handlers[h].pc = "idle"

(* Once the API is quiet, Redis catches up with every finalized slot: a    *)
(* failed update of the header is tried again.                             *)
RedisCatchesUp ==
    <>[]Quiet =>
        \A s \in Slots : finalizedHead = s ~> finalizedHeader >= s

(* A waiting request is not forgotten: it is released with a later header. *)
(* The exception is a request stored while the worker is between its scan  *)
(* and its commit of the last header there is.                             *)
WaitingResolves ==
    <>[]Quiet =>
        \A r \in Requests :
            /\ proofState[r] = "waiting"
            /\ finalizedHeader < MaxSlot
            /\ \A w \in Workers : ~LoopInSection(w)
            ~> proofState[r] # "waiting"

(* The requests some part of the service still treats as released: by      *)
(* status, by a task, or in the hands of a handler or a loop about to      *)
(* start one.                                                              *)
InPipeline ==
    {r \in Requests :
        \/ proofState[r] \in {"generating", "success", "errored"}
        \/ \E t \in Tasks : Working(t) /\ tasks[t].req = r
        \/ \E h \in Handlers : handlers[h].pc = "acquireGen" /\ handlers[h].req = r
        \/ \E w \in Workers :
             \/ loops[w].pc = "spawn" /\ r \in loops[w].todo
             \/ loops[w].pc \in {"scanGenerating", "pickUp"} /\ r \in loops[w].found}

Gate == INSTANCE FinalityGate WITH
            head <- finalizedHead, status <- proofState, released <- InPipeline

(* Through all commands, crashes and races the service keeps the promise   *)
(* of FinalityGate: statuses change only as it allows, a task gives a      *)
(* verdict only on a request that was released, and a request does not     *)
(* stay in generation: whatever crashes and errors there are, as long as   *)
(* they end, its task, or the one that picks it up, stores a verdict.      *)
ImplementsGate == Gate!Spec

(* Its safety part holds even if faults never end: nothing a crash, an     *)
(* expired lock or a lost reply brings about is a step the gate forbids.   *)
KeepsGate == Gate!Steps

(* The slot a worker's light client stands at: until it has started, the   *)
(* one it will start from.                                                 *)
ClientSlot(w) == IF loops[w].pc \in {"down", "boot"} THEN Checkpoint ELSE loops[w].lc

Client == INSTANCE Follower WITH
              finalized <- finalizedHead, head <- ClientSlot(AnyWorker),
              saved <- finalizedHeader

(* A worker alone with Redis implements Follower: whatever commands fail,  *)
(* locks are lost or processes die, Redis holds headers its light client   *)
(* had, each newer than the last, and a worker that starts again goes on   *)
(* from there (get_initial_checkpoint, process_new_finalized_header).      *)
ImplementsFollower == Client!Spec

-----------------------------------------------------------------------------
(* The inductive strengthening of GeneratingOnlyFinalized: whoever is      *)
(* about to make a request "generating", to start a task on it or to give  *)
(* it a verdict decided so from a header the chain had finalized.          *)

HeadersFinalized ==
    /\ InitSlot <= finalizedHead
    /\ finalizedHeader <= finalizedHead
    /\ \A w \in Workers : loops[w].lc <= finalizedHead

HandlersGated ==
    \A h \in Handlers :
        \/ handlers[h].pc = "write" /\ handlers[h].view = "generating"
        \/ handlers[h].pc = "acquireGen"
        => Covered(handlers[h].req, finalizedHead)

LoopsGated ==
    \A w \in Workers :
        /\ loops[w].pc = "spawn"
             => \A r \in loops[w].todo : Covered(r, finalizedHead)
        /\ loops[w].pc \notin {"scanWaiting", "commit"}
             => \A r \in loops[w].found : Covered(r, finalizedHead)

TasksGated ==
    \A t \in Tasks : tasks[t].pc # "free" => Covered(tasks[t].req, finalizedHead)

GateInv ==
    /\ HeadersFinalized
    /\ HandlersGated
    /\ LoopsGated
    /\ TasksGated
    /\ GeneratingOnlyFinalized

(* What KeepsGate needs besides GateInv: a loop holds what a scan has      *)
(* found only until it has dealt with it.                                  *)
FoundInv ==
    \A w \in Workers :
        loops[w].pc \notin {"scanWaiting", "commit", "scanGenerating", "pickUp"}
            => loops[w].found = {}

(* The inductive strengthening of ExclusiveGeneration, when no command     *)
(* fails and no first extension comes late: the generation lock of a       *)
(* request is held as long as one of its tasks exists, and one only does.  *)
LockedInv ==
    /\ Reliable
    /\ \A t \in Tasks : tasks[t].pc # "free" =>
         /\ tasks[t].ext = "on"
         /\ genLock[tasks[t].req] # "free"
    /\ \A t, u \in Tasks :
         /\ tasks[t].pc # "free"
         /\ tasks[u].pc # "free"
         /\ tasks[t].req = tasks[u].req
         => t = u

(* The inductive strengthening of ProcessedHeaderStored, and of            *)
(* ImplementsFollower, with one worker: nobody else writes the header      *)
(* between its comparison and its commit, or after it.                     *)
WriterInv ==
    \A w \in Workers :
        LET l == loops[w] IN
        /\ l.pc \in {"scanWaiting", "commit"} => finalizedHeader < l.lc
        /\ l.pc = "spawn" \/ l.result = "processed" => finalizedHeader >= l.lc
        /\ finalizedHeader < l.lc => l.advance
        /\ l.pc \in {"down", "boot"} => l.advance
        /\ l.result # "none" => l.pc = "release"

(* The inductive strengthening of AcceptedIsStored: a status a handler has *)
(* read, and may answer with, is not gone either.                          *)
AcceptedInv ==
    \A h \in Handlers :
        /\ handlers[h].pc \in {"readHeader", "acquireGen", "release"}
        /\ handlers[h].view \in Status \ {"absent"}
        /\ faults["ttl"] = 0
        => proofState[handlers[h].req] # "absent"
=============================================================================
