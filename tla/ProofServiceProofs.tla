------------------------- MODULE ProofServiceProofs -------------------------
(***************************************************************************)
(* ProofService, for any number of workers, handlers, tasks and requests:  *)
(* type correctness; what a client is told exists, whatever fails; and     *)
(* exclusive generation, as long as no Redis command has failed and no     *)
(* lock has lapsed under its holder.                                       *)
(***************************************************************************)
EXTENDS ProofService, TLAPS

-----------------------------------------------------------------------------
(* The commands of RedisStore keep its types.                              *)

LEMMA ChargeType ==
    ASSUME faults \in [FaultKinds -> Nat], NEW k \in FaultKinds, Charge(k)
    PROVE  faults' \in [FaultKinds -> Nat]
BY DEF Charge

LEMMA PriceType ==
    ASSUME faults \in [FaultKinds -> Nat], NEW o \in Outcomes, Price(o)
    PROVE  faults' \in [FaultKinds -> Nat]
<1>1. CASE o = "ok" BY <1>1 DEF Price
<1>2. CASE o # "ok"
  <2>1. "redis" \in FaultKinds BY DEF FaultKinds
  <2> QED BY <1>2, <2>1, ChargeType DEF Price
<1> QED BY <1>1, <1>2

LEMMA LockType ==
    ASSUME RedisTypeOK, NEW r \in Requests, NEW l \in GenLock
    PROVE  [genLock EXCEPT ![r] = l] \in [Requests -> GenLock]
BY DEF RedisTypeOK

LEMMA ReadOnlyType ==
    ASSUME RedisTypeOK, NEW o \in Outcomes, ReadOnly(o)
    PROVE  RedisTypeOK'
BY PriceType DEF RedisTypeOK, ReadOnly

LEMMA SetProofStateType ==
    ASSUME RedisTypeOK, NEW o \in Outcomes, NEW r \in Requests,
           NEW status \in Status, set_proof_state(r, status, o)
    PROVE  RedisTypeOK'
BY PriceType DEF RedisTypeOK, set_proof_state

LEMMA CommitType ==
    ASSUME RedisTypeOK, NEW o \in Outcomes, NEW slot \in Slots, NEW S,
           update_finalized_header_and_proof_states(slot, S, "generating", o)
    PROVE  RedisTypeOK'
BY PriceType DEF RedisTypeOK, update_finalized_header_and_proof_states, Status

LEMMA GlobalLockType ==
    ASSUME RedisTypeOK, NEW o \in Outcomes,
           acquire_global_lock(o) \/ release_global_lock(o)
    PROVE  RedisTypeOK'
<1>1. faults' \in [FaultKinds -> Nat]
  BY PriceType DEF RedisTypeOK, acquire_global_lock, release_global_lock
<1>2. globalLock' \in BOOLEAN
  BY Zenon DEF RedisTypeOK, acquire_global_lock, release_global_lock
<1> QED
  BY <1>1, <1>2 DEF RedisTypeOK, acquire_global_lock, release_global_lock

LEMMA GenLockType ==
    ASSUME RedisTypeOK, NEW o \in Outcomes, NEW r \in Requests,
           \/ acquire_proof_generation_lock(r, o)
           \/ release_proof_generation_lock(r, o)
           \/ extend_proof_generation_lock(r, o)
    PROVE  RedisTypeOK'
<1>1. faults' \in [FaultKinds -> Nat]
  BY PriceType DEF RedisTypeOK, acquire_proof_generation_lock,
     release_proof_generation_lock, extend_proof_generation_lock
<1>2. genLock' \in [Requests -> GenLock]
  BY DEF RedisTypeOK, GenLock, acquire_proof_generation_lock,
     release_proof_generation_lock, extend_proof_generation_lock
<1> QED
  BY <1>1, <1>2 DEF RedisTypeOK, acquire_proof_generation_lock,
     release_proof_generation_lock, extend_proof_generation_lock

-----------------------------------------------------------------------------
(* Handlers, loops and tasks that are idle, down or free have their types, *)
(* and so have those a step updates.                                       *)

LEMMA IdleTypes ==
    /\ AnyRequest \in Requests
    /\ AnyWorker \in Workers
    /\ IdleHandler \in HandlerType
    /\ DownLoop \in LoopType
    /\ FreeTask \in TaskType
<1>1. AnyRequest \in Requests /\ AnyWorker \in Workers
  BY NonEmptyAssumption DEF AnyRequest, AnyWorker
<1>2. IdleHandler \in HandlerType
  BY <1>1 DEF IdleHandler, HandlerType, HandlerPC, View, Status
<1>3. DownLoop \in LoopType
  BY SlotsAssumption DEF DownLoop, LoopType, LoopPC, Result
<1>4. FreeTask \in TaskType
  BY <1>1 DEF FreeTask, TaskType, TaskPC
<1> QED
  BY <1>1, <1>2, <1>3, <1>4

LEMMA SetHandlerType ==
    ASSUME handlers \in [Handlers -> HandlerType], DecidedViews,
           NEW h \in Handlers, NEW pc \in HandlerPC, NEW view \in View,
           pc \in {"write", "acquireGen"} => view \in {"waiting", "generating"},
           SetHandler(h, pc, view)
    PROVE  handlers' \in [Handlers -> HandlerType] /\ DecidedViews'
BY DEF SetHandler, HandlerType, DecidedViews

LEMMA AcquireAndSpawnType ==
    ASSUME TypeOK, NEW w \in Workers, NEW r \in Requests, NEW o \in Outcomes,
           AcquireAndSpawn(w, r, o)
    PROVE  RedisTypeOK' /\ tasks' \in [Tasks -> TaskType]
<1>1. RedisTypeOK'
  BY GenLockType DEF TypeOK, AcquireAndSpawn
<1>2. NewTask(w, r) \in TaskType
  BY IdleTypes DEF NewTask, FreeTask, TaskType, TaskPC
<1>3. tasks' \in [Tasks -> TaskType]
  BY <1>2 DEF TypeOK, AcquireAndSpawn
<1> QED
  BY <1>1, <1>3

LEMMA ExitType ==
    ASSUME TypeOK, NEW w \in Workers, Exit(w)
    PROVE  /\ loops' \in [Workers -> LoopType]
           /\ handlers' \in [Handlers -> HandlerType]
           /\ DecidedViews'
           /\ tasks' \in [Tasks -> TaskType]
BY IdleTypes DEF TypeOK, Exit, DecidedViews, IdleHandler

LEMMA HandlerStepType ==
    ASSUME TypeOK, NEW h \in Handlers, HandlerStep(h)
    PROVE  TypeOK'
<1> USE DEF TypeOK
<1>0. /\ handlers[h] \in HandlerType
      /\ handlers[h].req \in Requests
      /\ handlers[h].view \in View
      /\ Status \subseteq View
      /\ {"idle", "readHeader", "write", "acquireGen", "release"} \subseteq HandlerPC
      /\ {"error", "contention", "waiting", "generating"} \subseteq View
      /\ {"waiting", "generating"} \subseteq Status
      /\ ReadOutcomes \subseteq Outcomes
      /\ Host[h] \in Workers
  BY HostAssumption
     DEF HandlerType, View, Status, HandlerPC, ReadOutcomes, Outcomes
<1>1. ASSUME NEW o \in ReadOutcomes, ReadState(h, o) PROVE TypeOK'
  <2>1. proofState[handlers[h].req] \in Status
    BY <1>0 DEF RedisTypeOK
  <2>2. handlers' \in [Handlers -> HandlerType] /\ DecidedViews'
    BY <1>0, <1>1, <2>1, SetHandlerType DEF ReadState
  <2>3. RedisTypeOK'
    BY <1>0, <1>1, ReadOnlyType DEF ReadState
  <2> QED
    BY <1>1, <2>2, <2>3 DEF ReadState
<1>2. ASSUME NEW o \in ReadOutcomes, ReadHeader(h, o) PROVE TypeOK'
  <2>1. handlers' \in [Handlers -> HandlerType] /\ DecidedViews'
    BY <1>0, <1>2, SetHandlerType DEF ReadHeader, Decide
  <2>2. RedisTypeOK'
    BY <1>0, <1>2, ReadOnlyType DEF ReadHeader, Decide
  <2> QED
    BY <1>2, <2>1, <2>2 DEF ReadHeader, Decide
<1>3. ASSUME NEW o \in Outcomes, WriteState(h, o) PROVE TypeOK'
  <2>1. handlers[h].view \in {"waiting", "generating"}
    BY <1>3 DEF WriteState, DecidedViews
  <2>2. handlers' \in [Handlers -> HandlerType] /\ DecidedViews'
    BY <1>0, <1>3, <2>1, SetHandlerType DEF WriteState
  <2>3. RedisTypeOK'
    BY <1>0, <1>3, <2>1, SetProofStateType DEF WriteState
  <2> QED
    BY <1>3, <2>2, <2>3 DEF WriteState
<1>4. ASSUME NEW o \in Outcomes, StartGeneration(h, o) PROVE TypeOK'
  <2>1. RedisTypeOK' /\ tasks' \in [Tasks -> TaskType]
    BY <1>0, <1>4, AcquireAndSpawnType DEF StartGeneration
  <2>2. handlers' \in [Handlers -> HandlerType] /\ DecidedViews'
    BY <1>0, <1>4, SetHandlerType DEF StartGeneration
  <2> QED
    BY <1>4, <2>1, <2>2 DEF StartGeneration
<1>5. ASSUME NEW o \in ReadOutcomes, Respond(h, o) PROVE TypeOK'
  <2>1. handlers' \in [Handlers -> HandlerType] /\ DecidedViews'
    BY <1>5, IdleTypes DEF Respond, DecidedViews, IdleHandler
  <2>2. RedisTypeOK'
    BY <1>0, <1>5, GlobalLockType DEF Respond
  <2> QED
    BY <1>5, <2>1, <2>2 DEF Respond
<1> QED
  BY <1>1, <1>2, <1>3, <1>4, <1>5 DEF HandlerStep

LEMMA RequestProofType ==
    ASSUME TypeOK, NEW h \in Handlers, NEW r \in Requests, NEW o \in Outcomes,
           RequestProof(h, r, o)
    PROVE  TypeOK'
<1>1. RedisTypeOK'
  BY GlobalLockType DEF TypeOK, RequestProof
<1>2. globalLock \in BOOLEAN
  BY DEF TypeOK, RedisTypeOK
<1>3. [pc |-> "readState", req |-> r, acquired |-> ~globalLock, view |-> "absent"]
        \in HandlerType
  <2>1. (~globalLock) \in BOOLEAN
    BY <1>2, Zenon
  <2> DEFINE free == ~globalLock
  <2>2. free \in BOOLEAN
    BY <2>1
  <2> HIDE DEF free
  <2>3. [pc |-> "readState", req |-> r, acquired |-> free, view |-> "absent"]
          \in HandlerType
    BY <2>2 DEF HandlerType, HandlerPC, View, Status
  <2> QED
    BY <2>3 DEF free
<1>4. handlers' \in [Handlers -> HandlerType] /\ DecidedViews'
  BY <1>3 DEF TypeOK, RequestProof, DecidedViews
<1> QED
  BY <1>1, <1>4 DEF TypeOK, RequestProof

LEMMA EndUpdateType ==
    ASSUME loops \in [Workers -> LoopType], NEW w \in Workers,
           NEW result \in Result, EndUpdate(w, result)
    PROVE  loops' \in [Workers -> LoopType]
<1>1. "release" \in LoopPC
  BY DEF LoopPC
<1>2. loops[w] \in LoopType
  OBVIOUS
<1>3. [loops[w] EXCEPT !.pc = "release", !.result = result,
                       !.todo = {}, !.found = {}] \in LoopType
  BY <1>1, <1>2 DEF LoopType
<1> QED
  BY <1>3 DEF EndUpdate

LEMMA BeginScanType ==
    ASSUME loops \in [Workers -> LoopType], NEW w \in Workers,
           NEW pc \in LoopPC, BeginScan(w, pc)
    PROVE  loops' \in [Workers -> LoopType]
BY DEF BeginScan, LoopType

LEMMA ScanNextType ==
    ASSUME loops \in [Workers -> LoopType], NEW w \in Workers,
           NEW r \in Requests, NEW status, NEW next \in LoopPC,
           ScanNext(w, r, status, next)
    PROVE  loops' \in [Workers -> LoopType]
<1> DEFINE found == IF proofState[r] = status
                      THEN loops[w].found \cup {r} ELSE loops[w].found
           todo  == loops[w].todo \ {r}
           pc    == IF todo = {} THEN next ELSE loops[w].pc
<1>1. found \in SUBSET Requests /\ todo \in SUBSET Requests /\ pc \in LoopPC
  BY DEF LoopType
<1>2. loops' = [loops EXCEPT ![w].todo = todo, ![w].found = found, ![w].pc = pc]
  BY DEF ScanNext
<1> HIDE DEF found, todo, pc
<1> QED
  BY <1>1, <1>2 DEF LoopType

(* The steps of a loop that only read Redis.                               *)
LEMMA LoopReadType ==
    ASSUME TypeOK, NEW w \in Workers, NEW o \in ReadOutcomes,
           \/ Boot(w, o)
           \/ ReadStoredHeader(w, o)
           \/ CheckHeaderHealth(w, o)
           \/ \E r \in Requests : ScanWaiting(w, r, o) \/ ScanGenerating(w, r, o)
    PROVE  TypeOK'
<1> USE DEF TypeOK
<1>0. /\ ReadOutcomes \subseteq Outcomes
      /\ {"sync", "scanWaiting", "commit", "pickUp", "health", "sleep"} \subseteq LoopPC
      /\ {"failed", "processed"} \subseteq Result
      /\ loops[w] \in LoopType
  BY DEF ReadOutcomes, Outcomes, LoopPC, Result
<1>1. ReadOnly(o)
  BY DEF Boot, ReadStoredHeader, CheckHeaderHealth, ScanWaiting, ScanGenerating
<1>2. RedisTypeOK'
  BY <1>0, <1>1, ReadOnlyType
<1>3. CASE Boot(w, o)
  <2>1. CASE o = "ok"
    <3>1. Checkpoint \in Slots
      BY SlotsAssumption DEF Checkpoint, RedisTypeOK
    <3>2. loops' \in [Workers -> LoopType]
      BY <1>0, <1>3, <2>1, <3>1 DEF Boot, LoopType
    <3> QED
      BY <1>2, <1>3, <2>1, <3>2 DEF Boot, DecidedViews
  <2>2. CASE o # "ok"
    BY <1>2, <1>3, <2>2, ExitType DEF Boot
  <2> QED
    BY <2>1, <2>2
<1>4. CASE ReadStoredHeader(w, o)
  <2>1. loops' \in [Workers -> LoopType]
    BY <1>0, <1>4, EndUpdateType, BeginScanType DEF ReadStoredHeader
  <2> QED
    BY <1>2, <1>4, <2>1 DEF ReadStoredHeader, DecidedViews
<1>5. CASE CheckHeaderHealth(w, o)
  <2>1. CASE o = "ok" /\ finalizedHeader = NoHeader
    BY <1>2, <1>5, <2>1, ExitType DEF CheckHeaderHealth
  <2>2. CASE ~(o = "ok" /\ finalizedHeader = NoHeader)
    <3>1. loops' \in [Workers -> LoopType]
      BY <1>0, <1>5, <2>2 DEF CheckHeaderHealth, LoopType
    <3> QED
      BY <1>2, <1>5, <2>2, <3>1 DEF CheckHeaderHealth, DecidedViews
  <2> QED
    BY <2>1, <2>2
<1>6. ASSUME NEW r \in Requests, ScanWaiting(w, r, o) PROVE TypeOK'
  <2>1. loops' \in [Workers -> LoopType]
    BY <1>0, <1>6, EndUpdateType, ScanNextType DEF ScanWaiting
  <2> QED
    BY <1>2, <1>6, <2>1 DEF ScanWaiting, DecidedViews
<1>7. ASSUME NEW r \in Requests, ScanGenerating(w, r, o) PROVE TypeOK'
  <2>1. CASE o = "ok"
    BY <1>0, <1>7, <2>1, <1>2, ScanNextType DEF ScanGenerating, DecidedViews
  <2>2. CASE o # "ok"
    <3>1. loops' \in [Workers -> LoopType]
      BY <1>0, <1>7, <2>2 DEF ScanGenerating, LoopType
    <3> QED
      BY <1>2, <1>7, <3>1 DEF ScanGenerating, DecidedViews
  <2> QED
    BY <2>1, <2>2
<1> QED
  BY <1>3, <1>4, <1>5, <1>6, <1>7

(* Its other steps.                                                        *)
LEMMA LoopWriteType ==
    ASSUME TypeOK, NEW w \in Workers,
           \/ Sync(w)
           \/ NothingToPickUp(w)
           \/ \E s \in Slots : AdvanceTo(w, s)
           \/ \E o \in ReadOutcomes : ReleaseAfterUpdate(w, o)
           \/ \E o \in Outcomes :
                \/ AcquireForUpdate(w, o)
                \/ Commit(w, o)
                \/ \E r \in Requests : SpawnReleased(w, r, o) \/ PickUp(w, r, o)
    PROVE  TypeOK'
<1> USE DEF TypeOK
<1>0. /\ ReadOutcomes \subseteq Outcomes
      /\ {"update", "readHeader", "scanGenerating", "spawn", "health"} \subseteq LoopPC
      /\ {"none", "failed", "processed", "refused"} \subseteq Result
      /\ loops[w] \in LoopType
      /\ loops[w].lc \in Slots
      /\ loops[w].todo \subseteq Requests
      /\ loops[w].found \subseteq Requests
      /\ loops[w].advance \in BOOLEAN
  BY DEF ReadOutcomes, Outcomes, LoopPC, Result, LoopType
<1>1. CASE Sync(w)
  <2>1. PICK s \in loops[w].lc .. finalizedHead :
          loops' = [loops EXCEPT ![w].pc = "update", ![w].lc = s, ![w].advance = TRUE]
    BY <1>1 DEF Sync
  <2>2. s \in Slots
    BY <1>0, SlotAssumption DEF Slots
  <2>3. loops' \in [Workers -> LoopType]
    BY <1>0, <2>1, <2>2 DEF LoopType
  <2> QED
    BY <1>1, <2>3 DEF Sync, DecidedViews, redisVars, RedisTypeOK
<1>2. CASE NothingToPickUp(w)
  <2>1. loops' \in [Workers -> LoopType]
    BY <1>0, <1>2 DEF NothingToPickUp, LoopType
  <2> QED
    BY <1>2, <2>1 DEF NothingToPickUp, DecidedViews, redisVars, RedisTypeOK
<1>3. ASSUME NEW s \in Slots, AdvanceTo(w, s) PROVE TypeOK'
  <2> DEFINE advance == loops[w].advance \/ s > loops[w].lc
  <2>1. advance \in BOOLEAN
    BY Zenon
  <2>2. loops' = [loops EXCEPT
                   ![w].lc = s, ![w].advance = advance,
                   ![w].pc = IF advance THEN "update" ELSE "scanGenerating",
                   ![w].todo = IF advance THEN {} ELSE Requests]
    BY <1>3, Zenon DEF AdvanceTo
  <2> HIDE DEF advance
  <2>3. loops' \in [Workers -> LoopType]
    BY <1>0, <2>1, <2>2 DEF LoopType
  <2> QED
    BY <1>3, <2>3 DEF AdvanceTo, DecidedViews, redisVars, RedisTypeOK
<1>4. ASSUME NEW o \in ReadOutcomes, ReleaseAfterUpdate(w, o) PROVE TypeOK'
  <2>1. RedisTypeOK'
    BY <1>0, <1>4, GlobalLockType DEF ReleaseAfterUpdate
  <2> DEFINE advance == loops[w].advance /\ loops[w].result # "processed"
  <2>2. advance \in BOOLEAN
    BY Zenon
  <2>3. loops' = [loops EXCEPT
                   ![w].pc = "scanGenerating", ![w].todo = Requests,
                   ![w].result = "none", ![w].advance = advance]
    BY <1>4 DEF ReleaseAfterUpdate
  <2> HIDE DEF advance
  <2>4. loops' \in [Workers -> LoopType]
    BY <1>0, <2>2, <2>3 DEF LoopType
  <2> QED
    BY <1>4, <2>1, <2>4 DEF ReleaseAfterUpdate, DecidedViews
<1>5. ASSUME NEW o \in Outcomes, AcquireForUpdate(w, o) PROVE TypeOK'
  <2>1. RedisTypeOK'
    BY <1>5, GlobalLockType DEF AcquireForUpdate
  <2>2. CASE loops' = [loops EXCEPT ![w].pc = "readHeader"]
    <3>1. loops' \in [Workers -> LoopType]
      BY <1>0, <2>2 DEF LoopType
    <3> QED
      BY <1>5, <2>1, <3>1 DEF AcquireForUpdate, DecidedViews
  <2>3. CASE EndUpdate(w, "refused") \/ BeginScan(w, "scanGenerating")
    <3>1. loops' \in [Workers -> LoopType]
      BY <1>0, <2>3, EndUpdateType, BeginScanType
    <3> QED
      BY <1>5, <2>1, <3>1 DEF AcquireForUpdate, DecidedViews
  <2> QED
    BY <1>5, <2>2, <2>3 DEF AcquireForUpdate
<1>6. ASSUME NEW o \in Outcomes, Commit(w, o) PROVE TypeOK'
  <2>1. RedisTypeOK'
    BY <1>0, <1>6, CommitType DEF Commit
  <2>2. Ready(w) \subseteq Requests
    BY <1>0 DEF Ready
  <2>3. loops' \in [Workers -> LoopType]
    <3>1. CASE EndUpdate(w, "failed") \/ EndUpdate(w, "processed")
      BY <1>0, <3>1, EndUpdateType
    <3>2. CASE loops' = [loops EXCEPT ![w].pc = "spawn", ![w].todo = Ready(w),
                                      ![w].found = {}]
      BY <1>0, <2>2, <3>2 DEF LoopType
    <3> QED
      BY <1>6, <3>1, <3>2 DEF Commit
  <2> QED
    BY <1>6, <2>1, <2>3 DEF Commit, DecidedViews
<1>7. ASSUME NEW o \in Outcomes, NEW r \in Requests, SpawnReleased(w, r, o)
      PROVE  TypeOK'
  <2>1. RedisTypeOK' /\ tasks' \in [Tasks -> TaskType]
    BY <1>7, AcquireAndSpawnType DEF SpawnReleased
  <2>2. CASE EndUpdate(w, "processed")
    BY <1>0, <1>7, <2>1, <2>2, EndUpdateType DEF SpawnReleased, DecidedViews
  <2>3. CASE loops' = [loops EXCEPT ![w].todo = @ \ {r}]
    <3>1. loops' \in [Workers -> LoopType]
      BY <1>0, <2>3 DEF LoopType
    <3> QED
      BY <1>7, <2>1, <3>1 DEF SpawnReleased, DecidedViews
  <2> QED
    BY <1>7, <2>2, <2>3 DEF SpawnReleased
<1>8. ASSUME NEW o \in Outcomes, NEW r \in Requests, PickUp(w, r, o)
      PROVE  TypeOK'
  <2>1. RedisTypeOK' /\ tasks' \in [Tasks -> TaskType]
    BY <1>8, AcquireAndSpawnType DEF PickUp
  <2>2. loops' \in [Workers -> LoopType]
    BY <1>0, <1>8 DEF PickUp, LoopType
  <2> QED
    BY <1>8, <2>1, <2>2 DEF PickUp, DecidedViews
<1> QED
  BY <1>1, <1>2, <1>3, <1>4, <1>5, <1>6, <1>7, <1>8

LEMMA StopExtendingType ==
    ASSUME tasks \in [Tasks -> TaskType], NEW t \in Tasks, StopExtending(t)
    PROVE  tasks' \in [Tasks -> TaskType]
BY IdleTypes DEF StopExtending, TaskType

LEMMA TaskStepType ==
    ASSUME TypeOK, NEW t \in Tasks, TaskStep(t)
    PROVE  TypeOK'
<1> USE DEF TypeOK
<1>0. /\ ReadOutcomes \subseteq Outcomes
      /\ {"storing", "finished"} \subseteq TaskPC
      /\ {"success", "errored"} \subseteq Status
      /\ tasks[t] \in TaskType
      /\ tasks[t].req \in Requests
      /\ tasks[t].verdict \in Status
  BY DEF ReadOutcomes, Outcomes, TaskPC, Status, TaskType
<1>1. CASE Generate(t)
  <2>1. PICK v \in {"success", "errored"} :
          tasks' = [tasks EXCEPT ![t].pc = "storing", ![t].verdict = v]
    BY <1>1 DEF Generate
  <2>2. tasks' \in [Tasks -> TaskType]
    BY <1>0, <2>1 DEF TaskType
  <2> QED
    BY <1>1, <2>2 DEF Generate, DecidedViews, redisVars, RedisTypeOK
<1>2. ASSUME NEW o \in Outcomes, Store(t, o) PROVE TypeOK'
  <2>1. RedisTypeOK'
    BY <1>0, <1>2, SetProofStateType DEF Store
  <2>2. tasks' \in [Tasks -> TaskType]
    BY <1>0, <1>2, IdleTypes DEF Store, TaskType
  <2> QED
    BY <1>2, <2>1, <2>2 DEF Store, DecidedViews
<1>3. ASSUME NEW o \in Outcomes, Extend(t, o) PROVE TypeOK'
  <2>1. RedisTypeOK'
    BY <1>0, <1>3, GenLockType DEF Extend
  <2>2. CASE StopExtending(t) \/ UNCHANGED tasks
    BY <1>3, <2>1, <2>2, StopExtendingType DEF Extend, DecidedViews
  <2>3. CASE tasks' = [tasks EXCEPT ![t].ext = "releasing"]
    <3>1. tasks' \in [Tasks -> TaskType]
      BY <1>0, <2>3 DEF TaskType
    <3> QED
      BY <1>3, <2>1, <3>1 DEF Extend, DecidedViews
  <2> QED
    BY <1>3, <2>2, <2>3 DEF Extend
<1>4. ASSUME NEW o \in ReadOutcomes, ReleaseGenLock(t, o) PROVE TypeOK'
  <2>1. RedisTypeOK'
    BY <1>0, <1>4, GenLockType DEF ReleaseGenLock
  <2> QED
    BY <1>4, <2>1, StopExtendingType DEF ReleaseGenLock, DecidedViews
<1> QED
  BY <1>1, <1>2, <1>3, <1>4 DEF TaskStep

LEMMA EnvironmentType ==
    ASSUME TypeOK, Environment
    PROVE  TypeOK'
<1> USE DEF TypeOK
<1>1. CASE Finalize
  BY <1>1 DEF Finalize, DecidedViews, redisVars, RedisTypeOK
<1>2. CASE ExpireGlobalLock
  <2>1. faults' \in [FaultKinds -> Nat]
    BY <1>2, ChargeType DEF ExpireGlobalLock, RedisTypeOK, FaultKinds
  <2>2. globalLock' \in BOOLEAN
    BY <1>2, Zenon DEF ExpireGlobalLock, global_lock_expires
  <2> QED
    BY <1>2, <2>1, <2>2
       DEF ExpireGlobalLock, global_lock_expires, RedisTypeOK, DecidedViews
<1>3. ASSUME NEW w \in Workers, Start(w) PROVE TypeOK'
  <2>1. loops' \in [Workers -> LoopType]
    BY <1>3 DEF Start, LoopType, LoopPC
  <2> QED
    BY <1>3, <2>1 DEF Start, DecidedViews, redisVars, RedisTypeOK
<1>4. ASSUME NEW w \in Workers, Crash(w) PROVE TypeOK'
  <2>1. faults' \in [FaultKinds -> Nat]
    BY <1>4, ChargeType DEF Crash, RedisTypeOK, FaultKinds
  <2> QED
    BY <1>4, <2>1, ExitType DEF Crash, RedisTypeOK
<1>5. ASSUME NEW h \in Handlers, Disconnect(h) PROVE TypeOK'
  <2>1. faults' \in [FaultKinds -> Nat]
    BY <1>5, ChargeType DEF Disconnect, RedisTypeOK, FaultKinds
  <2>2. handlers' \in [Handlers -> HandlerType] /\ DecidedViews'
    BY <1>5, IdleTypes DEF Disconnect, DecidedViews, IdleHandler
  <2> QED
    BY <1>5, <2>1, <2>2 DEF Disconnect, RedisTypeOK
<1>6. ASSUME NEW r \in Requests, ExpireGenLock(r) PROVE TypeOK'
  <2>1. faults' \in [FaultKinds -> Nat]
    BY <1>6, ChargeType DEF ExpireGenLock, RedisTypeOK, FaultKinds
  <2>2. genLock' \in [Requests -> GenLock]
    BY <1>6 DEF ExpireGenLock, proof_generation_lock_expires, RedisTypeOK, GenLock
  <2> QED
    BY <1>6, <2>1, <2>2
       DEF ExpireGenLock, proof_generation_lock_expires, RedisTypeOK, DecidedViews
<1>7. ASSUME NEW r \in Requests, ExpireProofState(r) PROVE TypeOK'
  <2>1. faults' \in [FaultKinds -> Nat]
    BY <1>7, ChargeType
       DEF ExpireProofState, proof_state_expires, RedisTypeOK, FaultKinds
  <2>2. proofState' \in [Requests -> Status]
    BY <1>7 DEF ExpireProofState, proof_state_expires, RedisTypeOK, Status
  <2> QED
    BY <1>7, <2>1, <2>2
       DEF ExpireProofState, proof_state_expires, RedisTypeOK, DecidedViews
<1> QED
  BY <1>1, <1>2, <1>3, <1>4, <1>5, <1>6, <1>7 DEF Environment

LEMMA InitType == Init => TypeOK
<1> SUFFICES ASSUME Init PROVE TypeOK
  OBVIOUS
<1>1. RedisTypeOK
  BY DEF Init, RedisInit, RedisTypeOK, NoHeader, Status, GenLock
<1> QED
  BY <1>1, IdleTypes, SlotsAssumption
     DEF Init, TypeOK, DecidedViews, IdleHandler

LEMMA StutterType ==
    ASSUME TypeOK, UNCHANGED vars
    PROVE  TypeOK'
BY DEF TypeOK, RedisTypeOK, DecidedViews, vars, redisVars

(* Every variable keeps its type through every command outcome, crash and  *)
(* expiry, and a handler about to write has decided one of the two         *)
(* statuses initialize_request_locked writes.                              *)
THEOREM TypeCorrect == Spec => []TypeOK
<1>1. TypeOK /\ [Next]_vars => TypeOK'
  <2> SUFFICES ASSUME TypeOK, Next \/ UNCHANGED vars PROVE TypeOK'
    OBVIOUS
  <2>1. ASSUME NEW w \in Workers, LoopStep(w) PROVE TypeOK'
    BY <2>1, LoopReadType, LoopWriteType DEF LoopStep
  <2> QED
    BY <2>1, EnvironmentType, HandlerStepType, RequestProofType,
       TaskStepType, StutterType DEF Next
<1> QED
  BY <1>1, InitType, PTL DEF Spec

-----------------------------------------------------------------------------
(* What a client is told exists                                            *)

LEMMA ChargeTTL ==
    ASSUME TypeOK, NEW k \in FaultKinds, Charge(k)
    PROVE  /\ k # "ttl" => faults'["ttl"] = faults["ttl"]
           /\ faults'["ttl"] = 0 => k # "ttl"
BY DEF TypeOK, RedisTypeOK, Charge, FaultKinds

LEMMA PriceTTL ==
    ASSUME TypeOK, NEW o, Price(o)
    PROVE  faults'["ttl"] = faults["ttl"]
BY ChargeTTL DEF Price, FaultKinds

(* What every step keeps as long as no proof state expires.                *)
StatesKept ==
    faults'["ttl"] = 0 =>
        /\ faults["ttl"] = 0
        /\ \A r \in Requests : proofState[r] # "absent" => proofState'[r] # "absent"

LEMMA PriceKeepsStates ==
    ASSUME TypeOK, NEW o, Price(o), UNCHANGED proofState
    PROVE  StatesKept
BY PriceTTL DEF StatesKept

LEMMA SetKeepsStates ==
    ASSUME TypeOK, NEW r, NEW status, NEW o, set_proof_state(r, status, o),
           status # "absent"
    PROVE  StatesKept
<1>1. proofState \in [Requests -> Status] /\ faults'["ttl"] = faults["ttl"]
  BY PriceTTL DEF TypeOK, RedisTypeOK, set_proof_state
<1> QED
  BY <1>1 DEF set_proof_state, StatesKept

LEMMA HandlerKeepsStates ==
    ASSUME TypeOK, NEW h \in Handlers,
           HandlerStep(h) \/ \E r \in Requests, o \in Outcomes : RequestProof(h, r, o)
    PROVE  StatesKept
<1>1. ASSUME NEW o, WriteState(h, o) PROVE StatesKept
  <2>1. handlers[h].view # "absent"
    BY <1>1 DEF WriteState, TypeOK, DecidedViews
  <2> QED
    BY <1>1, <2>1, SetKeepsStates DEF WriteState
<1>2. ASSUME NEW o, \/ ReadState(h, o) \/ ReadHeader(h, o) \/ StartGeneration(h, o)
                    \/ Respond(h, o) \/ \E r \in Requests : RequestProof(h, r, o)
      PROVE  Price(o) /\ UNCHANGED proofState
  BY <1>2 DEF ReadState, ReadHeader, Decide, StartGeneration, Respond, RequestProof,
     ReadOnly, AcquireAndSpawn, acquire_proof_generation_lock, release_global_lock,
     acquire_global_lock
<1> QED
  BY <1>1, <1>2, PriceKeepsStates DEF HandlerStep

LEMMA LoopKeepsStates ==
    ASSUME TypeOK, NEW w \in Workers, LoopStep(w)
    PROVE  StatesKept
<1>1. ASSUME NEW o, Commit(w, o) PROVE StatesKept
  <2>1. faults'["ttl"] = faults["ttl"]
    BY <1>1, PriceTTL DEF Commit, update_finalized_header_and_proof_states
  <2> QED
    BY <1>1, <2>1 DEF Commit, update_finalized_header_and_proof_states, StatesKept
<1>2. CASE UNCHANGED redisVars
  BY <1>2 DEF redisVars, StatesKept
<1>3. ASSUME NEW o, Price(o), UNCHANGED proofState PROVE StatesKept
  BY <1>3, PriceKeepsStates
<1> QED
  BY <1>1, <1>2, <1>3 DEF LoopStep, Sync, NothingToPickUp, AdvanceTo,
     AcquireForUpdate, SpawnReleased, PickUp, Boot, ReadStoredHeader,
     ReleaseAfterUpdate, CheckHeaderHealth, ScanWaiting, ScanGenerating, ReadOnly,
     AcquireAndSpawn, acquire_proof_generation_lock, release_global_lock,
     acquire_global_lock

LEMMA TaskKeepsStates ==
    ASSUME TypeOK, NEW t \in Tasks, TaskStep(t)
    PROVE  StatesKept
<1>1. ASSUME NEW o, Store(t, o) PROVE StatesKept
  <2>1. tasks[t].verdict # "absent"
    BY DEF TypeOK, TaskType
  <2> QED
    BY <1>1, <2>1, SetKeepsStates DEF Store
<1>2. CASE Generate(t)
  BY <1>2 DEF Generate, redisVars, StatesKept
<1>3. ASSUME NEW o, Extend(t, o) \/ ReleaseGenLock(t, o)
      PROVE  Price(o) /\ UNCHANGED proofState
  BY <1>3 DEF Extend, ReleaseGenLock, extend_proof_generation_lock,
     release_proof_generation_lock
<1> QED
  BY <1>1, <1>2, <1>3, PriceKeepsStates DEF TaskStep

LEMMA EnvironmentKeepsStates ==
    ASSUME TypeOK, Environment
    PROVE  StatesKept
<1>1. ASSUME NEW k \in FaultKinds \ {"ttl"}, Charge(k), UNCHANGED proofState
      PROVE  StatesKept
  BY <1>1, ChargeTTL DEF StatesKept
<1>2. ASSUME NEW r \in Requests, ExpireProofState(r) PROVE StatesKept
  BY <1>2, ChargeTTL DEF ExpireProofState, proof_state_expires, FaultKinds, StatesKept
<1>3. CASE UNCHANGED <<faults, proofState>>
  BY <1>3 DEF StatesKept
<1>4. ASSUME NEW w \in Workers, Crash(w) PROVE StatesKept
  BY <1>1, <1>4 DEF Crash, FaultKinds
<1>5. ASSUME NEW h \in Handlers, Disconnect(h) PROVE StatesKept
  BY <1>1, <1>5 DEF Disconnect, FaultKinds
<1>6. ASSUME NEW r \in Requests, ExpireGenLock(r) PROVE StatesKept
  BY <1>1, <1>3, <1>6 DEF ExpireGenLock, proof_generation_lock_expires, FaultKinds
<1>7. CASE ExpireGlobalLock
  BY <1>1, <1>3, <1>7 DEF ExpireGlobalLock, global_lock_expires, FaultKinds
<1> QED
  BY <1>2, <1>3, <1>4, <1>5, <1>6, <1>7 DEF Environment, Finalize, Start, redisVars

-----------------------------------------------------------------------------
(* A handler that keeps its place, or is gone.                             *)
LEMMA OthersAccepted ==
    ASSUME TypeOK, AcceptedInv, StatesKept,
           \A h \in Handlers : handlers'[h] = handlers[h] \/ handlers'[h] = IdleHandler
    PROVE  AcceptedInv'
<1>1. IdleHandler.pc = "idle"
  BY DEF IdleHandler
<1>2. \A h \in Handlers : handlers[h].req \in Requests
  BY DEF TypeOK, HandlerType
<1> QED
  BY <1>1, <1>2 DEF AcceptedInv, StatesKept

(* A handler that moves on to view, while the others keep their place.     *)
LEMMA MoveAccepted ==
    ASSUME TypeOK, AcceptedInv, StatesKept, NEW h \in Handlers, NEW pc, NEW view,
           SetHandler(h, pc, view),
           /\ pc \in {"readHeader", "acquireGen", "release"}
           /\ view \in Status \ {"absent"}
           /\ faults'["ttl"] = 0
           => proofState'[handlers[h].req] # "absent"
    PROVE  AcceptedInv'
<1>1. /\ handlers'[h].pc = pc
      /\ handlers'[h].view = view
      /\ handlers'[h].req = handlers[h].req
      /\ \A g \in Handlers \ {h} : handlers'[g] = handlers[g]
  BY DEF SetHandler, TypeOK, HandlerType
<1>2. \A g \in Handlers : handlers[g].req \in Requests
  BY DEF TypeOK, HandlerType
<1> QED
  BY <1>1, <1>2 DEF AcceptedInv, StatesKept

LEMMA HandlerAccepted ==
    ASSUME TypeOK, AcceptedInv, NEW h \in Handlers, HandlerStep(h)
    PROVE  AcceptedInv'
<1>0. StatesKept /\ handlers[h].req \in Requests
  BY HandlerKeepsStates DEF TypeOK, HandlerType
<1>1. ASSUME NEW o, ReadState(h, o) PROVE AcceptedInv'
  <2>1. UNCHANGED proofState
    BY <1>1 DEF ReadState, ReadOnly
  <2>2. "error" \notin Status /\ "contention" \notin Status
    BY DEF Status
  <2> QED
    BY <1>0, <1>1, <2>1, <2>2, MoveAccepted DEF ReadState
<1>2. ASSUME NEW o, ReadHeader(h, o) PROVE AcceptedInv'
  <2>1. UNCHANGED proofState
    BY <1>2 DEF ReadHeader, Decide, ReadOnly
  <2>2. "error" \notin Status
    BY DEF Status
  <2>3. CASE SetHandler(h, "release", handlers[h].view)
    <3>1. handlers[h].pc = "readHeader"
      BY <1>2 DEF ReadHeader, Decide
    <3> QED
      BY <1>0, <2>1, <2>3, <3>1, MoveAccepted DEF AcceptedInv, StatesKept
  <2> QED
    BY <1>0, <1>2, <2>2, <2>3, MoveAccepted DEF ReadHeader, Decide
<1>3. ASSUME NEW o, WriteState(h, o) PROVE AcceptedInv'
  <2>1. handlers[h].view # "absent"
    BY <1>3 DEF WriteState, TypeOK, DecidedViews
  <2>2. o = "ok" => proofState'[handlers[h].req] # "absent"
    BY <1>0, <1>3, <2>1 DEF WriteState, set_proof_state, Executed, TypeOK, RedisTypeOK
  <2>3. "error" \notin Status
    BY DEF Status
  <2> QED
    BY <1>0, <1>3, <2>2, <2>3, MoveAccepted DEF WriteState
<1>4. ASSUME NEW o, StartGeneration(h, o) PROVE AcceptedInv'
  <2>1. UNCHANGED proofState /\ handlers[h].pc = "acquireGen"
    BY <1>4 DEF StartGeneration, AcquireAndSpawn, acquire_proof_generation_lock
  <2> QED
    BY <1>0, <1>4, <2>1, MoveAccepted DEF StartGeneration, AcceptedInv, StatesKept
<1>5. ASSUME NEW o, Respond(h, o) PROVE AcceptedInv'
  BY <1>0, <1>5, OthersAccepted DEF Respond, TypeOK
<1> QED
  BY <1>1, <1>2, <1>3, <1>4, <1>5 DEF HandlerStep

LEMMA RequestAccepted ==
    ASSUME TypeOK, AcceptedInv, NEW h \in Handlers, NEW r \in Requests, NEW o \in Outcomes,
           RequestProof(h, r, o)
    PROVE  AcceptedInv'
<1>1. StatesKept /\ handlers'[h].pc \notin {"readHeader", "acquireGen", "release"}
  BY HandlerKeepsStates DEF RequestProof, TypeOK, HandlerType
<1>2. \A g \in Handlers \ {h} : handlers'[g] = handlers[g]
  BY DEF RequestProof, TypeOK
<1>3. \A g \in Handlers : handlers[g].req \in Requests
  BY DEF TypeOK, HandlerType
<1> QED
  BY <1>1, <1>2, <1>3 DEF AcceptedInv, StatesKept

LEMMA AcceptedStep == TypeOK /\ AcceptedInv /\ [Next]_vars => AcceptedInv'
<1> SUFFICES ASSUME TypeOK, AcceptedInv, [Next]_vars PROVE AcceptedInv'
  OBVIOUS
<1>1. CASE UNCHANGED vars
  BY <1>1 DEF vars, redisVars, AcceptedInv
<1>2. CASE Environment
  <2>1. \A h \in Handlers : handlers'[h] = handlers[h] \/ handlers'[h] = IdleHandler
    BY <1>2 DEF Environment, Finalize, ExpireGlobalLock, Start, Crash, Exit, Disconnect,
       ExpireGenLock, ExpireProofState, TypeOK
  <2> QED
    BY <1>2, <2>1, EnvironmentKeepsStates, OthersAccepted
<1>3. ASSUME NEW w \in Workers, LoopStep(w) PROVE AcceptedInv'
  <2>1. \A h \in Handlers : handlers'[h] = handlers[h] \/ handlers'[h] = IdleHandler
    BY <1>3 DEF LoopStep, Sync, NothingToPickUp, AdvanceTo, AcquireForUpdate, Commit,
       SpawnReleased, PickUp, Boot, ReadStoredHeader, ReleaseAfterUpdate,
       CheckHeaderHealth, ScanWaiting, ScanGenerating, Exit, TypeOK
  <2> QED
    BY <1>3, <2>1, LoopKeepsStates, OthersAccepted
<1>4. ASSUME NEW t \in Tasks, TaskStep(t) PROVE AcceptedInv'
  <2>1. UNCHANGED handlers
    BY <1>4 DEF TaskStep, Generate, Store, Extend, ReleaseGenLock
  <2> QED
    BY <1>4, <2>1, TaskKeepsStates, OthersAccepted
<1> QED
  BY <1>1, <1>2, <1>3, <1>4, HandlerAccepted, RequestAccepted DEF Next

LEMMA InitAccepted == Init => AcceptedInv
BY DEF Init, IdleHandler, AcceptedInv

(* A client told that its request is accepted will find it, until it       *)
(* expires: whatever failed, crashed or raced on the way.                  *)
THEOREM AcceptedStays == Spec => []AcceptedIsStored
<1>1. AcceptedInv => AcceptedIsStored
  BY DEF AcceptedInv, AcceptedIsStored
<1> QED
  BY <1>1, InitAccepted, AcceptedStep, TypeCorrect, PTL DEF Spec

-----------------------------------------------------------------------------
(* Exclusive generation: no two tasks work on one request.                 *)

LEMMA NoCharge ==
    ASSUME Reliable', TypeOK, LockedInv, NEW k \in {"redis", "stall"}, Charge(k)
    PROVE  FALSE
BY DEF Reliable, LockedInv, Charge, TypeOK, RedisTypeOK, FaultKinds

LEMMA PriceKept ==
    ASSUME Reliable', TypeOK, LockedInv, NEW o, Price(o)
    PROVE  o = "ok" /\ faults' = faults
BY NoCharge DEF Price

LEMMA ChargeKept ==
    ASSUME TypeOK, NEW k \in FaultKinds \ {"redis", "stall"}, Charge(k)
    PROVE  faults'["redis"] = faults["redis"] /\ faults'["stall"] = faults["stall"]
BY DEF TypeOK, RedisTypeOK, Charge

(* What the steps that touch neither tasks nor generation locks preserve,  *)
(* and the end of tasks as well.                                           *)
LEMMA LockedKept ==
    ASSUME LockedInv, UNCHANGED genLock,
           faults'["redis"] = faults["redis"], faults'["stall"] = faults["stall"],
           \A t \in Tasks : tasks'[t] = tasks[t] \/ tasks'[t] = FreeTask
    PROVE  LockedInv'
BY DEF LockedInv, Reliable, FreeTask

LEMMA SpawnLocked ==
    ASSUME Reliable', TypeOK, LockedInv, NEW w \in Workers, NEW r \in Requests,
           NEW o, AcquireAndSpawn(w, r, o)
    PROVE  LockedInv'
<1>1. o = "ok" /\ faults' = faults
  BY PriceKept DEF AcquireAndSpawn, acquire_proof_generation_lock
<1>2. CASE genLock[r] # "free"
  BY <1>1, <1>2, LockedKept DEF AcquireAndSpawn, acquire_proof_generation_lock
<1>3. CASE genLock[r] = "free"
  <2>1. genLock' = [genLock EXCEPT ![r] = "initial"]
    BY <1>1, <1>3 DEF AcquireAndSpawn, acquire_proof_generation_lock, Executed
  <2>2. PICK t \in Tasks : /\ tasks[t].pc = "free"
                           /\ tasks' = [tasks EXCEPT ![t] = NewTask(w, r)]
    BY <1>1, <1>3 DEF AcquireAndSpawn
  <2>3. \A u \in Tasks : tasks[u].pc # "free" => tasks[u].req # r
    BY <1>3 DEF LockedInv
  <2>4. /\ NewTask(w, r).pc = "generating"
        /\ NewTask(w, r).req = r
        /\ NewTask(w, r).ext = "on"
    BY DEF NewTask, FreeTask
  <2>5. \A u \in Tasks : tasks[u].req \in Requests
    BY DEF TypeOK, TaskType
  <2>6. \A u \in Tasks : tasks'[u] = IF u = t THEN NewTask(w, r) ELSE tasks[u]
    BY <2>2 DEF TypeOK
  <2>7. \A q \in Requests : genLock'[q] = IF q = r THEN "initial" ELSE genLock[q]
    BY <2>1 DEF TypeOK, RedisTypeOK
  <2> QED
    BY <1>1, <2>3, <2>4, <2>5, <2>6, <2>7 DEF LockedInv
<1> QED
  BY <1>2, <1>3

LEMMA HandlerStepLocked ==
    ASSUME Reliable', TypeOK, LockedInv, NEW h \in Handlers, HandlerStep(h)
    PROVE  LockedInv'
<1>1. ASSUME NEW o, ReadState(h, o) \/ ReadHeader(h, o) \/ WriteState(h, o)
                      \/ Respond(h, o)
      PROVE  LockedInv'
  <2>1. Price(o) /\ UNCHANGED <<genLock, tasks>>
    BY <1>1 DEF ReadState, ReadHeader, Decide, WriteState, Respond, ReadOnly,
       set_proof_state, release_global_lock
  <2> QED
    BY <2>1, PriceKept, LockedKept
<1>2. ASSUME NEW o, StartGeneration(h, o) PROVE LockedInv'
  <2>1. Host[h] \in Workers /\ handlers[h].req \in Requests
    BY HostAssumption DEF TypeOK, HandlerType
  <2> QED
    BY <1>2, <2>1, SpawnLocked DEF StartGeneration
<1> QED
  BY <1>1, <1>2 DEF HandlerStep

LEMMA LoopStepLocked ==
    ASSUME Reliable', TypeOK, LockedInv, NEW w \in Workers, LoopStep(w)
    PROVE  LockedInv'
<1>1. ASSUME NEW r \in Requests, NEW o, SpawnReleased(w, r, o) \/ PickUp(w, r, o)
      PROVE  LockedInv'
  BY <1>1, SpawnLocked DEF SpawnReleased, PickUp
<1>2. ASSUME NEW s, Sync(w) \/ NothingToPickUp(w) \/ AdvanceTo(w, s)
      PROVE  LockedInv'
  <2>1. UNCHANGED <<genLock, faults, tasks>>
    BY <1>2, Zenon DEF Sync, NothingToPickUp, AdvanceTo, redisVars
  <2> QED
    BY <2>1, LockedKept
<1>3. ASSUME NEW r, NEW o,
             \/ AcquireForUpdate(w, o)
             \/ Commit(w, o)
             \/ ReadStoredHeader(w, o)
             \/ ReleaseAfterUpdate(w, o)
             \/ ScanWaiting(w, r, o)
             \/ ScanGenerating(w, r, o)
      PROVE  LockedInv'
  <2>1. Price(o) /\ UNCHANGED <<genLock, tasks>>
    BY <1>3 DEF AcquireForUpdate, Commit, ReadStoredHeader, ReleaseAfterUpdate,
       ScanWaiting, ScanGenerating, ReadOnly, acquire_global_lock,
       release_global_lock, update_finalized_header_and_proof_states
  <2> QED
    BY <2>1, PriceKept, LockedKept
<1>4. ASSUME NEW o, Boot(w, o) \/ CheckHeaderHealth(w, o) PROVE LockedInv'
  <2>1. Price(o) /\ UNCHANGED genLock
    BY <1>4 DEF Boot, CheckHeaderHealth, ReadOnly
  <2>2. \A t \in Tasks : tasks'[t] = tasks[t] \/ tasks'[t] = FreeTask
    BY <1>4 DEF Boot, CheckHeaderHealth, Exit
  <2> QED
    BY <2>1, <2>2, PriceKept, LockedKept
<1> QED
  BY <1>1, <1>2, <1>3, <1>4 DEF LoopStep

LEMMA TaskStepLocked ==
    ASSUME Reliable', TypeOK, LockedInv, NEW t \in Tasks, TaskStep(t)
    PROVE  LockedInv'
<1> DEFINE q == tasks[t].req
<1>0. tasks[t] \in TaskType /\ q \in Requests
  BY DEF TypeOK, TaskType
<1>1. ASSUME UNCHANGED <<genLock, faults>>,
             tasks[t].pc # "free",
             \A u \in Tasks \ {t} : tasks'[u] = tasks[u],
             tasks'[t].req = q, tasks'[t].ext = tasks[t].ext
      PROVE  LockedInv'
  BY <1>1 DEF LockedInv
<1>2. CASE Generate(t)
  BY <1>0, <1>1, <1>2 DEF Generate, redisVars, TypeOK, TaskType
<1>3. ASSUME NEW o, Store(t, o) PROVE LockedInv'
  <2>1. o = "ok" /\ UNCHANGED <<genLock, faults>>
    BY <1>3, PriceKept DEF Store, set_proof_state
  <2>2. tasks[t].pc # "free" /\ tasks[t].ext = "on"
    BY <1>3 DEF Store, LockedInv
  <2> QED
    BY <1>0, <1>1, <1>3, <2>1, <2>2 DEF Store, TypeOK, TaskType
<1>4. ASSUME NEW o, Extend(t, o) PROVE LockedInv'
  <2>1. o = "ok" /\ faults' = faults
    BY <1>4, PriceKept DEF Extend, extend_proof_generation_lock
  <2>2. tasks[t].pc # "free" /\ genLock[q] # "free"
    BY <1>4 DEF Extend, Extends, LockedInv
  <2>3. UNCHANGED tasks /\ genLock' = [genLock EXCEPT ![q] = "extended"]
    BY <1>4, <2>1, <2>2 DEF Extend, extend_proof_generation_lock, Executed
  <2> QED
    BY <1>0, <2>1, <2>3 DEF LockedInv, TypeOK, RedisTypeOK
<1>5. ASSUME NEW o, ReleaseGenLock(t, o) PROVE LockedInv'
  <2>1. o = "ok" /\ faults' = faults
    BY <1>5, PriceKept DEF ReleaseGenLock, release_proof_generation_lock
  <2>2. tasks[t].pc = "finished"
    BY <1>5 DEF ReleaseGenLock, LockedInv
  <2>3. /\ genLock' = [genLock EXCEPT ![q] = "free"]
        /\ tasks' = [tasks EXCEPT ![t] = FreeTask]
    BY <1>5, <2>1, <2>2 DEF ReleaseGenLock, StopExtending,
       release_proof_generation_lock, Executed
  <2>4. \A u \in Tasks \ {t} : tasks[u].pc # "free" => tasks[u].req # q
    BY <2>2 DEF LockedInv
  <2>5. \A u \in Tasks : tasks'[u] = IF u = t THEN FreeTask ELSE tasks[u]
    BY <2>3 DEF TypeOK
  <2>6. \A r \in Requests : genLock'[r] = IF r = q THEN "free" ELSE genLock[r]
    BY <2>3 DEF TypeOK, RedisTypeOK
  <2>7. FreeTask.pc = "free" /\ \A u \in Tasks : tasks[u].req \in Requests
    BY DEF FreeTask, TypeOK, TaskType
  <2> HIDE DEF q
  <2> QED
    BY <2>1, <2>4, <2>5, <2>6, <2>7 DEF LockedInv
<1> QED
  BY <1>2, <1>3, <1>4, <1>5 DEF TaskStep

LEMMA EnvironmentLocked ==
    ASSUME Reliable', TypeOK, LockedInv, Environment
    PROVE  LockedInv'
<1>1. ASSUME Finalize \/ \E w \in Workers : Start(w) PROVE LockedInv'
  BY <1>1, LockedKept DEF Finalize, Start, redisVars
<1>2. CASE ExpireGlobalLock
  BY <1>2, NoCharge, LockedKept DEF ExpireGlobalLock, global_lock_expires
<1>3. ASSUME NEW w \in Workers, Crash(w) PROVE LockedInv'
  BY <1>3, ChargeKept, LockedKept DEF Crash, Exit, FaultKinds
<1>4. ASSUME NEW h \in Handlers, Disconnect(h) PROVE LockedInv'
  BY <1>4, ChargeKept, LockedKept DEF Disconnect, FaultKinds
<1>5. ASSUME NEW r \in Requests, ExpireProofState(r) PROVE LockedInv'
  BY <1>5, ChargeKept, LockedKept
     DEF ExpireProofState, proof_state_expires, FaultKinds
<1>6. ASSUME NEW r \in Requests, ExpireGenLock(r) PROVE LockedInv'
  <2>1. ~Extended(r) /\ faults' = faults
    BY <1>6, NoCharge DEF ExpireGenLock
  <2>2. \A t \in Tasks : tasks[t].pc # "free" => tasks[t].req # r
    BY <2>1 DEF Extended, Extends, LockedInv
  <2>3. UNCHANGED tasks /\ genLock' = [genLock EXCEPT ![r] = "free"]
    BY <1>6 DEF ExpireGenLock, proof_generation_lock_expires
  <2> QED
    BY <2>1, <2>2, <2>3 DEF LockedInv, TypeOK, RedisTypeOK, TaskType
<1> QED
  BY <1>1, <1>2, <1>3, <1>4, <1>5, <1>6 DEF Environment

(* Faults are only ever counted up.                                        *)
Counting == UNCHANGED faults \/ \E k \in FaultKinds : Charge(k)

LEMMA CommandCounts ==
    ASSUME NEW o, Price(o)
    PROVE  Counting
BY DEF Price, Counting, FaultKinds

LEMMA StepCounts ==
    ASSUME TypeOK, Next
    PROVE  Counting
<1>1. ASSUME NEW w \in Workers, NEW r \in Requests, NEW o, AcquireAndSpawn(w, r, o)
      PROVE  Counting
  BY <1>1, CommandCounts DEF AcquireAndSpawn, acquire_proof_generation_lock
<1>2. ASSUME NEW h \in Handlers, HandlerStep(h) PROVE Counting
  <2>1. Host[h] \in Workers /\ handlers[h].req \in Requests
    BY HostAssumption DEF TypeOK, HandlerType
  <2> QED
    BY <1>1, <1>2, <2>1, CommandCounts DEF HandlerStep, ReadState, ReadHeader,
       Decide, WriteState, StartGeneration, Respond, ReadOnly, set_proof_state,
       release_global_lock
<1>3. ASSUME NEW h \in Handlers, NEW r \in Requests, NEW o, RequestProof(h, r, o)
      PROVE  Counting
  BY <1>3, CommandCounts DEF RequestProof, acquire_global_lock
<1>4. ASSUME NEW w \in Workers, LoopStep(w) PROVE Counting
  <2>1. CASE Sync(w) \/ NothingToPickUp(w) \/ \E s \in Slots : AdvanceTo(w, s)
    BY <2>1, Zenon DEF Sync, NothingToPickUp, AdvanceTo, redisVars, Counting
  <2>2. ASSUME NEW r \in Requests, NEW o, SpawnReleased(w, r, o) \/ PickUp(w, r, o)
        PROVE  Counting
    BY <1>1, <2>2 DEF SpawnReleased, PickUp
  <2>3. ASSUME NEW r \in Requests, NEW o,
               \/ AcquireForUpdate(w, o)
               \/ Commit(w, o)
               \/ Boot(w, o)
               \/ ReadStoredHeader(w, o)
               \/ ReleaseAfterUpdate(w, o)
               \/ CheckHeaderHealth(w, o)
               \/ ScanWaiting(w, r, o)
               \/ ScanGenerating(w, r, o)
        PROVE  Counting
    BY <2>3, CommandCounts DEF AcquireForUpdate, Commit, Boot, ReadStoredHeader,
       ReleaseAfterUpdate, CheckHeaderHealth, ScanWaiting, ScanGenerating, ReadOnly,
       acquire_global_lock, release_global_lock,
       update_finalized_header_and_proof_states
  <2> QED
    BY <1>4, <2>1, <2>2, <2>3, NonEmptyAssumption DEF LoopStep
<1>5. ASSUME NEW t \in Tasks, TaskStep(t) PROVE Counting
  <2>1. CASE Generate(t)
    BY <2>1 DEF Generate, redisVars, Counting
  <2>2. ASSUME NEW o, Store(t, o) \/ Extend(t, o) \/ ReleaseGenLock(t, o)
        PROVE  Counting
    BY <2>2, CommandCounts DEF Store, Extend, ReleaseGenLock, set_proof_state,
       extend_proof_generation_lock, release_proof_generation_lock
  <2> QED
    BY <1>5, <2>1, <2>2 DEF TaskStep
<1>6. CASE Environment
  BY <1>6 DEF Environment, Finalize, ExpireGlobalLock, Start, Crash, Disconnect,
     ExpireGenLock, ExpireProofState, proof_state_expires, redisVars, Counting,
     FaultKinds
<1> QED
  BY <1>2, <1>3, <1>4, <1>5, <1>6 DEF Next

(* A system that is reliable now always was.                               *)
LEMMA ReliableSoFar ==
    ASSUME TypeOK, Next, Reliable'
    PROVE  Reliable
<1>1. CASE UNCHANGED faults
  BY <1>1 DEF Reliable
<1>2. ASSUME NEW k \in FaultKinds, Charge(k) PROVE Reliable
  <2>1. faults \in [FaultKinds -> Nat]
    BY DEF TypeOK, RedisTypeOK
  <2>2. \A j \in FaultKinds : faults'[j] = 0 => faults[j] = 0
    BY <1>2, <2>1 DEF Charge
  <2> QED
    BY <2>2 DEF Reliable, FaultKinds
<1> QED
  BY <1>1, <1>2, StepCounts DEF Counting

(* For as long as commands are answered and locks do not lapse, a request  *)
(* never has two tasks working on it: the lock that is set before a task   *)
(* is spawned stays until that task, or its process, has ended.            *)
THEOREM GenerationExclusive == Spec => []ExclusiveGeneration
<1>1. Init => LockedInv
  BY DEF Init, RedisInit, LockedInv, Reliable, FreeTask, FaultKinds
<1>2. TypeOK /\ (Reliable => LockedInv) /\ [Next]_vars => (Reliable => LockedInv)'
  <2> SUFFICES ASSUME TypeOK, Reliable => LockedInv, Next \/ UNCHANGED vars, Reliable'
               PROVE  LockedInv'
    OBVIOUS
  <2>1. Reliable
    BY ReliableSoFar DEF Reliable, vars, redisVars
  <2>2. LockedInv
    BY <2>1
  <2>3. ASSUME NEW h \in Handlers, NEW r \in Requests, NEW o, RequestProof(h, r, o)
        PROVE  LockedInv'
    BY <2>2, <2>3, PriceKept, LockedKept DEF RequestProof, acquire_global_lock
  <2>4. CASE UNCHANGED vars
    BY <2>2, <2>4, LockedKept DEF vars, redisVars
  <2> QED
    BY <2>2, <2>3, <2>4, EnvironmentLocked, HandlerStepLocked, LoopStepLocked,
       TaskStepLocked DEF Next
<1>3. (Reliable => LockedInv) => ExclusiveGeneration
  BY DEF LockedInv, ExclusiveGeneration, Working
<1> QED
  BY <1>1, <1>2, <1>3, TypeCorrect, PTL DEF Spec
=============================================================================
