--------------------------- MODULE FinalityProofs ---------------------------
(***************************************************************************)
(* The finality gate of ProofService, for any number of workers, handlers, *)
(* tasks and requests and any number of faults of every kind.              *)
(***************************************************************************)
EXTENDS ProofServiceProofs

-----------------------------------------------------------------------------
(* A finalized header that covers a request is followed only by headers    *)
(* that cover it.                                                          *)
LEMMA CoveredMonotone ==
    ASSUME NEW r \in Requests, NEW s \in Slots, NEW t \in Slots, s <= t,
           Covered(r, s)
    PROVE  Covered(r, t)
BY BlockAssumption, RequestAssumption DEF Covered, Slots

LEMMA SetHandlerGated ==
    ASSUME TypeOK, HandlersGated, UNCHANGED finalizedHead,
           NEW h \in Handlers, NEW pc, NEW view, SetHandler(h, pc, view),
           (pc = "write" /\ view = "generating") \/ pc = "acquireGen"
             => Covered(handlers[h].req, finalizedHead)
    PROVE  HandlersGated'
BY DEF TypeOK, HandlerType, HandlersGated, SetHandler, Covered

LEMMA SpawnGated ==
    ASSUME TypeOK, TasksGated, UNCHANGED finalizedHead,
           NEW w \in Workers, NEW r \in Requests, NEW o,
           AcquireAndSpawn(w, r, o), Covered(r, finalizedHead)
    PROVE  TasksGated' /\ UNCHANGED <<finalizedHeader, proofState>>
<1>1. UNCHANGED <<finalizedHeader, proofState>>
  BY DEF AcquireAndSpawn, acquire_proof_generation_lock
<1>2. NewTask(w, r).req = r
  BY DEF NewTask, FreeTask
<1>3. CASE UNCHANGED tasks
  BY <1>1, <1>3 DEF TasksGated, Covered
<1>4. ASSUME NEW t \in Tasks, tasks' = [tasks EXCEPT ![t] = NewTask(w, r)]
      PROVE  TasksGated'
  BY <1>2, <1>4 DEF TypeOK, TasksGated, Covered
<1> QED
  BY <1>1, <1>3, <1>4 DEF AcquireAndSpawn

LEMMA ExitGated ==
    ASSUME TypeOK, GateInv, NEW w \in Workers, Exit(w),
           UNCHANGED <<finalizedHead, finalizedHeader, proofState>>
    PROVE  GateInv'
<1>1. HeadersFinalized'
  BY DEF TypeOK, GateInv, HeadersFinalized, Exit, DownLoop
<1>2. HandlersGated'
  BY DEF GateInv, HandlersGated, Exit, IdleHandler, Covered
<1>3. LoopsGated'
  BY DEF TypeOK, GateInv, LoopsGated, Exit, DownLoop, Covered
<1>4. TasksGated'
  BY DEF GateInv, TasksGated, Exit, FreeTask, Covered
<1>5. GeneratingOnlyFinalized'
  BY DEF GateInv, GeneratingOnlyFinalized, Covered
<1> QED
  BY <1>1, <1>2, <1>3, <1>4, <1>5 DEF GateInv

-----------------------------------------------------------------------------
(* A handler decides from the header in Redis, which the chain has         *)
(* finalized and which covers the request for good.                        *)
LEMMA HandlerStepGated ==
    ASSUME TypeOK, GateInv, NEW h \in Handlers, HandlerStep(h)
    PROVE  GateInv'
<1> USE DEF GateInv
<1>0. /\ handlers[h].req \in Requests
      /\ Host[h] \in Workers
      /\ finalizedHead \in Slots
      /\ finalizedHeader # NoHeader => finalizedHeader \in Slots
  BY HostAssumption DEF TypeOK, RedisTypeOK, HandlerType
<1>1. UNCHANGED <<finalizedHead, finalizedHeader, loops>>
  BY DEF HandlerStep, ReadState, ReadHeader, Decide, WriteState, StartGeneration,
     Respond, ReadOnly, set_proof_state, AcquireAndSpawn,
     acquire_proof_generation_lock, release_global_lock
<1>2. HeadersFinalized' /\ LoopsGated'
  BY <1>1 DEF HeadersFinalized, LoopsGated, Covered
<1>3. ASSUME NEW o, ReadState(h, o) PROVE GateInv'
  <2>1. HandlersGated'
    BY <1>1, <1>3, SetHandlerGated DEF ReadState
  <2> QED
    BY <1>1, <1>2, <1>3, <2>1
       DEF ReadState, ReadOnly, TasksGated, GeneratingOnlyFinalized, Covered
<1>4. ASSUME NEW o, ReadHeader(h, o) PROVE GateInv'
  <2>1. finalizedHeader # NoHeader /\ Covered(handlers[h].req, finalizedHeader)
          => Covered(handlers[h].req, finalizedHead)
    BY <1>0, CoveredMonotone DEF HeadersFinalized
  <2>2. HandlersGated'
    BY <1>1, <1>4, <2>1, SetHandlerGated DEF ReadHeader, Decide
  <2> QED
    BY <1>1, <1>2, <1>4, <2>2
       DEF ReadHeader, Decide, ReadOnly, TasksGated, GeneratingOnlyFinalized, Covered
<1>5. ASSUME NEW o, WriteState(h, o) PROVE GateInv'
  <2>1. handlers[h].view = "generating" => Covered(handlers[h].req, finalizedHead)
    BY <1>5 DEF WriteState, HandlersGated
  <2>2. HandlersGated'
    BY <1>1, <1>5, <2>1, SetHandlerGated DEF WriteState
  <2>3. handlers[h].view \in {"waiting", "generating"}
    BY <1>5 DEF WriteState, TypeOK, DecidedViews
  <2>4. GeneratingOnlyFinalized'
    BY <1>0, <1>1, <1>5, <2>1, <2>3
       DEF WriteState, set_proof_state, GeneratingOnlyFinalized, Covered, TypeOK, RedisTypeOK
  <2> QED
    BY <1>1, <1>2, <1>5, <2>2, <2>4 DEF WriteState, TasksGated, Covered
<1>6. ASSUME NEW o, StartGeneration(h, o) PROVE GateInv'
  <2>1. Covered(handlers[h].req, finalizedHead)
    BY <1>6 DEF StartGeneration, HandlersGated
  <2>2. HandlersGated'
    BY <1>1, <1>6, <2>1, SetHandlerGated DEF StartGeneration
  <2>3. TasksGated' /\ UNCHANGED proofState
    BY <1>0, <1>1, <1>6, <2>1, SpawnGated DEF StartGeneration
  <2> QED
    BY <1>1, <1>2, <2>2, <2>3 DEF GeneratingOnlyFinalized, Covered
<1>7. ASSUME NEW o, Respond(h, o) PROVE GateInv'
  <2>1. HandlersGated'
    BY <1>1, <1>7 DEF Respond, HandlersGated, IdleHandler, Covered, TypeOK
  <2> QED
    BY <1>1, <1>2, <1>7, <2>1 DEF Respond, release_global_lock, TasksGated,
       GeneratingOnlyFinalized, Covered
<1> QED
  BY <1>3, <1>4, <1>5, <1>6, <1>7 DEF HandlerStep

LEMMA RequestProofGated ==
    ASSUME TypeOK, GateInv, NEW h \in Handlers, NEW r \in Requests, NEW o,
           RequestProof(h, r, o)
    PROVE  GateInv'
<1> USE DEF GateInv
<1>1. UNCHANGED <<finalizedHead, finalizedHeader, proofState, loops, tasks>>
  BY DEF RequestProof, acquire_global_lock
<1>2. HandlersGated'
  BY <1>1 DEF RequestProof, HandlersGated, Covered, TypeOK
<1> QED
  BY <1>1, <1>2 DEF HeadersFinalized, LoopsGated, TasksGated,
     GeneratingOnlyFinalized, Covered

-----------------------------------------------------------------------------
(* The light client's header, and with it the one a loop commits, is       *)
(* finalized; the commit releases only what it covers.                     *)

LEMMA EndUpdateGated ==
    ASSUME TypeOK, LoopsGated, UNCHANGED finalizedHead, NEW w \in Workers,
           NEW result, EndUpdate(w, result)
    PROVE  LoopsGated' /\ \A v \in Workers : loops'[v].lc = loops[v].lc
BY DEF TypeOK, LoopType, LoopsGated, EndUpdate, Covered

LEMMA BeginScanGated ==
    ASSUME TypeOK, LoopsGated, UNCHANGED finalizedHead, NEW w \in Workers,
           NEW pc, pc # "spawn", BeginScan(w, pc)
    PROVE  LoopsGated' /\ \A v \in Workers : loops'[v].lc = loops[v].lc
BY DEF TypeOK, LoopType, LoopsGated, BeginScan, Covered

LEMMA HeadersKept ==
    ASSUME HeadersFinalized, UNCHANGED <<finalizedHead, finalizedHeader>>,
           \A v \in Workers : loops'[v].lc = loops[v].lc
    PROVE  HeadersFinalized'
BY DEF HeadersFinalized

LEMMA LoopReadGated ==
    ASSUME TypeOK, GateInv, NEW w \in Workers, NEW o \in ReadOutcomes,
           \/ Boot(w, o)
           \/ ReadStoredHeader(w, o)
           \/ ReleaseAfterUpdate(w, o)
           \/ CheckHeaderHealth(w, o)
           \/ \E r \in Requests : ScanWaiting(w, r, o) \/ ScanGenerating(w, r, o)
    PROVE  GateInv'
<1> USE DEF GateInv
<1>0. /\ loops[w] \in LoopType
      /\ finalizedHead \in Slots
  BY DEF TypeOK
<1>1. UNCHANGED <<finalizedHead, finalizedHeader, proofState>>
  BY DEF Boot, ReadStoredHeader, ReleaseAfterUpdate, CheckHeaderHealth,
     ScanWaiting, ScanGenerating, ReadOnly, release_global_lock
<1>2. GeneratingOnlyFinalized'
  BY <1>1 DEF GeneratingOnlyFinalized, Covered
<1>3. ASSUME UNCHANGED <<handlers, tasks>> PROVE HandlersGated' /\ TasksGated'
  BY <1>1, <1>3 DEF HandlersGated, TasksGated, Covered
<1>4. CASE Boot(w, o)
  <2>1. CASE o = "ok"
    <3>1. HeadersFinalized'
      BY <1>0, <1>1, <1>4, <2>1 DEF Boot, Checkpoint, HeadersFinalized, TypeOK, LoopType
    <3>2. LoopsGated'
      BY <1>0, <1>1, <1>4, <2>1 DEF Boot, LoopsGated, Covered, TypeOK, LoopType
    <3> QED
      BY <1>2, <1>3, <1>4, <2>1, <3>1, <3>2 DEF Boot
  <2>2. CASE o # "ok"
    BY <1>1, <1>4, <2>2, ExitGated DEF Boot
  <2> QED
    BY <2>1, <2>2
<1>5. CASE ReadStoredHeader(w, o)
  <2>1. LoopsGated' /\ \A v \in Workers : loops'[v].lc = loops[v].lc
    BY <1>1, <1>5, EndUpdateGated, BeginScanGated DEF ReadStoredHeader
  <2> QED
    BY <1>1, <1>2, <1>3, <1>5, <2>1, HeadersKept DEF ReadStoredHeader
<1>6. CASE ReleaseAfterUpdate(w, o)
  <2> DEFINE advance == loops[w].advance /\ loops[w].result # "processed"
  <2>1. loops' = [loops EXCEPT
                   ![w].pc = "scanGenerating", ![w].todo = Requests,
                   ![w].result = "none", ![w].advance = advance]
    BY <1>6 DEF ReleaseAfterUpdate
  <2>2. loops[w].pc = "release"
    BY <1>6 DEF ReleaseAfterUpdate
  <2> HIDE DEF advance
  <2>3. LoopsGated' /\ \A v \in Workers : loops'[v].lc = loops[v].lc
    BY <1>0, <1>1, <2>1, <2>2 DEF LoopsGated, Covered, TypeOK, LoopType
  <2> QED
    BY <1>1, <1>2, <1>3, <1>6, <2>3, HeadersKept DEF ReleaseAfterUpdate
<1>7. CASE CheckHeaderHealth(w, o)
  <2>1. CASE Exit(w)
    BY <1>1, <2>1, ExitGated
  <2>2. CASE loops' = [loops EXCEPT ![w].pc = "sleep"] /\ UNCHANGED <<handlers, tasks>>
    <3>1. LoopsGated' /\ \A v \in Workers : loops'[v].lc = loops[v].lc
      BY <1>0, <1>1, <1>7, <2>2
         DEF CheckHeaderHealth, LoopsGated, Covered, TypeOK, LoopType
    <3> QED
      BY <1>1, <1>2, <1>3, <2>2, <3>1, HeadersKept
  <2> QED
    BY <1>7, <2>1, <2>2 DEF CheckHeaderHealth
<1>8. ASSUME NEW r \in Requests, ScanWaiting(w, r, o) PROVE GateInv'
  <2>1. CASE o = "ok"
    <3>1. LoopsGated' /\ \A v \in Workers : loops'[v].lc = loops[v].lc
      <4> DEFINE found == IF proofState[r] = "waiting"
                            THEN loops[w].found \cup {r} ELSE loops[w].found
                 todo  == loops[w].todo \ {r}
                 pc    == IF todo = {} THEN "commit" ELSE loops[w].pc
      <4>1. pc \in {"commit", "scanWaiting"}
        BY <1>8 DEF ScanWaiting
      <4>2. loops' = [loops EXCEPT ![w].todo = todo, ![w].found = found,
                                   ![w].pc = pc]
        BY <1>8, <2>1 DEF ScanWaiting, ScanNext
      <4> HIDE DEF found, todo, pc
      <4> QED
        BY <1>0, <1>1, <4>1, <4>2 DEF LoopsGated, Covered, TypeOK, LoopType
    <3> QED
      BY <1>1, <1>2, <1>3, <1>8, <3>1, HeadersKept DEF ScanWaiting
  <2>2. CASE o # "ok"
    BY <1>1, <1>2, <1>3, <1>8, <2>2, EndUpdateGated, HeadersKept DEF ScanWaiting
  <2> QED
    BY <2>1, <2>2
<1>9. ASSUME NEW r \in Requests, ScanGenerating(w, r, o) PROVE GateInv'
  <2>1. LoopsGated' /\ \A v \in Workers : loops'[v].lc = loops[v].lc
    <3>1. CASE o = "ok"
      <4>1. proofState[r] = "generating" => Covered(r, finalizedHead)
        BY DEF GeneratingOnlyFinalized
      <4>2. \A q \in loops[w].found : Covered(q, finalizedHead)
        BY <1>9 DEF ScanGenerating, LoopsGated
      <4> DEFINE found == IF proofState[r] = "generating"
                            THEN loops[w].found \cup {r} ELSE loops[w].found
                 todo  == loops[w].todo \ {r}
                 pc    == IF todo = {} THEN "pickUp" ELSE loops[w].pc
      <4>3. /\ \A q \in found : Covered(q, finalizedHead)
            /\ pc \in {"pickUp", "scanGenerating"}
        BY <1>9, <4>1, <4>2 DEF ScanGenerating
      <4>4. loops' = [loops EXCEPT ![w].todo = todo, ![w].found = found,
                                   ![w].pc = pc]
        BY <1>9, <3>1 DEF ScanGenerating, ScanNext
      <4> HIDE DEF found, todo, pc
      <4> QED
        BY <1>0, <1>1, <4>3, <4>4 DEF LoopsGated, Covered, TypeOK, LoopType
    <3>2. CASE o # "ok"
      BY <1>0, <1>1, <1>9, <3>2
         DEF ScanGenerating, LoopsGated, Covered, TypeOK, LoopType
    <3> QED
      BY <3>1, <3>2
  <2> QED
    BY <1>1, <1>2, <1>3, <1>9, <2>1, HeadersKept DEF ScanGenerating
<1> QED
  BY <1>4, <1>5, <1>6, <1>7, <1>8, <1>9

LEMMA LoopWriteGated ==
    ASSUME TypeOK, GateInv, NEW w \in Workers,
           \/ Sync(w)
           \/ NothingToPickUp(w)
           \/ \E s \in Slots : AdvanceTo(w, s)
           \/ \E o \in Outcomes :
                \/ AcquireForUpdate(w, o)
                \/ Commit(w, o)
                \/ \E r \in Requests : SpawnReleased(w, r, o) \/ PickUp(w, r, o)
    PROVE  GateInv'
<1> USE DEF GateInv
<1>0. /\ loops[w] \in LoopType
      /\ loops[w].lc \in Slots
      /\ loops[w].lc <= finalizedHead
      /\ loops[w].found \subseteq Requests
      /\ finalizedHead \in Slots
  BY DEF TypeOK, LoopType, HeadersFinalized
<1>1. UNCHANGED <<finalizedHead, handlers>>
  BY DEF Sync, NothingToPickUp, AdvanceTo, AcquireForUpdate, Commit,
     SpawnReleased, PickUp
<1>2. HandlersGated'
  BY <1>1 DEF HandlersGated, Covered
<1>3. ASSUME UNCHANGED <<finalizedHeader, proofState, tasks>>
      PROVE  TasksGated' /\ GeneratingOnlyFinalized'
  BY <1>1, <1>3 DEF TasksGated, GeneratingOnlyFinalized, Covered
<1>4. CASE Sync(w)
  <2>1. PICK s \in loops[w].lc .. finalizedHead :
          loops' = [loops EXCEPT ![w].pc = "update", ![w].lc = s, ![w].advance = TRUE]
    BY <1>4 DEF Sync
  <2>2. UNCHANGED <<finalizedHeader, proofState, tasks>> /\ loops[w].pc = "sync"
    BY <1>4 DEF Sync, redisVars
  <2>3. s <= finalizedHead
    BY <1>0, <2>1 DEF Slots
  <2>4. HeadersFinalized'
    BY <1>1, <2>1, <2>2, <2>3 DEF HeadersFinalized, TypeOK, LoopType
  <2>5. LoopsGated'
    BY <1>1, <2>1, <2>2 DEF LoopsGated, Covered, TypeOK, LoopType
  <2> QED
    BY <1>2, <1>3, <2>2, <2>4, <2>5
<1>5. CASE NothingToPickUp(w)
  <2>1. LoopsGated' /\ \A v \in Workers : loops'[v].lc = loops[v].lc
    BY <1>0, <1>1, <1>5 DEF NothingToPickUp, LoopsGated, Covered, TypeOK, LoopType
  <2> QED
    BY <1>1, <1>2, <1>3, <1>5, <2>1, HeadersKept DEF NothingToPickUp, redisVars
<1>6. ASSUME NEW s \in Slots, AdvanceTo(w, s) PROVE GateInv'
  <2> DEFINE advance == loops[w].advance \/ s > loops[w].lc
             pc      == IF advance THEN "update" ELSE "scanGenerating"
             todo    == IF advance THEN {} ELSE Requests
  <2>1. loops' = [loops EXCEPT ![w].lc = s, ![w].advance = advance,
                               ![w].pc = pc, ![w].todo = todo]
    BY <1>6, Zenon DEF AdvanceTo
  <2>2. pc \in {"update", "scanGenerating"}
    BY Zenon
  <2> HIDE DEF advance, pc, todo
  <2>3. /\ UNCHANGED <<finalizedHeader, proofState, tasks>>
        /\ loops[w].pc = "sleep"
        /\ s \in loops[w].lc .. finalizedHead
    BY <1>6, Zenon DEF AdvanceTo, redisVars
  <2>6. s <= finalizedHead
    BY <1>0, <2>3 DEF Slots
  <2>4. HeadersFinalized'
    BY <1>1, <2>1, <2>3, <2>6 DEF HeadersFinalized, TypeOK, LoopType
  <2>5. LoopsGated'
    BY <1>1, <2>1, <2>2, <2>3 DEF LoopsGated, Covered, TypeOK, LoopType
  <2> QED
    BY <1>2, <1>3, <2>3, <2>4, <2>5
<1>7. ASSUME NEW o, AcquireForUpdate(w, o) PROVE GateInv'
  <2>1. UNCHANGED <<finalizedHeader, proofState, tasks>>
    BY <1>7 DEF AcquireForUpdate, acquire_global_lock
  <2>2. LoopsGated' /\ \A v \in Workers : loops'[v].lc = loops[v].lc
    <3>1. CASE loops' = [loops EXCEPT ![w].pc = "readHeader"]
      BY <1>0, <1>1, <1>7, <3>1
         DEF AcquireForUpdate, LoopsGated, Covered, TypeOK, LoopType
    <3>2. CASE EndUpdate(w, "refused") \/ BeginScan(w, "scanGenerating")
      BY <1>1, <3>2, EndUpdateGated, BeginScanGated
    <3> QED
      BY <1>7, <3>1, <3>2 DEF AcquireForUpdate
  <2> QED
    BY <1>1, <1>2, <1>3, <2>1, <2>2, HeadersKept
<1>8. ASSUME NEW o, Commit(w, o) PROVE GateInv'
  <2>1. \A r \in Ready(w) : r \in Requests /\ Covered(r, finalizedHead)
    BY <1>0, CoveredMonotone DEF Ready
  <2>2. UNCHANGED tasks
    BY <1>8 DEF Commit
  <2>3. finalizedHeader' <= finalizedHead
    BY <1>0, <1>8 DEF Commit, update_finalized_header_and_proof_states,
       HeadersFinalized
  <2>4. GeneratingOnlyFinalized'
    BY <1>1, <1>8, <2>1 DEF Commit, update_finalized_header_and_proof_states,
       GeneratingOnlyFinalized, Covered
  <2>5. LoopsGated' /\ \A v \in Workers : loops'[v].lc = loops[v].lc
    <3>1. CASE EndUpdate(w, "failed") \/ EndUpdate(w, "processed")
      BY <1>1, <3>1, EndUpdateGated
    <3>2. CASE loops' = [loops EXCEPT ![w].pc = "spawn", ![w].todo = Ready(w),
                                      ![w].found = {}]
      BY <1>0, <1>1, <2>1, <3>2 DEF LoopsGated, Covered, TypeOK, LoopType
    <3> QED
      BY <1>8, <3>1, <3>2 DEF Commit
  <2> QED
    BY <1>1, <1>2, <2>2, <2>3, <2>4, <2>5 DEF HeadersFinalized, TasksGated, Covered
<1>9. ASSUME NEW o, NEW r \in Requests, SpawnReleased(w, r, o) PROVE GateInv'
  <2>1. Covered(r, finalizedHead)
    BY <1>9 DEF SpawnReleased, LoopsGated
  <2>2. TasksGated' /\ UNCHANGED <<finalizedHeader, proofState>>
    BY <1>1, <1>9, <2>1, SpawnGated DEF SpawnReleased
  <2>3. LoopsGated' /\ \A v \in Workers : loops'[v].lc = loops[v].lc
    <3>1. CASE EndUpdate(w, "processed")
      BY <1>1, <3>1, EndUpdateGated
    <3>2. CASE loops' = [loops EXCEPT ![w].todo = @ \ {r}]
      BY <1>0, <1>1, <1>9, <3>2 DEF LoopsGated, Covered, TypeOK, LoopType
    <3> QED
      BY <1>9, <3>1, <3>2 DEF SpawnReleased
  <2> QED
    BY <1>1, <1>2, <2>2, <2>3, HeadersKept DEF GeneratingOnlyFinalized, Covered
<1>10. ASSUME NEW o, NEW r \in Requests, PickUp(w, r, o) PROVE GateInv'
  <2>1. Covered(r, finalizedHead)
    BY <1>10 DEF PickUp, LoopsGated
  <2>2. TasksGated' /\ UNCHANGED <<finalizedHeader, proofState>>
    BY <1>1, <1>10, <2>1, SpawnGated DEF PickUp
  <2>3. LoopsGated' /\ \A v \in Workers : loops'[v].lc = loops[v].lc
    BY <1>0, <1>1, <1>10 DEF PickUp, LoopsGated, Covered, TypeOK, LoopType
  <2> QED
    BY <1>1, <1>2, <2>2, <2>3, HeadersKept DEF GeneratingOnlyFinalized, Covered
<1> QED
  BY <1>4, <1>5, <1>6, <1>7, <1>8, <1>9, <1>10

-----------------------------------------------------------------------------
(* A task exists only for a request that has passed the gate.              *)
LEMMA TaskStepGated ==
    ASSUME TypeOK, GateInv, NEW t \in Tasks, TaskStep(t)
    PROVE  GateInv'
<1> USE DEF GateInv
<1>0. /\ tasks[t] \in TaskType
      /\ tasks[t].req \in Requests
  BY DEF TypeOK, TaskType
<1>1. UNCHANGED <<finalizedHead, finalizedHeader, handlers, loops>>
  BY DEF TaskStep, Generate, Store, Extend, ReleaseGenLock, set_proof_state,
     extend_proof_generation_lock, release_proof_generation_lock, redisVars
<1>2. HeadersFinalized' /\ HandlersGated' /\ LoopsGated'
  BY <1>1 DEF HeadersFinalized, HandlersGated, LoopsGated, Covered
<1>3. TasksGated'
  <2>1. tasks[t].pc # "free"
    BY DEF TaskStep, Generate, Store, Extend, Extends, ReleaseGenLock
  <2>2. Covered(tasks[t].req, finalizedHead)
    BY <2>1 DEF TasksGated
  <2>3. \A u \in Tasks :
          \/ tasks'[u] = FreeTask
          \/ tasks'[u] = tasks[u]
          \/ u = t /\ tasks'[u].req = tasks[t].req
    BY <1>0 DEF TaskStep, Generate, Store, Extend, ReleaseGenLock,
       StopExtending, TypeOK, TaskType
  <2> QED
    BY <1>1, <2>2, <2>3 DEF TasksGated, Covered, FreeTask
<1>4. GeneratingOnlyFinalized'
  <2>1. ASSUME NEW o, Store(t, o) PROVE GeneratingOnlyFinalized'
    <3>1. Covered(tasks[t].req, finalizedHead)
      BY <2>1 DEF Store, TasksGated
    <3> QED
      BY <1>1, <2>1, <3>1 DEF Store, set_proof_state, GeneratingOnlyFinalized,
         Covered, TypeOK, RedisTypeOK
  <2>2. ASSUME UNCHANGED proofState PROVE GeneratingOnlyFinalized'
    BY <1>1, <2>2 DEF GeneratingOnlyFinalized, Covered
  <2> QED
    BY <2>1, <2>2 DEF TaskStep, Generate, Extend, ReleaseGenLock, redisVars,
       extend_proof_generation_lock, release_proof_generation_lock
<1> QED
  BY <1>2, <1>3, <1>4

LEMMA FinalizeGated ==
    ASSUME TypeOK, GateInv, Finalize
    PROVE  GateInv'
<1>1. /\ finalizedHead' \in Slots
      /\ finalizedHead \in Slots
      /\ finalizedHead <= finalizedHead'
      /\ UNCHANGED <<finalizedHeader, proofState, handlers, loops, tasks>>
  BY DEF TypeOK, Finalize, redisVars, Slots
<1>2. \A r \in Requests : Covered(r, finalizedHead) => Covered(r, finalizedHead')
  BY <1>1, CoveredMonotone
<1>3. HeadersFinalized'
  BY <1>1, SlotsAssumption
     DEF GateInv, HeadersFinalized, TypeOK, RedisTypeOK, LoopType, Slots, NoHeader
<1>4. HandlersGated'
  BY <1>1, <1>2 DEF GateInv, HandlersGated, TypeOK, HandlerType
<1>5. LoopsGated'
  BY <1>1, <1>2 DEF GateInv, LoopsGated, TypeOK, LoopType
<1>6. TasksGated'
  BY <1>1, <1>2 DEF GateInv, TasksGated, TypeOK, TaskType
<1>7. GeneratingOnlyFinalized'
  BY <1>1, <1>2 DEF GateInv, GeneratingOnlyFinalized
<1> QED
  BY <1>3, <1>4, <1>5, <1>6, <1>7 DEF GateInv

LEMMA EnvironmentGated ==
    ASSUME TypeOK, GateInv, Environment
    PROVE  GateInv'
<1> USE DEF GateInv
<1>1. ASSUME UNCHANGED <<finalizedHead, finalizedHeader, loops, handlers, tasks>>,
             \A r \in Requests : proofState'[r] \in {proofState[r], "absent"}
      PROVE  GateInv'
  BY <1>1 DEF HeadersFinalized, HandlersGated, LoopsGated, TasksGated,
     GeneratingOnlyFinalized, Covered
<1>2. CASE ExpireGlobalLock
  BY <1>1, <1>2 DEF ExpireGlobalLock, global_lock_expires
<1>3. ASSUME NEW w \in Workers, Start(w) PROVE GateInv'
  <2>1. /\ UNCHANGED <<finalizedHead, finalizedHeader, proofState, handlers, tasks>>
        /\ loops' = [loops EXCEPT ![w].pc = "boot"]
        /\ loops[w].pc = "down"
    BY <1>3 DEF Start, redisVars, Up
  <2>2. LoopsGated' /\ HeadersFinalized'
    BY <2>1 DEF LoopsGated, HeadersFinalized, TypeOK, LoopType, Covered
  <2> QED
    BY <2>1, <2>2 DEF HandlersGated, TasksGated, GeneratingOnlyFinalized, Covered
<1>4. ASSUME NEW w \in Workers, Crash(w) PROVE GateInv'
  BY <1>4, ExitGated DEF Crash
<1>5. ASSUME NEW h \in Handlers, Disconnect(h) PROVE GateInv'
  <2>1. HandlersGated'
    BY <1>5 DEF Disconnect, HandlersGated, IdleHandler, Covered, TypeOK
  <2> QED
    BY <1>5, <2>1 DEF Disconnect, HeadersFinalized, LoopsGated, TasksGated,
       GeneratingOnlyFinalized, Covered
<1>6. ASSUME NEW r \in Requests, ExpireGenLock(r) PROVE GateInv'
  BY <1>1, <1>6 DEF ExpireGenLock, proof_generation_lock_expires
<1>7. ASSUME NEW r \in Requests, ExpireProofState(r) PROVE GateInv'
  BY <1>1, <1>7 DEF ExpireProofState, proof_state_expires, TypeOK, RedisTypeOK
<1> QED
  BY <1>2, <1>3, <1>4, <1>5, <1>6, <1>7, FinalizeGated DEF Environment

-----------------------------------------------------------------------------
LEMMA InitGated == Init => GateInv
BY SlotsAssumption DEF Init, RedisInit, NoHeader, Slots, GateInv,
   HeadersFinalized, HandlersGated, LoopsGated, TasksGated,
   GeneratingOnlyFinalized, IdleHandler, DownLoop, FreeTask

LEMMA StutterGated ==
    ASSUME GateInv, UNCHANGED vars
    PROVE  GateInv'
BY DEF vars, redisVars, GateInv, HeadersFinalized, HandlersGated, LoopsGated,
   TasksGated, GeneratingOnlyFinalized, Covered

(* The whole inductive invariant: every part of the service that is about  *)
(* to let a request pass, or works on it, does so on finalized ground.     *)
THEOREM GateHolds == Spec => []GateInv
<1>1. TypeOK /\ GateInv /\ [Next]_vars => GateInv'
  <2> SUFFICES ASSUME TypeOK, GateInv, Next \/ UNCHANGED vars PROVE GateInv'
    OBVIOUS
  <2>1. ASSUME NEW w \in Workers, LoopStep(w) PROVE GateInv'
    BY <2>1, LoopReadGated, LoopWriteGated DEF LoopStep
  <2> QED
    BY <2>1, EnvironmentGated, HandlerStepGated, RequestProofGated,
       TaskStepGated, StutterGated DEF Next
<1> QED
  BY <1>1, TypeCorrect, InitGated, PTL DEF Spec

(* No request is generated, or shown with a verdict, before the chain has  *)
(* finalized its block and a slot beyond the contract's head: not with any *)
(* number of workers, after any crash, or with the global lock lost.       *)
THEOREM FinalityGateHolds == Spec => []GeneratingOnlyFinalized
<1>1. GateInv => GeneratingOnlyFinalized
  BY DEF GateInv
<1> QED
  BY <1>1, GateHolds, PTL

-----------------------------------------------------------------------------
(* The steps of FinalityGate                                               *)

GateStep == [Gate!Next]_Gate!gateVars

(* Who holds a request in the pipeline.                                    *)
LEMMA Held ==
    ASSUME TypeOK
    PROVE  /\ InPipeline \subseteq Requests
           /\ \A r \in Requests :
                 proofState[r] \in {"generating", "success", "errored"} => r \in InPipeline
           /\ \A t \in Tasks : Working(t) => tasks[t].req \in InPipeline
           /\ \A h \in Handlers :
                 handlers[h].pc = "acquireGen" => handlers[h].req \in InPipeline
           /\ \A w \in Workers :
                 /\ loops[w].pc = "spawn" => loops[w].todo \subseteq InPipeline
                 /\ loops[w].pc \in {"scanGenerating", "pickUp"}
                       => loops[w].found \subseteq InPipeline
<1>1. /\ \A t \in Tasks : tasks[t].req \in Requests
      /\ \A h \in Handlers : handlers[h].req \in Requests
      /\ \A w \in Workers :
            loops[w].todo \subseteq Requests /\ loops[w].found \subseteq Requests
  BY DEF TypeOK, TaskType, HandlerType, LoopType
<1> QED
  BY <1>1 DEF InPipeline

(* A step that shows nothing new to a client and takes up no request: the  *)
(* gate stands still, or what has left the service retires.                *)
LEMMA PipelineShrinks ==
    ASSUME TypeOK, UNCHANGED <<finalizedHead, proofState>>,
           \A t \in Tasks : Working(t)' => tasks'[t].req \in InPipeline,
           \A h \in Handlers :
               handlers'[h].pc = "acquireGen" => handlers'[h].req \in InPipeline,
           \A w \in Workers :
               /\ loops'[w].pc = "spawn" => loops'[w].todo \subseteq InPipeline
               /\ loops'[w].pc \in {"scanGenerating", "pickUp"}
                     => loops'[w].found \subseteq InPipeline
    PROVE  GateStep
<1>1. InPipeline' \subseteq InPipeline
  BY Held DEF InPipeline
<1>2. \A r \in Requests \ InPipeline' : proofState[r] # "generating"
  BY DEF InPipeline
<1>3. Gate!Retire
  BY <1>1, <1>2 DEF Gate!Retire
<1> QED
  BY <1>3 DEF GateStep, Gate!Next

(* Handlers, loops and tasks that go on as they were, or end.              *)
LEMMA HandlersHeld ==
    ASSUME TypeOK,
           \A h \in Handlers : handlers'[h] = handlers[h] \/ handlers'[h].pc # "acquireGen"
    PROVE  \A h \in Handlers :
               handlers'[h].pc = "acquireGen" => handlers'[h].req \in InPipeline
BY Held

LEMMA LoopsHeld ==
    ASSUME TypeOK,
           \A w \in Workers :
               \/ loops'[w] = loops[w]
               \/ loops'[w].pc \notin {"spawn", "scanGenerating", "pickUp"}
               \/ loops'[w].pc \in {"scanGenerating", "pickUp"} /\ loops'[w].found = {}
    PROVE  \A w \in Workers :
               /\ loops'[w].pc = "spawn" => loops'[w].todo \subseteq InPipeline
               /\ loops'[w].pc \in {"scanGenerating", "pickUp"}
                     => loops'[w].found \subseteq InPipeline
BY Held

LEMMA TasksHeld ==
    ASSUME TypeOK,
           \A t \in Tasks :
               \/ ~Working(t)'
               \/ Working(t) /\ tasks'[t].req = tasks[t].req
    PROVE  \A t \in Tasks : Working(t)' => tasks'[t].req \in InPipeline
BY Held

(* A task is only spawned on a request that has been released.             *)
LEMMA SpawnHeld ==
    ASSUME TypeOK, NEW w \in Workers, NEW r \in InPipeline, NEW o, AcquireAndSpawn(w, r, o)
    PROVE  /\ \A t \in Tasks : Working(t)' => tasks'[t].req \in InPipeline
           /\ UNCHANGED proofState
<1>1. NewTask(w, r).req = r
  BY DEF NewTask, FreeTask
<1>2. CASE UNCHANGED tasks
  BY <1>2, TasksHeld DEF Working, AcquireAndSpawn, acquire_proof_generation_lock
<1>3. ASSUME NEW t \in Tasks, tasks' = [tasks EXCEPT ![t] = NewTask(w, r)]
      PROVE  \A u \in Tasks : Working(u)' => tasks'[u].req \in InPipeline
  BY <1>1, <1>3, Held DEF TypeOK, Working
<1> QED
  BY <1>2, <1>3 DEF AcquireAndSpawn, acquire_proof_generation_lock

LEMMA ExitKeeps ==
    ASSUME TypeOK, NEW w \in Workers, Exit(w), UNCHANGED <<finalizedHead, proofState>>
    PROVE  GateStep
<1>1. \A h \in Handlers : handlers'[h] = handlers[h] \/ handlers'[h].pc # "acquireGen"
  BY DEF Exit, IdleHandler
<1>2. \A v \in Workers : loops'[v] = loops[v] \/ loops'[v].pc = "down"
  BY DEF Exit, DownLoop, TypeOK
<1>3. \A t \in Tasks : tasks'[t] = tasks[t] \/ tasks'[t].pc = "free"
  BY DEF Exit, FreeTask
<1>4. \A t \in Tasks : ~Working(t)' \/ (Working(t) /\ tasks'[t].req = tasks[t].req)
  BY <1>3 DEF Working
<1> QED
  BY <1>1, <1>2, <1>4, HandlersHeld, LoopsHeld, TasksHeld, PipelineShrinks

(* A status is written: those who hold requests hold the same, but for the *)
(* request itself.                                                         *)
LEMMA OneWritten ==
    ASSUME TypeOK, UNCHANGED finalizedHead, NEW r \in Requests, NEW status \in Status,
           proofState' = [proofState EXCEPT ![r] = status],
           \A t \in Tasks : Working(t)' => tasks'[t].req \in InPipeline \cup {r},
           \A h \in Handlers :
               handlers'[h].pc = "acquireGen" => handlers'[h].req \in InPipeline \cup {r},
           UNCHANGED loops
    PROVE  InPipeline' \subseteq InPipeline \cup {r}
BY Held DEF InPipeline, TypeOK, RedisTypeOK

LEMMA HandlerKeeps ==
    ASSUME TypeOK, GateInv, NEW h \in Handlers, HandlerStep(h)
    PROVE  GateStep
<1> DEFINE r == handlers[h].req
<1>0. /\ r \in Requests /\ Host[h] \in Workers
      /\ handlers \in [Handlers -> HandlerType] /\ proofState \in [Requests -> Status]
  BY HostAssumption DEF TypeOK, HandlerType, RedisTypeOK
<1>1. UNCHANGED <<finalizedHead, loops>>
  BY DEF HandlerStep, ReadState, ReadHeader, Decide, WriteState, StartGeneration, Respond
<1>2. ASSUME UNCHANGED <<proofState, tasks>>,
             \A g \in Handlers : handlers'[g] = handlers[g] \/ handlers'[g].pc # "acquireGen"
      PROVE  GateStep
  BY <1>1, <1>2, HandlersHeld, LoopsHeld, TasksHeld, PipelineShrinks DEF Working
<1>3. ASSUME NEW o, ReadState(h, o) \/ ReadHeader(h, o) \/ Respond(h, o)
      PROVE  GateStep
  <2>1. UNCHANGED <<proofState, tasks>>
    BY <1>3 DEF ReadState, ReadHeader, Decide, Respond, ReadOnly, release_global_lock
  <2>2. \A g \in Handlers : handlers'[g] = handlers[g] \/ handlers'[g].pc # "acquireGen"
    BY <1>0, <1>3 DEF ReadState, ReadHeader, Decide, Respond, SetHandler, IdleHandler,
       HandlerType
  <2> QED
    BY <1>2, <2>1, <2>2
<1>4. ASSUME NEW o, StartGeneration(h, o) PROVE GateStep
  <2>1. r \in InPipeline
    BY <1>4, Held DEF StartGeneration
  <2>2. /\ UNCHANGED proofState
        /\ \A t \in Tasks : Working(t)' => tasks'[t].req \in InPipeline
    BY <1>0, <1>4, <2>1, SpawnHeld DEF StartGeneration
  <2>3. \A g \in Handlers : handlers'[g] = handlers[g] \/ handlers'[g].pc # "acquireGen"
    BY <1>0, <1>4 DEF StartGeneration, SetHandler, HandlerType
  <2> QED
    BY <1>1, <2>2, <2>3, HandlersHeld, LoopsHeld, PipelineShrinks
<1>5. ASSUME NEW o, WriteState(h, o) PROVE GateStep
  <2> DEFINE status == handlers[h].view
  <2>1. /\ UNCHANGED tasks /\ handlers[h].pc = "write"
        /\ status \in {"waiting", "generating"} /\ status \in Status
    BY <1>5 DEF WriteState, TypeOK, DecidedViews, Status
  <2>2. \A g \in Handlers :
          \/ handlers'[g] = handlers[g]
          \/ handlers'[g].pc # "acquireGen"
          \/ /\ handlers'[g].pc = "acquireGen" /\ handlers'[g].req = r
             /\ status = "generating" /\ Executed(o)
    BY <1>0, <1>5 DEF WriteState, SetHandler, HandlerType, Executed
  <2>3. CASE ~Executed(o)
    BY <1>2, <1>5, <2>1, <2>2, <2>3 DEF WriteState, set_proof_state
  <2>4. CASE Executed(o)
    <3>1. proofState' = [proofState EXCEPT ![r] = status]
      BY <1>5, <2>4 DEF WriteState, set_proof_state
    <3>2. InPipeline' \subseteq InPipeline \cup {r}
      <4>1. \A g \in Handlers :
              handlers'[g].pc = "acquireGen" => handlers'[g].req \in InPipeline \cup {r}
        BY <2>2, Held
      <4>2. \A t \in Tasks : Working(t)' => tasks'[t].req \in InPipeline \cup {r}
        BY <2>1, Held DEF Working
      <4> HIDE DEF r, status
      <4> QED
        BY <1>0, <1>1, <2>1, <3>1, <4>1, <4>2, OneWritten
    <3>3. CASE status = "waiting"
      <4>1. r \in InPipeline' => r \in InPipeline
        <5>1. proofState'[r] = "waiting"
          BY <1>0, <3>1, <3>3
        <5>2. \A g \in Handlers :
                handlers'[g] = handlers[g] \/ handlers'[g].pc # "acquireGen"
          BY <2>2, <3>3
        <5> HIDE DEF r, status
        <5> QED
          BY <1>0, <1>1, <2>1, <5>1, <5>2 DEF InPipeline, Working
      <4>2. Gate!Admit(r)
        BY <1>1, <3>1, <3>2, <3>3, <4>1 DEF Gate!Admit
      <4> QED
        BY <1>0, <4>2 DEF GateStep, Gate!Next
    <3>4. CASE status = "generating"
      <4>1. InPipeline \cup {r} \subseteq InPipeline'
        <5>1. proofState'[r] = "generating"
          BY <1>0, <3>1, <3>4
        <5>2. \A q \in Requests \ {r} : proofState'[q] = proofState[q]
          BY <1>0, <3>1
        <5>3. \A g \in Handlers : handlers[g].pc = "acquireGen" => handlers'[g] = handlers[g]
          BY <1>0, <1>5 DEF WriteState, SetHandler
        <5> HIDE DEF r, status
        <5> QED
          BY <1>0, <1>1, <2>1, <5>1, <5>2, <5>3 DEF InPipeline, Working
      <4>2. Covered(r, finalizedHead)
        BY <2>1, <3>4 DEF GateInv, HandlersGated
      <4>3. proofState' = [q \in Requests |->
                             IF q \in {r} THEN "generating" ELSE proofState[q]]
        BY <1>0, <3>1, <3>4
      <4>4. Gate!Release({r})
        BY <1>1, <3>2, <4>1, <4>2, <4>3 DEF Gate!Release, Gate!Passes, Covered
      <4> QED
        BY <1>0, <4>4 DEF GateStep, Gate!Next
    <3> QED
      BY <2>1, <3>3, <3>4
  <2> QED
    BY <2>3, <2>4
<1> QED
  BY <1>3, <1>4, <1>5 DEF HandlerStep

LEMMA RequestKeeps ==
    ASSUME TypeOK, NEW h \in Handlers, NEW r \in Requests, NEW o, RequestProof(h, r, o)
    PROVE  GateStep
<1>1. UNCHANGED <<finalizedHead, proofState, loops, tasks>>
  BY DEF RequestProof, acquire_global_lock
<1>2. \A g \in Handlers : handlers'[g] = handlers[g] \/ handlers'[g].pc # "acquireGen"
  BY DEF RequestProof, TypeOK
<1> QED
  BY <1>1, <1>2, HandlersHeld, LoopsHeld, TasksHeld, PipelineShrinks DEF Working

LEMMA TaskKeeps ==
    ASSUME TypeOK, NEW t \in Tasks, TaskStep(t)
    PROVE  GateStep
<1> DEFINE r == tasks[t].req
<1>0. /\ r \in Requests /\ tasks \in [Tasks -> TaskType]
      /\ proofState \in [Requests -> Status]
  BY DEF TypeOK, TaskType, RedisTypeOK
<1>1. UNCHANGED <<finalizedHead, handlers, loops>>
  BY DEF TaskStep, Generate, Store, Extend, ReleaseGenLock
<1>2. ASSUME UNCHANGED proofState,
             \A u \in Tasks : ~Working(u)' \/ (Working(u) /\ tasks'[u].req = tasks[u].req)
      PROVE  GateStep
  BY <1>1, <1>2, HandlersHeld, LoopsHeld, TasksHeld, PipelineShrinks
<1>3. ASSUME StopExtending(t)
      PROVE  \A u \in Tasks : ~Working(u)' \/ (Working(u) /\ tasks'[u].req = tasks[u].req)
  BY <1>0, <1>3 DEF StopExtending, Working, FreeTask, TaskType
<1>4. CASE Generate(t)
  <2>1. \A u \in Tasks : ~Working(u)' \/ (Working(u) /\ tasks'[u].req = tasks[u].req)
    BY <1>0, <1>4 DEF Generate, Working, TaskType
  <2> QED
    BY <1>2, <1>4, <2>1 DEF Generate, redisVars
<1>5. ASSUME NEW o, Extend(t, o) \/ ReleaseGenLock(t, o) PROVE GateStep
  <2>1. UNCHANGED proofState
    BY <1>5 DEF Extend, ReleaseGenLock, extend_proof_generation_lock,
       release_proof_generation_lock
  <2>2. CASE StopExtending(t)
    BY <1>2, <1>3, <2>1, <2>2
  <2>3. CASE tasks' = [tasks EXCEPT ![t].ext = "releasing"] \/ UNCHANGED tasks
    <3>1. \A u \in Tasks : ~Working(u)' \/ (Working(u) /\ tasks'[u].req = tasks[u].req)
      BY <1>0, <2>3 DEF Working, TaskType
    <3> QED
      BY <1>2, <2>1, <3>1
  <2> QED
    BY <1>5, <2>2, <2>3 DEF Extend, ReleaseGenLock
<1>6. ASSUME NEW o, Store(t, o) PROVE GateStep
  <2> DEFINE verdict == tasks[t].verdict
  <2>1. /\ verdict \in {"success", "errored"} /\ verdict \in Status
        /\ Working(t) /\ r \in InPipeline
    BY <1>0, <1>6, Held DEF Store, TaskType, Status, Working
  <2>2. \A u \in Tasks : ~Working(u)' \/ (Working(u) /\ tasks'[u].req = tasks[u].req)
    BY <1>0, <1>6 DEF Store, Working, FreeTask, TaskType
  <2>3. CASE ~Executed(o)
    BY <1>2, <1>6, <2>2, <2>3 DEF Store, set_proof_state
  <2>4. CASE Executed(o)
    <3>1. proofState' = [proofState EXCEPT ![r] = verdict]
      BY <1>6, <2>4 DEF Store, set_proof_state
    <3>2. InPipeline' \subseteq InPipeline
      <4>1. \A u \in Tasks : Working(u)' => tasks'[u].req \in InPipeline \cup {r}
        BY <2>2, Held
      <4>2. \A h \in Handlers :
              handlers'[h].pc = "acquireGen" => handlers'[h].req \in InPipeline \cup {r}
        BY <1>1, Held
      <4> HIDE DEF r, verdict
      <4>3. InPipeline' \subseteq InPipeline \cup {r}
        BY <1>0, <1>1, <2>1, <3>1, <4>1, <4>2, OneWritten
      <4> QED
        BY <2>1, <4>3
    <3>3. InPipeline \subseteq InPipeline'
      <4>1. proofState'[r] \in {"success", "errored"}
        BY <1>0, <2>1, <3>1
      <4>2. \A q \in Requests \ {r} : proofState'[q] = proofState[q]
        BY <1>0, <3>1
      <4>3. \A u \in Tasks : Working(u) => tasks[u].req = r \/ tasks'[u] = tasks[u]
        BY <1>0, <1>6 DEF Store
      <4> HIDE DEF r, verdict
      <4> QED
        BY <1>0, <1>1, <4>1, <4>2, <4>3 DEF InPipeline, Working
    <3>4. Gate!Conclude(r)
      BY <1>1, <2>1, <3>1, <3>2, <3>3 DEF Gate!Conclude, Gate!Verdict
    <3> QED
      BY <1>0, <3>4 DEF GateStep, Gate!Next
  <2> QED
    BY <2>3, <2>4
<1> QED
  BY <1>4, <1>5, <1>6 DEF TaskStep

(* The commit of a header releases, in one step, the requests it covers.   *)
LEMMA CommitKeeps ==
    ASSUME TypeOK, GateInv, NEW w \in Workers, NEW o, Commit(w, o)
    PROVE  GateStep
<1> DEFINE S == Ready(w)
<1>0. /\ loops \in [Workers -> LoopType] /\ loops[w].pc = "commit"
      /\ proofState \in [Requests -> Status]
      /\ UNCHANGED <<finalizedHead, handlers, tasks>>
  BY DEF TypeOK, RedisTypeOK, Commit
<1>1. S \subseteq Requests /\ \A r \in S : Covered(r, finalizedHead)
  <2>1. /\ loops[w].lc \in Slots /\ loops[w].lc <= finalizedHead
        /\ finalizedHead \in Slots /\ loops[w].found \subseteq Requests
    BY DEF TypeOK, LoopType, GateInv, HeadersFinalized
  <2> QED
    BY <2>1, CoveredMonotone DEF Ready
<1>2. \A v \in Workers :
        \/ loops'[v] = loops[v] /\ v # w
        \/ v = w /\ loops'[v].pc = "release"
        \/ v = w /\ loops'[v].pc = "spawn" /\ loops'[v].todo = S /\ o = "ok" /\ S # {}
  <2> HIDE DEF S
  <2> QED
    BY <1>0 DEF Commit, EndUpdate, LoopType, S
<1>3. CASE UNCHANGED proofState /\ (~Executed(o) \/ S = {})
  <2>1. \A v \in Workers :
          loops'[v] = loops[v] \/ loops'[v].pc \notin {"spawn", "scanGenerating", "pickUp"}
    BY <1>2, <1>3 DEF Executed
  <2> QED
    BY <1>0, <1>3, <2>1, HandlersHeld, LoopsHeld, TasksHeld, PipelineShrinks DEF Working
<1>4. CASE Executed(o) /\ S # {}
  <2>1. proofState' = [r \in Requests |-> IF r \in S THEN "generating" ELSE proofState[r]]
    BY <1>4 DEF Commit, update_finalized_header_and_proof_states
  <2>2. InPipeline' = InPipeline \cup S
    <3>1. \A r \in S : proofState'[r] = "generating"
      BY <1>1, <2>1
    <3>2. \A r \in Requests \ S : proofState'[r] = proofState[r]
      BY <2>1
    <3>3. \A v \in Workers : loops[v] = loops'[v] \/ loops[v].pc = "commit"
      BY <1>0, <1>2
    <3> HIDE DEF S
    <3>4. InPipeline \subseteq InPipeline'
      BY <1>0, <3>1, <3>2, <3>3 DEF InPipeline, Working
    <3>5. InPipeline' \subseteq InPipeline \cup S
      BY <1>0, <1>1, <1>2, <3>2, <3>3 DEF InPipeline, Working
    <3>6. S \subseteq InPipeline'
      BY <1>1, <3>1 DEF InPipeline
    <3> QED
      BY <3>4, <3>5, <3>6
  <2>3. Gate!Release(S)
    BY <1>0, <1>1, <1>4, <2>1, <2>2 DEF Gate!Release, Gate!Passes, Covered
  <2> QED
    BY <1>1, <2>3 DEF GateStep, Gate!Next
<1>5. CASE Executed(o) /\ S = {}
  <2>1. proofState' = [r \in Requests |-> proofState[r]]
    BY <1>5 DEF Commit, update_finalized_header_and_proof_states
  <2> QED
    BY <1>0, <1>3, <1>5, <2>1
<1>6. CASE ~Executed(o)
  BY <1>3, <1>6 DEF Commit, update_finalized_header_and_proof_states
<1> QED
  BY <1>4, <1>5, <1>6

LEMMA LoopKeeps ==
    ASSUME TypeOK, GateInv, FoundInv, NEW w \in Workers, LoopStep(w)
    PROVE  GateStep
<1>0. loops \in [Workers -> LoopType] /\ loops[w].found \subseteq Requests
  BY DEF TypeOK, LoopType
<1>1. UNCHANGED finalizedHead
  BY DEF LoopStep, Sync, NothingToPickUp, AdvanceTo, AcquireForUpdate, Commit, SpawnReleased,
     PickUp, Boot, ReadStoredHeader, ReleaseAfterUpdate, CheckHeaderHealth, ScanWaiting,
     ScanGenerating
<1>2. ASSUME UNCHANGED <<proofState, handlers, tasks>>,
             \A v \in Workers :
                 \/ loops'[v] = loops[v]
                 \/ loops'[v].pc \notin {"spawn", "scanGenerating", "pickUp"}
                 \/ loops'[v].pc \in {"scanGenerating", "pickUp"} /\ loops'[v].found = {}
      PROVE  GateStep
  BY <1>1, <1>2, HandlersHeld, LoopsHeld, TasksHeld, PipelineShrinks DEF Working
<1>3. ASSUME UNCHANGED <<proofState, handlers, tasks>>,
              \A v \in Workers \ {w} : loops'[v] = loops[v],
              \/ loops'[w].pc \notin {"spawn", "scanGenerating", "pickUp"}
              \/ loops'[w].pc = "scanGenerating" /\ loops'[w].found = {}
       PROVE  GateStep
  BY <1>2, <1>3
<1>4. ASSUME NEW pc \in {"scanWaiting", "scanGenerating"}, BeginScan(w, pc)
       PROVE  /\ \A v \in Workers \ {w} : loops'[v] = loops[v]
              /\ loops'[w].pc = pc /\ loops'[w].found = {}
  BY <1>0, <1>4 DEF BeginScan, LoopType
<1>5. ASSUME NEW result, EndUpdate(w, result)
       PROVE  /\ \A v \in Workers \ {w} : loops'[v] = loops[v]
              /\ loops'[w].pc = "release"
  BY <1>0, <1>5 DEF EndUpdate, LoopType
<1>6. ASSUME NEW o, AcquireForUpdate(w, o) PROVE GateStep
  <2>1. UNCHANGED <<proofState, handlers, tasks>>
    BY <1>6 DEF AcquireForUpdate, acquire_global_lock
  <2>2. \/ BeginScan(w, "scanGenerating") \/ EndUpdate(w, "refused")
        \/ loops' = [loops EXCEPT ![w].pc = "readHeader"]
    BY <1>6 DEF AcquireForUpdate
  <2>3. CASE loops' = [loops EXCEPT ![w].pc = "readHeader"]
    <3>1. loops'[w].pc = "readHeader" /\ \A v \in Workers \ {w} : loops'[v] = loops[v]
      BY <1>0, <2>3 DEF LoopType
    <3> QED
      BY <1>3, <2>1, <3>1
  <2> QED
    BY <1>3, <1>4, <1>5, <2>1, <2>2, <2>3
<1>7. ASSUME NEW o, ReadStoredHeader(w, o) PROVE GateStep
  <2>1. UNCHANGED <<proofState, handlers, tasks>>
    BY <1>7 DEF ReadStoredHeader, ReadOnly
  <2>2. BeginScan(w, "scanWaiting") \/ \E result \in Result : EndUpdate(w, result)
    BY <1>7 DEF ReadStoredHeader, Result
  <2> QED
    BY <1>3, <1>4, <1>5, <2>1, <2>2
<1>8. ASSUME NEW o, NEW r \in Requests, ScanWaiting(w, r, o) PROVE GateStep
  <2>1. UNCHANGED <<proofState, handlers, tasks>> /\ loops[w].pc = "scanWaiting"
    BY <1>8 DEF ScanWaiting, ReadOnly
  <2>2. CASE ScanNext(w, r, "waiting", "commit")
    <3>1. \A v \in Workers \ {w} : loops'[v] = loops[v]
      BY <1>0, <2>2 DEF ScanNext
    <3>2. loops'[w].pc \in {"scanWaiting", "commit"}
      BY <1>0, <2>1, <2>2 DEF ScanNext, LoopType
    <3> QED
      BY <1>3, <2>1, <3>1, <3>2
  <2>3. CASE EndUpdate(w, "failed")
    BY <1>3, <1>5, <2>1, <2>3
  <2> QED
    BY <1>8, <2>2, <2>3 DEF ScanWaiting
<1>9. ASSUME NEW o, ReleaseAfterUpdate(w, o) PROVE GateStep
  <2>1. UNCHANGED <<proofState, handlers, tasks>>
    BY <1>9 DEF ReleaseAfterUpdate, release_global_lock
  <2>2. loops[w].found = {}
    BY <1>9 DEF ReleaseAfterUpdate, FoundInv
  <2>3. /\ loops'[w].pc = "scanGenerating" /\ loops'[w].found = {}
        /\ \A v \in Workers \ {w} : loops'[v] = loops[v]
    BY <1>0, <1>9, <2>2 DEF ReleaseAfterUpdate, LoopType
  <2> QED
    BY <1>2, <2>1, <2>3
<1>10. CASE Sync(w) \/ NothingToPickUp(w)
  <2>1. UNCHANGED <<proofState, handlers, tasks>>
    BY <1>10 DEF Sync, NothingToPickUp, redisVars
  <2>2. loops'[w].pc \in {"update", "health"} /\ \A v \in Workers \ {w} : loops'[v] = loops[v]
    BY <1>0, <1>10 DEF Sync, NothingToPickUp, LoopType
  <2> QED
    BY <1>2, <2>1, <2>2
<1>11. ASSUME NEW s, AdvanceTo(w, s) PROVE GateStep
  <2>1. UNCHANGED <<proofState, handlers, tasks>> /\ loops[w].found = {}
    BY <1>11, Zenon DEF AdvanceTo, redisVars, FoundInv
  <2>2. /\ loops'[w].pc \in {"update", "scanGenerating"} /\ loops'[w].found = {}
        /\ \A v \in Workers \ {w} : loops'[v] = loops[v]
    BY <1>0, <1>11, <2>1 DEF AdvanceTo, LoopType
  <2> QED
    BY <1>2, <2>1, <2>2
<1>12. ASSUME NEW o, NEW r \in Requests, ScanGenerating(w, r, o) PROVE GateStep
  <2>1. UNCHANGED <<proofState, handlers, tasks>> /\ loops[w].pc = "scanGenerating"
    BY <1>12 DEF ScanGenerating, ReadOnly
  <2>2. \A v \in Workers \ {w} : loops'[v] = loops[v]
    BY <1>0, <1>12 DEF ScanGenerating, ScanNext
  <2>3. loops'[w].pc \in {"scanGenerating", "pickUp", "health"}
    BY <1>0, <1>12, <2>1 DEF ScanGenerating, ScanNext, LoopType
  <2>4. loops'[w].found \subseteq InPipeline
    <3>1. loops[w].found \subseteq InPipeline
      BY <2>1, Held
    <3>2. proofState[r] = "generating" => r \in InPipeline
      BY Held
    <3>3. loops'[w].found \in {{}, loops[w].found, loops[w].found \cup {r}}
          /\ (proofState[r] # "generating" => loops'[w].found \in {{}, loops[w].found})
      BY <1>0, <1>12 DEF ScanGenerating, ScanNext, LoopType
    <3> QED
      BY <3>1, <3>2, <3>3
  <2>5. \A v \in Workers :
            /\ loops'[v].pc = "spawn" => loops'[v].todo \subseteq InPipeline
            /\ loops'[v].pc \in {"scanGenerating", "pickUp"}
                  => loops'[v].found \subseteq InPipeline
    BY <2>2, <2>3, <2>4, Held
  <2> QED
    BY <1>1, <2>1, <2>5, HandlersHeld, TasksHeld, PipelineShrinks DEF Working
<1>13. ASSUME NEW o, NEW r \in Requests, SpawnReleased(w, r, o) \/ PickUp(w, r, o)
      PROVE  GateStep
  <2>1. r \in InPipeline
    BY <1>13, Held DEF SpawnReleased, PickUp
  <2>2. /\ UNCHANGED <<proofState, handlers>>
        /\ \A t \in Tasks : Working(t)' => tasks'[t].req \in InPipeline
    BY <1>13, <2>1, SpawnHeld DEF SpawnReleased, PickUp
  <2>3. /\ \A v \in Workers \ {w} : loops'[v] = loops[v]
        /\ \/ loops'[w].pc = "release"
           \/ /\ loops'[w].pc = loops[w].pc
              /\ loops'[w].todo \subseteq loops[w].todo
              /\ loops'[w].found \subseteq loops[w].found
    BY <1>0, <1>13 DEF SpawnReleased, PickUp, EndUpdate, LoopType
  <2>4. \A v \in Workers :
            /\ loops'[v].pc = "spawn" => loops'[v].todo \subseteq InPipeline
            /\ loops'[v].pc \in {"scanGenerating", "pickUp"}
                  => loops'[v].found \subseteq InPipeline
    BY <2>3, Held
  <2> QED
    BY <1>1, <2>2, <2>4, HandlersHeld, PipelineShrinks
<1>14. ASSUME NEW o, Boot(w, o) \/ CheckHeaderHealth(w, o) PROVE GateStep
  <2>1. UNCHANGED proofState
    BY <1>14 DEF Boot, CheckHeaderHealth, ReadOnly
  <2>2. \/ Exit(w)
        \/ /\ UNCHANGED <<handlers, tasks>>
           /\ \E l : loops' = [loops EXCEPT ![w].pc = "sync", ![w].lc = l]
        \/ UNCHANGED <<handlers, tasks>> /\ loops' = [loops EXCEPT ![w].pc = "sleep"]
    BY <1>14 DEF Boot, CheckHeaderHealth
  <2>3. ASSUME UNCHANGED <<handlers, tasks>>,
               \/ \E l : loops' = [loops EXCEPT ![w].pc = "sync", ![w].lc = l]
               \/ loops' = [loops EXCEPT ![w].pc = "sleep"]
        PROVE  GateStep
    <3>1. /\ loops'[w].pc \in {"sync", "sleep"}
          /\ \A v \in Workers \ {w} : loops'[v] = loops[v]
      BY <1>0, <2>3 DEF LoopType
    <3> QED
      BY <1>3, <2>1, <2>3, <3>1
  <2>4. CASE Exit(w)
    BY <1>1, <2>1, <2>4, ExitKeeps
  <2> QED
    BY <2>2, <2>3, <2>4
<1>15. ASSUME NEW o,
              \/ AcquireForUpdate(w, o)
              \/ Commit(w, o)
              \/ \E r \in Requests : SpawnReleased(w, r, o) \/ PickUp(w, r, o)
       PROVE  GateStep
  BY <1>13, <1>6, <1>15, CommitKeeps
<1>16. ASSUME NEW o,
              \/ ReadStoredHeader(w, o)
              \/ ReleaseAfterUpdate(w, o)
              \/ \E r \in Requests : ScanWaiting(w, r, o) \/ ScanGenerating(w, r, o)
       PROVE  GateStep
  BY <1>9, <1>12, <1>7, <1>8, <1>16
<1>17. \/ Sync(w) \/ NothingToPickUp(w)
       \/ \E s \in Slots : AdvanceTo(w, s)
       \/ \E o \in Outcomes :
            \/ AcquireForUpdate(w, o)
            \/ Commit(w, o)
            \/ \E r \in Requests : SpawnReleased(w, r, o) \/ PickUp(w, r, o)
       \/ \E o \in ReadOutcomes :
            \/ Boot(w, o) \/ CheckHeaderHealth(w, o)
            \/ ReadStoredHeader(w, o)
            \/ ReleaseAfterUpdate(w, o)
            \/ \E r \in Requests : ScanWaiting(w, r, o) \/ ScanGenerating(w, r, o)
  BY DEF LoopStep
<1> QED
  BY <1>10, <1>11, <1>14, <1>15, <1>16, <1>17

LEMMA EnvironmentKeepsGate ==
    ASSUME TypeOK, Environment
    PROVE  GateStep
<1>1. CASE Finalize
  <2>1. /\ finalizedHead' \in finalizedHead + 1 .. MaxSlot
        /\ UNCHANGED <<proofState, handlers, loops, tasks>>
    BY <1>1, SlotAssumption DEF Finalize, redisVars, Slots, TypeOK
  <2>2. InPipeline' = InPipeline
    BY <2>1 DEF InPipeline, Working
  <2>3. Gate!FinalizeSlot
    BY <2>1, <2>2 DEF Gate!FinalizeSlot
  <2> QED
    BY <2>3 DEF GateStep, Gate!Next
<1>2. ASSUME NEW r \in Requests, ExpireProofState(r) PROVE GateStep
  <2>1. /\ proofState' = [proofState EXCEPT ![r] = "absent"]
        /\ UNCHANGED <<finalizedHead, handlers, loops, tasks>>
    BY <1>2 DEF ExpireProofState, proof_state_expires
  <2>2. \A q \in Requests : proofState'[q] \in {proofState[q], "absent"}
    BY <2>1 DEF TypeOK, RedisTypeOK
  <2>3. InPipeline' \subseteq InPipeline
    BY <2>1, <2>2 DEF InPipeline, Working
  <2>4. Gate!Forget(r)
    BY <2>1, <2>3 DEF Gate!Forget
  <2> QED
    BY <2>4 DEF GateStep, Gate!Next
<1>3. ASSUME NEW w \in Workers, Crash(w) PROVE GateStep
  BY <1>3, ExitKeeps DEF Crash
<1>4. ASSUME UNCHANGED <<finalizedHead, proofState, tasks>>,
             \A h \in Handlers : handlers'[h] = handlers[h] \/ handlers'[h].pc # "acquireGen",
             \A w \in Workers : loops'[w] = loops[w] \/ loops'[w].pc = "boot"
      PROVE  GateStep
  <2>1. \A w \in Workers :
          loops'[w] = loops[w] \/ loops'[w].pc \notin {"spawn", "scanGenerating", "pickUp"}
    BY <1>4
  <2> QED
    BY <1>4, <2>1, HandlersHeld, LoopsHeld, TasksHeld, PipelineShrinks DEF Working
<1>5. ASSUME NEW w \in Workers, Start(w) PROVE GateStep
  BY <1>4, <1>5 DEF Start, redisVars, TypeOK, LoopType
<1>6. ASSUME NEW h \in Handlers, Disconnect(h) PROVE GateStep
  BY <1>4, <1>6 DEF Disconnect, IdleHandler
<1>7. CASE ExpireGlobalLock \/ \E r \in Requests : ExpireGenLock(r)
  BY <1>4, <1>7 DEF ExpireGlobalLock, global_lock_expires, ExpireGenLock,
     proof_generation_lock_expires
<1> QED
  BY <1>1, <1>2, <1>3, <1>5, <1>6, <1>7 DEF Environment
-----------------------------------------------------------------------------
(* FoundInv is kept on its own: what moves a loop out of a scan empties    *)
(* what the scan has found.                                                *)

LEMMA FoundKept ==
    ASSUME FoundInv,
           \A v \in Workers :
               \/ loops'[v] = loops[v]
               \/ loops'[v].pc \in {"scanWaiting", "commit", "scanGenerating", "pickUp"}
               \/ loops'[v].found = {}
    PROVE  FoundInv'
BY DEF FoundInv

LEMMA ExitFound == ASSUME TypeOK, FoundInv, NEW w \in Workers, Exit(w) PROVE FoundInv'
<1>1. \A v \in Workers : loops'[v] = loops[v] \/ loops'[v].found = {}
  BY DEF Exit, DownLoop, TypeOK
<1> QED
  BY <1>1, FoundKept

LEMMA LoopFound ==
    ASSUME TypeOK, FoundInv, NEW w \in Workers, LoopStep(w)
    PROVE  FoundInv'
<1>0. loops \in [Workers -> LoopType]
  BY DEF TypeOK
<1>1. ASSUME \A v \in Workers \ {w} : loops'[v] = loops[v],
             \/ loops'[w].pc \in {"scanWaiting", "commit", "scanGenerating", "pickUp"}
             \/ loops'[w].found = {}
      PROVE  FoundInv'
  BY <1>1, FoundKept
<1>2. ASSUME NEW pc \in {"scanWaiting", "scanGenerating"}, BeginScan(w, pc)
      PROVE  FoundInv'
  <2>1. loops'[w].found = {} /\ \A v \in Workers \ {w} : loops'[v] = loops[v]
    BY <1>0, <1>2 DEF BeginScan, LoopType
  <2> QED
    BY <1>1, <2>1
<1>3. ASSUME NEW result, EndUpdate(w, result) PROVE FoundInv'
  <2>1. loops'[w].found = {} /\ \A v \in Workers \ {w} : loops'[v] = loops[v]
    BY <1>0, <1>3 DEF EndUpdate, LoopType
  <2> QED
    BY <1>1, <2>1
<1>4. ASSUME loops[w].pc \notin {"scanWaiting", "commit", "scanGenerating", "pickUp"},
             loops'[w].found = loops[w].found,
             \A v \in Workers \ {w} : loops'[v] = loops[v]
      PROVE  FoundInv'
  BY <1>1, <1>4 DEF FoundInv
<1>5. CASE Sync(w)
  <2>1. /\ loops[w].pc = "sync" /\ loops'[w].found = loops[w].found
        /\ \A v \in Workers \ {w} : loops'[v] = loops[v]
    BY <1>0, <1>5 DEF Sync, LoopType
  <2> QED
    BY <1>4, <2>1
<1>6. CASE NothingToPickUp(w)
  <2>1. loops'[w].found = {} /\ \A v \in Workers \ {w} : loops'[v] = loops[v]
    BY <1>0, <1>6 DEF NothingToPickUp, LoopType
  <2> QED
    BY <1>1, <2>1
<1>7. ASSUME NEW s, AdvanceTo(w, s) PROVE FoundInv'
  <2>1. /\ loops[w].pc = "sleep" /\ loops'[w].found = loops[w].found
        /\ \A v \in Workers \ {w} : loops'[v] = loops[v]
    BY <1>0, <1>7, Zenon DEF AdvanceTo, LoopType
  <2> QED
    BY <1>4, <2>1
<1>8. ASSUME NEW o, AcquireForUpdate(w, o) PROVE FoundInv'
  <2>1. CASE loops' = [loops EXCEPT ![w].pc = "readHeader"]
    <3>1. /\ loops[w].pc = "update" /\ loops'[w].found = loops[w].found
          /\ \A v \in Workers \ {w} : loops'[v] = loops[v]
      BY <1>0, <1>8, <2>1 DEF AcquireForUpdate, LoopType
    <3> QED
      BY <1>4, <3>1
  <2> QED
    BY <1>2, <1>3, <1>8, <2>1 DEF AcquireForUpdate
<1>9. ASSUME NEW o, Commit(w, o) PROVE FoundInv'
  <2>1. CASE loops' = [loops EXCEPT ![w].pc = "spawn", ![w].todo = Ready(w),
                                    ![w].found = {}]
    <3>1. loops'[w].found = {} /\ \A v \in Workers \ {w} : loops'[v] = loops[v]
      BY <1>0, <2>1 DEF LoopType
    <3> QED
      BY <1>1, <3>1
  <2> QED
    BY <1>3, <1>9, <2>1 DEF Commit
<1>10. ASSUME NEW o, NEW r \in Requests, SpawnReleased(w, r, o) PROVE FoundInv'
  <2>1. CASE loops' = [loops EXCEPT ![w].todo = @ \ {r}]
    <3>1. /\ loops[w].pc = "spawn" /\ loops'[w].found = loops[w].found
          /\ \A v \in Workers \ {w} : loops'[v] = loops[v]
      BY <1>0, <1>10, <2>1 DEF SpawnReleased, LoopType
    <3> QED
      BY <1>4, <3>1
  <2> QED
    BY <1>3, <1>10, <2>1 DEF SpawnReleased
<1>11. ASSUME NEW o, NEW r \in Requests, PickUp(w, r, o) PROVE FoundInv'
  <2>1. loops'[w].pc = "pickUp" /\ \A v \in Workers \ {w} : loops'[v] = loops[v]
    BY <1>0, <1>11 DEF PickUp, LoopType
  <2> QED
    BY <1>1, <2>1
<1>12. ASSUME NEW o, Boot(w, o) PROVE FoundInv'
  <2>1. CASE loops' = [loops EXCEPT ![w].pc = "sync", ![w].lc = Checkpoint]
    <3>1. /\ loops[w].pc = "boot" /\ loops'[w].found = loops[w].found
          /\ \A v \in Workers \ {w} : loops'[v] = loops[v]
      BY <1>0, <1>12, <2>1 DEF Boot, LoopType
    <3> QED
      BY <1>4, <3>1
  <2> QED
    BY <1>12, <2>1, ExitFound DEF Boot
<1>13. ASSUME NEW o, CheckHeaderHealth(w, o) PROVE FoundInv'
  <2>1. CASE loops' = [loops EXCEPT ![w].pc = "sleep"]
    <3>1. /\ loops[w].pc = "health" /\ loops'[w].found = loops[w].found
          /\ \A v \in Workers \ {w} : loops'[v] = loops[v]
      BY <1>0, <1>13, <2>1 DEF CheckHeaderHealth, LoopType
    <3> QED
      BY <1>4, <3>1
  <2> QED
    BY <1>13, <2>1, ExitFound DEF CheckHeaderHealth
<1>14. ASSUME NEW o, ReadStoredHeader(w, o) PROVE FoundInv'
  BY <1>2, <1>3, <1>14 DEF ReadStoredHeader
<1>15. ASSUME NEW o, ReleaseAfterUpdate(w, o) PROVE FoundInv'
  <2>1. loops'[w].pc = "scanGenerating" /\ \A v \in Workers \ {w} : loops'[v] = loops[v]
    BY <1>0, <1>15 DEF ReleaseAfterUpdate, LoopType
  <2> QED
    BY <1>1, <2>1
<1>16. ASSUME NEW r \in Requests, NEW status,
              \/ loops[w].pc = "scanWaiting" /\ ScanNext(w, r, status, "commit")
              \/ loops[w].pc = "scanGenerating" /\ ScanNext(w, r, status, "pickUp")
       PROVE  FoundInv'
  <2>1. /\ loops'[w].pc \in {"scanWaiting", "commit", "scanGenerating", "pickUp"}
        /\ \A v \in Workers \ {w} : loops'[v] = loops[v]
    BY <1>0, <1>16 DEF ScanNext, LoopType
  <2> QED
    BY <1>1, <2>1
<1>17. ASSUME NEW o, NEW r \in Requests, ScanWaiting(w, r, o) PROVE FoundInv'
  BY <1>3, <1>16, <1>17 DEF ScanWaiting
<1>18. ASSUME NEW o, NEW r \in Requests, ScanGenerating(w, r, o) PROVE FoundInv'
  <2>1. CASE loops' = [loops EXCEPT ![w].pc = "health", ![w].todo = {}, ![w].found = {}]
    <3>1. loops'[w].found = {} /\ \A v \in Workers \ {w} : loops'[v] = loops[v]
      BY <1>0, <2>1 DEF LoopType
    <3> QED
      BY <1>1, <3>1
  <2> QED
    BY <1>16, <1>18, <2>1 DEF ScanGenerating
<1> QED
  BY <1>5, <1>6, <1>7, <1>8, <1>9, <1>10, <1>11, <1>12, <1>13, <1>14, <1>15, <1>17, <1>18
     DEF LoopStep

LEMMA FoundStep == TypeOK /\ FoundInv /\ [Next]_vars => FoundInv'
<1> SUFFICES ASSUME TypeOK, FoundInv, Next \/ UNCHANGED vars PROVE FoundInv'
  OBVIOUS
<1>1. ASSUME UNCHANGED loops PROVE FoundInv'
  BY <1>1 DEF FoundInv
<1>2. ASSUME NEW h \in Handlers, HandlerStep(h) PROVE FoundInv'
  <2>1. UNCHANGED loops
    BY <1>2 DEF HandlerStep, ReadState, ReadHeader, Decide, WriteState, StartGeneration,
       Respond
  <2> QED
    BY <1>1, <2>1
<1>3. ASSUME NEW t \in Tasks, TaskStep(t) PROVE FoundInv'
  <2>1. UNCHANGED loops
    BY <1>3 DEF TaskStep, Generate, Store, Extend, ReleaseGenLock
  <2> QED
    BY <1>1, <2>1
<1>4. CASE Environment
  <2>1. ASSUME NEW w \in Workers, Start(w) PROVE FoundInv'
    <3>1. /\ loops[w].pc = "down" /\ loops'[w].found = loops[w].found
          /\ \A v \in Workers \ {w} : loops'[v] = loops[v]
      BY <2>1 DEF Start, Up, TypeOK, LoopType
    <3>2. loops'[w].found = {}
      BY <3>1 DEF FoundInv
    <3> QED
      BY <3>1, <3>2, FoundKept
  <2>2. ASSUME NEW w \in Workers, Crash(w) PROVE FoundInv'
    BY <2>2, ExitFound DEF Crash
  <2> QED
    BY <1>1, <1>4, <2>1, <2>2 DEF Environment, Finalize, ExpireGlobalLock, Disconnect,
       ExpireGenLock, ExpireProofState
<1>5. ASSUME NEW h \in Handlers, NEW r, NEW o, RequestProof(h, r, o) PROVE FoundInv'
  BY <1>1, <1>5 DEF RequestProof
<1>6. CASE UNCHANGED vars
  BY <1>1, <1>6 DEF vars
<1> QED
  BY <1>2, <1>3, <1>4, <1>5, <1>6, LoopFound DEF Next

LEMMA InitGate == Init => FoundInv /\ Gate!Init
<1> SUFFICES ASSUME Init PROVE FoundInv /\ Gate!Init
  OBVIOUS
<1>1. FoundInv
  BY DEF Init, FoundInv, DownLoop
<1>2. InPipeline = {}
  BY DEF InPipeline, Init, RedisInit, Working, FreeTask, IdleHandler, DownLoop
<1> QED
  BY <1>1, <1>2 DEF Gate!Init, Init, RedisInit

LEMMA StepKeepsGate == TypeOK /\ GateInv /\ FoundInv /\ [Next]_vars => GateStep
<1> SUFFICES ASSUME TypeOK, GateInv, FoundInv, Next \/ UNCHANGED vars PROVE GateStep
  OBVIOUS
<1>1. CASE UNCHANGED vars
  <2>1. InPipeline' = InPipeline
    BY <1>1 DEF vars, redisVars, InPipeline, Working
  <2> QED
    BY <1>1, <2>1 DEF GateStep, Gate!gateVars, vars, redisVars
<1> QED
  BY <1>1, HandlerKeeps, RequestKeeps, LoopKeeps, TaskKeeps, EnvironmentKeepsGate DEF Next

(* Every behaviour of the workers is one of FinalityGate, the safety part: *)
(* whatever crashes, lost replies, lapsed locks and races there are, what  *)
(* clients are told changes only as the gate allows, a verdict included,   *)
(* which only a request that has passed the gate is given                  *)
(* (request_proof, run and generate_and_store_proof together).             *)
THEOREM ServiceKeepsGate == Spec => KeepsGate
<1>1. TypeOK /\ GateInv /\ FoundInv /\ [Next]_vars => [Gate!Next]_(Gate!gateVars)
  BY StepKeepsGate DEF GateStep
<1>2. Spec => []FoundInv
  BY InitGate, FoundStep, TypeCorrect, PTL DEF Spec
<1> QED
  BY <1>1, <1>2, InitGate, GateHolds, TypeCorrect, PTL DEF Spec, KeepsGate, Gate!Steps
=============================================================================
