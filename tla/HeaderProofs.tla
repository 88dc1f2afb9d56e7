---------------------------- MODULE HeaderProofs ----------------------------
(***************************************************************************)
(* The finalized header in Redis with one worker, whatever fails.  With    *)
(* two workers neither theorem holds: see the README.                      *)
(***************************************************************************)
EXTENDS ProofServiceProofs

OneWorker == \A v, w \in Workers : v = w

(* Steps that leave the header and the loops alone.                        *)
LEMMA WriterKept ==
    ASSUME WriterInv, UNCHANGED <<finalizedHeader, loops>>
    PROVE  WriterInv'
BY DEF WriterInv

(* The end of a worker.                                                    *)
LEMMA ExitWriter ==
    ASSUME TypeOK, WriterInv, NEW w \in Workers, Exit(w), UNCHANGED finalizedHeader
    PROVE  WriterInv'
<1>1. DownLoop.pc = "down" /\ DownLoop.advance /\ DownLoop.result = "none"
  BY DEF DownLoop
<1>2. \A v \in Workers : loops'[v] = IF v = w THEN DownLoop ELSE loops[v]
  BY DEF TypeOK, Exit
<1> QED
  BY <1>1, <1>2 DEF WriterInv

LEMMA HandlerKept ==
    ASSUME TypeOK, NEW h \in Handlers,
           HandlerStep(h) \/ \E r \in Requests, o \in Outcomes : RequestProof(h, r, o)
    PROVE  UNCHANGED <<finalizedHeader, loops>>
BY DEF HandlerStep, RequestProof, ReadState, ReadHeader, Decide, WriteState,
   StartGeneration, Respond, ReadOnly, set_proof_state, AcquireAndSpawn,
   acquire_proof_generation_lock, release_global_lock, acquire_global_lock

LEMMA TaskKept ==
    ASSUME TypeOK, NEW t \in Tasks, TaskStep(t)
    PROVE  UNCHANGED <<finalizedHeader, loops>>
BY DEF TaskStep, Generate, Store, Extend, ReleaseGenLock, set_proof_state,
   extend_proof_generation_lock, release_proof_generation_lock, redisVars

LEMMA EnvironmentWriter ==
    ASSUME TypeOK, WriterInv, Environment
    PROVE  WriterInv' /\ UNCHANGED finalizedHeader
<1>1. UNCHANGED finalizedHeader
  BY DEF Environment, Finalize, ExpireGlobalLock, Start, Crash, Disconnect,
     ExpireGenLock, ExpireProofState, global_lock_expires,
     proof_generation_lock_expires, proof_state_expires, redisVars
<1>2. ASSUME NEW w \in Workers, Start(w) PROVE WriterInv'
  <2>1. loops' = [loops EXCEPT ![w].pc = "boot"] /\ loops[w].pc = "down"
    BY <1>2 DEF Start, Up
  <2> QED
    BY <1>1, <2>1 DEF WriterInv, TypeOK, LoopType
<1>3. ASSUME NEW w \in Workers, Crash(w) PROVE WriterInv'
  BY <1>1, <1>3, ExitWriter DEF Crash
<1>4. ASSUME UNCHANGED loops PROVE WriterInv'
  BY <1>1, <1>4, WriterKept
<1> QED
  BY <1>1, <1>2, <1>3, <1>4 DEF Environment, Finalize, ExpireGlobalLock,
     Disconnect, ExpireGenLock, ExpireProofState

(* With one worker it is enough to look at that worker's loop.             *)
LEMMA WriterIntro ==
    ASSUME OneWorker, NEW w \in Workers, NEW pc, NEW lc, NEW result,
           loops'[w].pc = pc, loops'[w].lc = lc, loops'[w].result = result,
           finalizedHeader' < lc => loops'[w].advance,
           pc \in {"down", "boot"} => loops'[w].advance,
           pc \in {"scanWaiting", "commit"} => finalizedHeader' < lc,
           pc = "spawn" \/ result = "processed" => finalizedHeader' >= lc,
           result # "none" => pc = "release"
    PROVE  WriterInv'
<1>1. \A v \in Workers : v = w
  BY DEF OneWorker
<1> QED
  BY <1>1 DEF WriterInv

LEMMA EndUpdateWriter ==
    ASSUME OneWorker, TypeOK, WriterInv, NEW w \in Workers,
           NEW result \in {"failed", "processed", "refused"}, EndUpdate(w, result),
           result = "processed" => finalizedHeader' >= loops[w].lc,
           finalizedHeader' \in Int, finalizedHeader' >= finalizedHeader
    PROVE  WriterInv'
<1>1. /\ loops'[w].pc = "release"
      /\ loops'[w].lc = loops[w].lc
      /\ loops'[w].result = result
      /\ loops'[w].advance = loops[w].advance
  BY DEF EndUpdate, TypeOK, LoopType
<1>2. finalizedHeader' < loops[w].lc => finalizedHeader < loops[w].lc
  BY DEF TypeOK, RedisTypeOK, LoopType, Slots, NoHeader
<1>3. finalizedHeader' < loops[w].lc => loops'[w].advance
  BY <1>1, <1>2 DEF WriterInv
<1> QED
  BY <1>1, <1>3, WriterIntro

LEMMA BeginScanWriter ==
    ASSUME OneWorker, TypeOK, WriterInv, NEW w \in Workers,
           NEW pc \in {"scanWaiting", "scanGenerating"}, BeginScan(w, pc),
           loops[w].pc # "release",
           pc = "scanWaiting" => finalizedHeader < loops[w].lc,
           UNCHANGED finalizedHeader
    PROVE  WriterInv'
<1>1. /\ loops'[w].pc = pc
      /\ loops'[w].lc = loops[w].lc
      /\ loops'[w].result = loops[w].result
      /\ loops'[w].advance = loops[w].advance
  BY DEF BeginScan, TypeOK, LoopType
<1>2. /\ finalizedHeader < loops[w].lc => loops[w].advance
      /\ loops[w].result = "none"
  BY DEF WriterInv
<1> QED
  BY <1>1, <1>2, WriterIntro

(* A step of the loop that moves it on without touching what the invariant *)
(* is about.                                                               *)
LEMMA MoveWriter ==
    ASSUME OneWorker, TypeOK, WriterInv, NEW w \in Workers, NEW pc,
           pc \notin {"down", "boot", "spawn"}, loops[w].pc # "release",
           pc \in {"scanWaiting", "commit"} => finalizedHeader < loops[w].lc,
           loops'[w].pc = pc, loops'[w].lc = loops[w].lc,
           loops'[w].result = loops[w].result,
           loops'[w].advance = loops[w].advance,
           UNCHANGED finalizedHeader
    PROVE  WriterInv'
<1>1. /\ finalizedHeader < loops[w].lc => loops[w].advance
      /\ loops[w].result = "none"
  BY DEF WriterInv
<1> QED
  BY <1>1, WriterIntro

(* Only Commit writes the header, and only after the comparison that no    *)
(* other worker can have made stale.                                       *)
LEMMA CommitWriter ==
    ASSUME OneWorker, TypeOK, WriterInv, NEW w \in Workers, NEW o, Commit(w, o)
    PROVE  WriterInv'
<1>0. loops[w].lc \in Int /\ finalizedHeader \in Int
  BY DEF TypeOK, RedisTypeOK, LoopType, Slots, NoHeader
<1>1. finalizedHeader < loops[w].lc
  BY DEF Commit, WriterInv
<1>2. /\ o = "ok" => finalizedHeader' = loops[w].lc
      /\ finalizedHeader' \in {finalizedHeader, loops[w].lc}
  BY DEF Commit, update_finalized_header_and_proof_states, Executed
<1>3. finalizedHeader' >= finalizedHeader /\ finalizedHeader' \in Int
  BY <1>0, <1>1, <1>2
<1>4. loops[w].result # "processed"
  BY <1>0, <1>1 DEF WriterInv
<1>5. CASE EndUpdate(w, "failed")
  BY <1>3, <1>5, EndUpdateWriter
<1>6. CASE o = "ok" /\ EndUpdate(w, "processed")
  BY <1>0, <1>2, <1>3, <1>6, EndUpdateWriter
<1>7. CASE o = "ok" /\ loops' = [loops EXCEPT ![w].pc = "spawn",
                                   ![w].todo = Ready(w), ![w].found = {}]
  <2>1. /\ loops'[w].pc = "spawn"
        /\ loops'[w].lc = loops[w].lc
        /\ loops'[w].result = "none"
    BY <1>7 DEF Commit, WriterInv, TypeOK, LoopType
  <2>2. finalizedHeader' >= loops[w].lc /\ ~(finalizedHeader' < loops[w].lc)
    BY <1>0, <1>2, <1>7
  <2> QED
    BY <1>3, <2>1, <2>2, WriterIntro
<1> QED
  BY <1>3, <1>5, <1>6, <1>7 DEF Commit

LEMMA LoopReadWriter ==
    ASSUME OneWorker, TypeOK, WriterInv, NEW w \in Workers, NEW o,
           \/ Boot(w, o)
           \/ AcquireForUpdate(w, o)
           \/ ReadStoredHeader(w, o)
           \/ ReleaseAfterUpdate(w, o)
           \/ CheckHeaderHealth(w, o)
           \/ \E r \in Requests : ScanWaiting(w, r, o) \/ ScanGenerating(w, r, o)
    PROVE  WriterInv' /\ UNCHANGED finalizedHeader
<1>0. loops[w].lc \in Int /\ finalizedHeader \in Int
  BY DEF TypeOK, RedisTypeOK, LoopType, Slots, NoHeader
<1>1. UNCHANGED finalizedHeader
  BY DEF Boot, AcquireForUpdate, ReadStoredHeader, ReleaseAfterUpdate,
     CheckHeaderHealth, ScanWaiting, ScanGenerating, ReadOnly,
     acquire_global_lock, release_global_lock
<1>2. CASE Boot(w, o)
  <2>1. CASE o = "ok"
    <3>1. /\ loops'[w].pc = "sync"
          /\ loops'[w].result = loops[w].result
          /\ loops'[w].advance = loops[w].advance
      BY <1>2, <2>1 DEF Boot, TypeOK, LoopType
    <3>2. loops[w].result = "none" /\ loops[w].advance
      BY <1>2 DEF Boot, WriterInv
    <3> QED
      BY <1>1, <3>1, <3>2, WriterIntro
  <2>2. CASE o # "ok"
    BY <1>1, <1>2, <2>2, ExitWriter DEF Boot
  <2> QED
    BY <2>1, <2>2
<1>3. CASE AcquireForUpdate(w, o)
  <2>1. CASE loops' = [loops EXCEPT ![w].pc = "readHeader"]
    <3>1. /\ loops'[w].pc = "readHeader"
          /\ loops'[w].lc = loops[w].lc
          /\ loops'[w].result = loops[w].result
          /\ loops'[w].advance = loops[w].advance
      BY <2>1 DEF TypeOK, LoopType
    <3> QED
      BY <1>1, <1>3, <3>1, MoveWriter DEF AcquireForUpdate
  <2>2. CASE EndUpdate(w, "refused")
    BY <1>0, <1>1, <2>2, EndUpdateWriter
  <2>3. CASE BeginScan(w, "scanGenerating")
    BY <1>1, <1>3, <2>3, BeginScanWriter DEF AcquireForUpdate
  <2> QED
    BY <1>3, <2>1, <2>2, <2>3 DEF AcquireForUpdate
<1>4. CASE ReadStoredHeader(w, o)
  <2>1. CASE EndUpdate(w, "failed")
    BY <1>0, <1>1, <2>1, EndUpdateWriter
  <2>2. CASE finalizedHeader >= loops[w].lc /\ EndUpdate(w, "processed")
    BY <1>0, <1>1, <2>2, EndUpdateWriter
  <2>3. CASE finalizedHeader < loops[w].lc /\ BeginScan(w, "scanWaiting")
    BY <1>1, <1>4, <2>3, BeginScanWriter DEF ReadStoredHeader
  <2> QED
    BY <1>4, <2>1, <2>2, <2>3 DEF ReadStoredHeader
<1>5. CASE ReleaseAfterUpdate(w, o)
  <2> DEFINE advance == loops[w].advance /\ loops[w].result # "processed"
  <2>1. loops' = [loops EXCEPT ![w].pc = "scanGenerating", ![w].todo = Requests,
                               ![w].result = "none", ![w].advance = advance]
    BY <1>5 DEF ReleaseAfterUpdate
  <2>2. finalizedHeader < loops[w].lc => advance
    BY <1>0 DEF WriterInv
  <2> HIDE DEF advance
  <2>3. /\ loops'[w].pc = "scanGenerating"
        /\ loops'[w].lc = loops[w].lc
        /\ loops'[w].result = "none"
        /\ loops'[w].advance = advance
    BY <2>1 DEF TypeOK, LoopType
  <2> QED
    BY <1>1, <2>2, <2>3, WriterIntro
<1>6. CASE CheckHeaderHealth(w, o)
  <2>1. CASE Exit(w)
    BY <1>1, <2>1, ExitWriter
  <2>2. CASE loops' = [loops EXCEPT ![w].pc = "sleep"]
    <3>1. /\ loops'[w].pc = "sleep"
          /\ loops'[w].lc = loops[w].lc
          /\ loops'[w].result = loops[w].result
          /\ loops'[w].advance = loops[w].advance
      BY <2>2 DEF TypeOK, LoopType
    <3>2. /\ finalizedHeader < loops[w].lc => loops[w].advance
          /\ loops[w].result = "none"
      BY <1>6 DEF WriterInv, CheckHeaderHealth
    <3> QED
      BY <1>1, <3>1, <3>2, WriterIntro
  <2> QED
    BY <1>6, <2>1, <2>2 DEF CheckHeaderHealth
<1>7. ASSUME NEW r \in Requests, NEW status, NEW next \in {"commit", "pickUp"},
             ScanNext(w, r, status, next),
             loops[w].pc = IF next = "commit" THEN "scanWaiting" ELSE "scanGenerating"
      PROVE  WriterInv'
  <2>1. /\ loops'[w].pc \in {next, loops[w].pc}
        /\ loops'[w].lc = loops[w].lc
        /\ loops'[w].result = loops[w].result
        /\ loops'[w].advance = loops[w].advance
    BY <1>7 DEF ScanNext, TypeOK, LoopType
  <2>2. next = "commit" => finalizedHeader < loops[w].lc
    BY <1>7 DEF WriterInv
  <2> QED
    BY <1>1, <1>7, <2>1, <2>2, MoveWriter
<1>8. ASSUME NEW r \in Requests, ScanWaiting(w, r, o) PROVE WriterInv'
  BY <1>0, <1>1, <1>7, <1>8, EndUpdateWriter DEF ScanWaiting
<1>9. ASSUME NEW r \in Requests, ScanGenerating(w, r, o) PROVE WriterInv'
  <2>1. CASE o = "ok"
    BY <1>7, <1>9, <2>1 DEF ScanGenerating
  <2>2. CASE o # "ok"
    <3>1. /\ loops'[w].pc = "health"
          /\ loops'[w].lc = loops[w].lc
          /\ loops'[w].result = loops[w].result
          /\ loops'[w].advance = loops[w].advance
      BY <1>9, <2>2 DEF ScanGenerating, TypeOK, LoopType
    <3> QED
      BY <1>1, <1>9, <3>1, MoveWriter DEF ScanGenerating
  <2> QED
    BY <2>1, <2>2
<1> QED
  BY <1>1, <1>2, <1>3, <1>4, <1>5, <1>6, <1>8, <1>9
LEMMA LoopMoveWriter ==
    ASSUME OneWorker, TypeOK, WriterInv, NEW w \in Workers, NEW o,
           \/ Sync(w)
           \/ NothingToPickUp(w)
           \/ \E s \in Slots : AdvanceTo(w, s)
           \/ \E r \in Requests : SpawnReleased(w, r, o) \/ PickUp(w, r, o)
    PROVE  WriterInv' /\ UNCHANGED finalizedHeader
<1>0. loops[w].lc \in Int /\ finalizedHeader \in Int
  BY DEF TypeOK, RedisTypeOK, LoopType, Slots, NoHeader
<1>1. UNCHANGED finalizedHeader
  BY DEF Sync, NothingToPickUp, AdvanceTo, SpawnReleased, PickUp, redisVars,
     AcquireAndSpawn, acquire_proof_generation_lock
<1>2. CASE Sync(w)
  <2>0. PICK s : loops' = [loops EXCEPT ![w].pc = "update", ![w].lc = s,
                                         ![w].advance = TRUE]
    BY <1>2 DEF Sync
  <2>1. /\ loops'[w].pc = "update"
        /\ loops'[w].result = loops[w].result
        /\ loops'[w].advance
    BY <2>0 DEF TypeOK, LoopType
  <2>2. loops[w].result = "none"
    BY <1>2 DEF Sync, WriterInv
  <2> QED
    BY <1>1, <2>1, <2>2, WriterIntro
<1>3. CASE NothingToPickUp(w)
  <2>1. /\ loops[w].pc = "pickUp"
        /\ loops'[w].pc = "health"
        /\ loops'[w].lc = loops[w].lc
        /\ loops'[w].result = loops[w].result
        /\ loops'[w].advance = loops[w].advance
    BY <1>3 DEF NothingToPickUp, TypeOK, LoopType
  <2> QED
    BY <1>1, <2>1, MoveWriter
<1>4. ASSUME NEW s \in Slots, AdvanceTo(w, s) PROVE WriterInv'
  <2> DEFINE advance == loops[w].advance \/ s > loops[w].lc
  <2>1. /\ loops'[w].pc \in {"update", "scanGenerating"}
        /\ loops'[w].lc = s
        /\ loops'[w].result = loops[w].result
        /\ loops'[w].advance = advance
    BY <1>4 DEF AdvanceTo, TypeOK, LoopType
  <2>2. finalizedHeader < s => advance
    BY <1>0 DEF WriterInv, Slots
  <2>3. loops[w].result = "none"
    BY <1>4 DEF AdvanceTo, WriterInv
  <2> HIDE DEF advance
  <2> QED
    BY <1>1, <2>1, <2>2, <2>3, WriterIntro
<1>5. ASSUME NEW r \in Requests, SpawnReleased(w, r, o) PROVE WriterInv'
  <2>1. finalizedHeader >= loops[w].lc /\ loops[w].result = "none"
    BY <1>5 DEF SpawnReleased, WriterInv
  <2>2. CASE EndUpdate(w, "processed")
    BY <1>0, <1>1, <2>1, <2>2, EndUpdateWriter
  <2>3. CASE loops' = [loops EXCEPT ![w].todo = @ \ {r}]
    <3>1. /\ loops'[w].pc = "spawn"
          /\ loops'[w].lc = loops[w].lc
          /\ loops'[w].result = "none"
      BY <1>5, <2>1, <2>3 DEF SpawnReleased, TypeOK, LoopType
    <3>2. ~(finalizedHeader' < loops[w].lc)
      BY <1>0, <1>1, <2>1
    <3> QED
      BY <1>1, <2>1, <3>1, <3>2, WriterIntro
  <2> QED
    BY <1>5, <2>2, <2>3 DEF SpawnReleased
<1>6. ASSUME NEW r \in Requests, PickUp(w, r, o) PROVE WriterInv'
  <2>1. /\ loops[w].pc = "pickUp"
        /\ loops'[w].pc = "pickUp"
        /\ loops'[w].lc = loops[w].lc
        /\ loops'[w].result = loops[w].result
        /\ loops'[w].advance = loops[w].advance
    BY <1>6 DEF PickUp, TypeOK, LoopType
  <2> QED
    BY <1>1, <2>1, MoveWriter
<1> QED
  BY <1>1, <1>2, <1>3, <1>4, <1>5, <1>6

LEMMA WriterStep ==
    ASSUME OneWorker, TypeOK, WriterInv, Next
    PROVE  WriterInv'
<1>1. CASE UNCHANGED <<finalizedHeader, loops>>
  BY <1>1, WriterKept
<1>2. CASE Environment
  BY <1>2, EnvironmentWriter
<1>3. ASSUME NEW w \in Workers, LoopStep(w)
      PROVE  WriterInv'
  <2>1. ASSUME NEW o, Commit(w, o)
        PROVE  WriterInv'
    BY <2>1, CommitWriter
  <2> QED
    BY <1>3, <2>1, LoopReadWriter, LoopMoveWriter DEF LoopStep
<1> QED
  BY <1>1, <1>2, <1>3, HandlerKept, TaskKept DEF Next

LEMMA InitWriter == Init => WriterInv
BY SlotsAssumption DEF Init, RedisInit, WriterInv, DownLoop, NoHeader, Slots

LEMMA WriterHolds ==
    ASSUME OneWorker
    PROVE  Spec => []WriterInv
<1>1. TypeOK /\ WriterInv /\ [Next]_vars => WriterInv'
  BY WriterStep, WriterKept DEF vars, redisVars
<1> QED
  BY <1>1, InitWriter, TypeCorrect, PTL DEF Spec

(* With one worker a header the loop has done with is in Redis.            *)
THEOREM ProcessedIsStored ==
    ASSUME OneWorker
    PROVE  Spec => []ProcessedHeaderStored
<1>1. TypeOK /\ WriterInv => ProcessedHeaderStored
  BY DEF TypeOK, RedisTypeOK, LoopType, Slots, NoHeader, WriterInv,
     ProcessedHeaderStored
<1> QED
  BY <1>1, WriterHolds, TypeCorrect, PTL

-----------------------------------------------------------------------------
(* The refinement of Follower: each step of the one worker is one of its   *)
(* light client's, or none.                                                *)

LEMMA OneClient ==
    ASSUME OneWorker, NEW w \in Workers
    PROVE  w = AnyWorker
BY DEF OneWorker, AnyWorker

LEMMA InitFollower == Init => Client!Init
<1> SUFFICES ASSUME Init PROVE Client!Init
  OBVIOUS
<1>1. finalizedHead = InitSlot /\ finalizedHeader = NoHeader
  BY DEF Init, RedisInit
<1>2. AnyWorker \in Workers
  BY NonEmptyAssumption DEF AnyWorker
<1>3. loops[AnyWorker].pc = "down"
  BY <1>2 DEF Init, DownLoop
<1> QED
  BY <1>1, <1>3, SlotsAssumption DEF Client!Init, ClientSlot, Checkpoint, Slots

(* Steps after which the client stands where it stood.                     *)
LEMMA StandsStill ==
    ASSUME UNCHANGED <<finalizedHeader, finalizedHead>>,
           UNCHANGED ClientSlot(AnyWorker)
    PROVE  UNCHANGED Client!followerVars
BY DEF Client!followerVars

LEMMA LoopsKept ==
    ASSUME UNCHANGED <<finalizedHeader, finalizedHead, loops>>
    PROVE  UNCHANGED Client!followerVars
BY StandsStill DEF ClientSlot, Checkpoint

LEMMA ExitFollower ==
    ASSUME OneWorker, TypeOK, NEW w \in Workers, Exit(w),
           UNCHANGED <<finalizedHeader, finalizedHead>>
    PROVE  Client!Restart
<1>1. loops'[AnyWorker].pc = "down"
  BY OneClient DEF Exit, DownLoop, TypeOK
<1>2. ClientSlot(AnyWorker)' = Checkpoint
  BY <1>1 DEF ClientSlot, Checkpoint
<1> QED
  BY <1>2 DEF Client!Restart, Checkpoint

LEMMA EnvironmentFollower ==
    ASSUME OneWorker, TypeOK, Environment
    PROVE  [Client!Next]_Client!followerVars
<1>1. UNCHANGED finalizedHeader
  BY DEF Environment, Finalize, ExpireGlobalLock, Start, Crash, Disconnect,
     ExpireGenLock, ExpireProofState, global_lock_expires,
     proof_generation_lock_expires, proof_state_expires, redisVars
<1>2. CASE Finalize
  <2>1. UNCHANGED ClientSlot(AnyWorker) /\ finalizedHead' > finalizedHead
    BY <1>1, <1>2 DEF Finalize, ClientSlot, Checkpoint, TypeOK, Slots
  <2> QED
    BY <1>1, <2>1 DEF Client!Next, Client!Finalize
<1>3. ASSUME NEW w \in Workers, Start(w) PROVE UNCHANGED Client!followerVars
  <2>1. loops[AnyWorker].pc = "down" /\ loops'[AnyWorker].pc = "boot"
    BY <1>3, OneClient DEF Start, Up, TypeOK, LoopType
  <2> QED
    BY <1>1, <1>3, <2>1, StandsStill DEF Start, ClientSlot, Checkpoint
<1>4. ASSUME NEW w \in Workers, Crash(w) PROVE Client!Next
  BY <1>1, <1>4, ExitFollower DEF Crash, Client!Next
<1>5. CASE UNCHANGED <<finalizedHead, loops>>
  BY <1>1, <1>5, LoopsKept
<1> QED
  BY <1>2, <1>3, <1>4, <1>5 DEF Environment, ExpireGlobalLock, Disconnect,
     ExpireGenLock, ExpireProofState

(* Within an update the client does not move, and only Commit saves.       *)
LEMMA CommitFollower ==
    ASSUME OneWorker, TypeOK, WriterInv, NEW w \in Workers, NEW o, Commit(w, o)
    PROVE  [Client!Next]_Client!followerVars
<1>1. w = AnyWorker /\ loops[w].pc = "commit"
  BY OneClient DEF Commit
<1>2. loops'[w].pc \notin {"down", "boot"} /\ loops'[w].lc = loops[w].lc
  BY DEF Commit, EndUpdate, TypeOK, LoopType
<1>3. ClientSlot(AnyWorker) = loops[w].lc /\ UNCHANGED ClientSlot(AnyWorker)
  BY <1>1, <1>2 DEF ClientSlot
<1>4. finalizedHeader < loops[w].lc /\ finalizedHeader \in Int /\ loops[w].lc \in Int
  BY <1>1 DEF WriterInv, TypeOK, RedisTypeOK, LoopType, Slots, NoHeader
<1>5. finalizedHeader' \in {finalizedHeader, loops[w].lc} /\ UNCHANGED finalizedHead
  BY DEF Commit, update_finalized_header_and_proof_states, Executed
<1>6. CASE finalizedHeader' = finalizedHeader
  BY <1>3, <1>5, <1>6, StandsStill
<1>7. CASE finalizedHeader' = loops[w].lc
  <2>1. ClientSlot(AnyWorker) > finalizedHeader
    BY <1>3, <1>4
  <2> QED
    BY <1>3, <1>5, <1>7, <2>1 DEF Client!Next, Client!Save
<1> QED
  BY <1>5, <1>6, <1>7

(* The steps that move the client: to its checkpoint, which is where it    *)
(* stood, or forward to a slot its RPCs have.                              *)
LEMMA ClientMoves ==
    ASSUME OneWorker, TypeOK, NEW w \in Workers, NEW o,
           Boot(w, o) \/ Sync(w) \/ \E s \in Slots : AdvanceTo(w, s)
    PROVE  [Client!Next]_Client!followerVars
<1>0. w = AnyWorker
  BY OneClient
<1>1. UNCHANGED <<finalizedHeader, finalizedHead>>
  BY DEF Boot, Sync, AdvanceTo, ReadOnly, redisVars
<1>2. CASE Boot(w, o)
  <2>1. CASE o = "ok"
    <3>1. /\ loops[w].pc = "boot"
          /\ loops'[w].pc = "sync"
          /\ loops'[w].lc = Checkpoint
      BY <1>2, <2>1 DEF Boot, TypeOK, LoopType
    <3> QED
      BY <1>0, <1>1, <3>1, StandsStill DEF ClientSlot
  <2>2. CASE o # "ok"
    BY <1>1, <1>2, <2>2, ExitFollower DEF Boot, Client!Next
  <2> QED
    BY <2>1, <2>2
<1>3. ASSUME NEW s \in loops[w].lc .. finalizedHead,
             loops[w].pc \notin {"down", "boot"},
             loops'[w].pc \notin {"down", "boot"}, loops'[w].lc = s
      PROVE  Client!Next
  BY <1>0, <1>1, <1>3 DEF ClientSlot, Client!Next, Client!Advance
<1>4. CASE Sync(w)
  <2>1. PICK s \in loops[w].lc .. finalizedHead :
               loops' = [loops EXCEPT ![w].pc = "update", ![w].lc = s,
                                      ![w].advance = TRUE]
    BY <1>4 DEF Sync
  <2>2. loops \in [Workers -> LoopType]
    BY DEF TypeOK
  <2>3. loops'[w].pc = "update" /\ loops'[w].lc = s
    BY <2>1, <2>2 DEF LoopType
  <2> QED
    BY <1>3, <1>4, <2>3 DEF Sync
<1>5. ASSUME NEW s \in Slots, AdvanceTo(w, s) PROVE Client!Next
  <2> DEFINE advance == loops[w].advance \/ s > loops[w].lc
             pc == IF advance THEN "update" ELSE "scanGenerating"
             todo == IF advance THEN {} ELSE Requests
  <2>0. /\ loops' = [loops EXCEPT ![w].lc = s, ![w].advance = advance,
                                   ![w].pc = pc, ![w].todo = todo]
        /\ pc \in {"update", "scanGenerating"}
    BY <1>5 DEF AdvanceTo
  <2> HIDE DEF advance, pc, todo
  <2>1. loops'[w].pc \in {"update", "scanGenerating"} /\ loops'[w].lc = s
    BY <2>0 DEF TypeOK, LoopType
  <2>2. s \in loops[w].lc .. finalizedHead /\ loops[w].pc = "sleep"
    BY <1>5 DEF AdvanceTo
  <2> QED
    BY <1>3, <2>1, <2>2
<1> QED
  BY <1>2, <1>4, <1>5

(* The others leave it where it stands.                                    *)
LEMMA ClientRests ==
    ASSUME OneWorker, TypeOK, NEW w \in Workers, NEW o,
           \/ AcquireForUpdate(w, o)
           \/ ReadStoredHeader(w, o)
           \/ ReleaseAfterUpdate(w, o)
           \/ NothingToPickUp(w)
           \/ \E r \in Requests : ScanWaiting(w, r, o) \/ ScanGenerating(w, r, o)
           \/ \E r \in Requests : SpawnReleased(w, r, o) \/ PickUp(w, r, o)
    PROVE  UNCHANGED Client!followerVars
<1>0. w = AnyWorker
  BY OneClient
<1>1. UNCHANGED <<finalizedHeader, finalizedHead>>
  BY DEF AcquireForUpdate, ReadStoredHeader, ReleaseAfterUpdate, NothingToPickUp,
     ScanWaiting, ScanGenerating, SpawnReleased, PickUp, ReadOnly, redisVars,
     acquire_global_lock, release_global_lock, AcquireAndSpawn,
     acquire_proof_generation_lock
<1> DEFINE Rests == /\ loops[w].pc \notin {"down", "boot"}
                    /\ loops'[w].pc \notin {"down", "boot"}
                    /\ loops'[w].lc = loops[w].lc
<1>2. Rests
  <2>1. CASE AcquireForUpdate(w, o)
    BY <2>1 DEF AcquireForUpdate, BeginScan, EndUpdate, TypeOK, LoopType
  <2>2. CASE ReadStoredHeader(w, o)
    BY <2>2 DEF ReadStoredHeader, BeginScan, EndUpdate, TypeOK, LoopType
  <2>3. CASE ReleaseAfterUpdate(w, o)
    BY <2>3 DEF ReleaseAfterUpdate, TypeOK, LoopType
  <2>4. CASE NothingToPickUp(w)
    BY <2>4 DEF NothingToPickUp, TypeOK, LoopType
  <2>0. ASSUME NEW r \in Requests, NEW status, NEW next \in {"commit", "pickUp"},
               ScanNext(w, r, status, next),
               loops[w].pc \in {"scanWaiting", "scanGenerating"}
        PROVE  Rests
    <3>1. loops'[w].pc \in {next, loops[w].pc} /\ loops'[w].lc = loops[w].lc
      BY <2>0 DEF ScanNext, TypeOK, LoopType
    <3> QED
      BY <2>0, <3>1
  <2>5. ASSUME NEW r \in Requests, ScanWaiting(w, r, o) PROVE Rests
    <3>1. CASE EndUpdate(w, "failed")
      BY <2>5, <3>1 DEF ScanWaiting, EndUpdate, TypeOK, LoopType
    <3> QED
      BY <2>0, <2>5, <3>1 DEF ScanWaiting
  <2>6. ASSUME NEW r \in Requests, ScanGenerating(w, r, o) PROVE Rests
    <3>1. CASE o = "ok"
      BY <2>0, <2>6, <3>1 DEF ScanGenerating
    <3>2. CASE o # "ok"
      BY <2>6, <3>2 DEF ScanGenerating, TypeOK, LoopType
    <3> QED
      BY <3>1, <3>2
  <2>7. ASSUME NEW r \in Requests, SpawnReleased(w, r, o) PROVE Rests
    BY <2>7 DEF SpawnReleased, EndUpdate, TypeOK, LoopType
  <2>8. ASSUME NEW r \in Requests, PickUp(w, r, o) PROVE Rests
    BY <2>8 DEF PickUp, TypeOK, LoopType
  <2> QED
    BY <2>1, <2>2, <2>3, <2>4, <2>5, <2>6, <2>7, <2>8
<1>3. UNCHANGED ClientSlot(AnyWorker)
  BY <1>0, <1>2 DEF ClientSlot
<1> QED
  BY <1>1, <1>3, StandsStill

LEMMA HealthFollower ==
    ASSUME OneWorker, TypeOK, NEW w \in Workers, NEW o, CheckHeaderHealth(w, o)
    PROVE  [Client!Next]_Client!followerVars
<1>1. UNCHANGED <<finalizedHeader, finalizedHead>>
  BY DEF CheckHeaderHealth, ReadOnly
<1>2. CASE Exit(w)
  BY <1>1, <1>2, ExitFollower DEF Client!Next
<1>3. CASE loops' = [loops EXCEPT ![w].pc = "sleep"]
  <2>1. /\ loops[w].pc = "health"
        /\ loops'[w].pc = "sleep"
        /\ loops'[w].lc = loops[w].lc
    BY <1>3 DEF CheckHeaderHealth, TypeOK, LoopType
  <2> QED
    BY <1>1, <2>1, OneClient, StandsStill DEF ClientSlot
<1> QED
  BY <1>2, <1>3 DEF CheckHeaderHealth

LEMMA FollowerStep ==
    ASSUME OneWorker, TypeOK, WriterInv, [Next]_vars
    PROVE  [Client!Next]_Client!followerVars
<1>1. CASE UNCHANGED vars
  BY <1>1, LoopsKept DEF vars, redisVars
<1>2. CASE Environment
  BY <1>2, EnvironmentFollower
<1>3. ASSUME NEW h \in Handlers,
             HandlerStep(h) \/ \E r \in Requests, o \in Outcomes : RequestProof(h, r, o)
      PROVE  UNCHANGED Client!followerVars
  <2>1. UNCHANGED finalizedHead
    BY <1>3 DEF HandlerStep, RequestProof, ReadState, ReadHeader, Decide, WriteState,
       StartGeneration, Respond
  <2> QED
    BY <1>3, <2>1, HandlerKept, LoopsKept
<1>4. ASSUME NEW t \in Tasks, TaskStep(t) PROVE UNCHANGED Client!followerVars
  <2>1. UNCHANGED finalizedHead
    BY <1>4 DEF TaskStep, Generate, Store, Extend, ReleaseGenLock
  <2> QED
    BY <1>4, <2>1, TaskKept, LoopsKept
<1>5. ASSUME NEW w \in Workers, LoopStep(w)
      PROVE  [Client!Next]_Client!followerVars
  BY <1>5, CommitFollower, ClientMoves, ClientRests, HealthFollower DEF LoopStep
<1> QED
  BY <1>1, <1>2, <1>3, <1>4, <1>5 DEF Next

(* A worker alone with Redis implements the abstract light client: no      *)
(* failed command, lost lock or restart makes the header in Redis anything *)
(* but a header its client had, newer than the last.                       *)
THEOREM WorkerFollows ==
    ASSUME OneWorker
    PROVE  Spec => ImplementsFollower
<1>1. TypeOK /\ WriterInv /\ [Next]_vars => [Client!Next]_Client!followerVars
  BY FollowerStep
<1> QED
  BY <1>1, InitFollower, WriterHolds, TypeCorrect, PTL
     DEF Spec, ImplementsFollower, Client!Spec
=============================================================================
