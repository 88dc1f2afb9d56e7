--------------------------- MODULE LightClientProofs ---------------------------
(***************************************************************************)
(* The worker's light client, for any number of RPCs, any constants of the *)
(* chain and any lag: it is well typed, it implements Follower, and as     *)
(* long as one RPC is prompt the header it keeps stays fresh.  The last is *)
(* most of the module: what prompt answers hold, what a call makes of      *)
(* them, and which store wins, for each step of an operation.              *)
(***************************************************************************)
EXTENDS LightClient, ConsensusClientProofs

LEMMA InitNowType == InitNow \in Nat /\ InitSlot \in Nat /\ InitNow <= MaxNow
BY LightClientAssumption

LEMMA InitInv == Init => TypeOK /\ FollowInv
<1> SUFFICES ASSUME Init PROVE TypeOK /\ FollowInv
  OBVIOUS
<1>1. now = InitNow /\ now \in 0 .. MaxNow /\ MaxLapses \in Nat
  BY InitNowType, ClientAssumption DEF Init
<1>2. store \in Store /\ store.slot = 0
  BY DEF Init, Store
<1>3. Finalized(now - 1) \in Nat /\ InitSlot <= Finalized(now - 1)
  BY <1>1, FinalizedType, LightClientAssumption
<1>4. ASSUME NEW r \in Rpcs
      PROVE  /\ calls[r] \in CallType /\ calls[r].pc = "idle"
             /\ TraceInv(calls[r]) /\ BoundsInv(calls[r])
  <2>1. calls[r] = IdleCall
    BY DEF Init, NoCalls
  <2> QED
    BY <2>1, IdleOK DEF CallOK, IdleCall
<1>5. calls \in [Rpcs -> CallType]
  BY <1>4 DEF Init, NoCalls
<1>6. ClientTypeOK
  BY <1>1, <1>2, <1>4, <1>5 DEF ClientTypeOK, Init
<1>7. ClientInv /\ Idle
  BY <1>2, <1>3, <1>4 DEF ClientInv, Idle
<1> QED
  BY <1>1, <1>3, <1>6, <1>7, InitNowType DEF TypeOK, FollowInv, Init, LoopPC, NoHeader

(* The slot a process starts from is a finalized one.                      *)
LEMMA CheckpointType ==
    ASSUME TypeOK, FollowInv
    PROVE  Checkpoint \in Nat /\ Checkpoint <= Finalized(now - 1)
<1>1. Finalized(now - 1) \in Nat
  BY FinalizedType DEF TypeOK, ClientTypeOK
<1> QED
  BY <1>1, InitNowType DEF TypeOK, FollowInv, Checkpoint, NoHeader

(* A step keeps the invariant and is a step of Follower, or none.          *)
Follows ==
    /\ TypeOK' /\ FollowInv'
    /\ [Client!Next]_Client!followerVars

(* Steps that leave the chain, the client and the stored header alone.     *)
LEMMA StandsStill ==
    ASSUME TypeOK', FollowInv', UNCHANGED <<now, stored>>, ClientSlot' = ClientSlot
    PROVE  Follows
BY DEF Follows, Client!followerVars

LEMMA BootFollows ==
    ASSUME TypeOK, FollowInv, Boot
    PROVE  Follows
<1>1. Checkpoint \in Nat /\ Checkpoint <= Finalized(now - 1)
  BY CheckpointType
<1>2. Idle /\ loop = "boot" /\ loop' = "bootstrapped"
      /\ UNCHANGED <<now, calls, stored, polled>>
  BY DEF Boot, FollowInv, Bootstrap
<1>3. ClientTypeOK' /\ ClientInv'
  BY <1>1, <1>2, BootstrapInv DEF Boot, TypeOK, FollowInv
<1>4. ClientSlot' = ClientSlot
  BY <1>2 DEF Boot, Bootstrap, ClientSlot
<1>5. TypeOK' /\ FollowInv'
  BY <1>2, <1>3 DEF TypeOK, FollowInv, LoopPC, Idle
<1> QED
  BY <1>2, <1>4, <1>5, StandsStill

LEMMA RestsFollow ==
    ASSUME TypeOK, FollowInv, FailBoot \/ Restart
    PROVE  Follows
<1>1. UNCHANGED <<clientVars, stored, polled>>
      /\ loop \in {"boot", "down"} /\ loop' \in {"boot", "down"}
  BY DEF FailBoot, Restart
<1>2. TypeOK' /\ FollowInv'
  BY <1>1 DEF TypeOK, FollowInv, LoopPC, Idle, clientVars, ClientTypeOK, ClientInv,
     TraceInv, BoundsInv, Contiguous
<1>3. ClientSlot' = ClientSlot
  BY <1>1 DEF ClientSlot, Checkpoint
<1> QED
  BY <1>1, <1>2, <1>3, StandsStill DEF clientVars

LEMMA BeginFollows ==
    ASSUME TypeOK, FollowInv, StartSync \/ Poll
    PROVE  Follows
<1>1. /\ UNCHANGED <<now, store, stored>> /\ polled' = now
      /\ loop \in {"bootstrapped", "sleep"} /\ loop' \in {"sync", "advance"}
  BY DEF StartSync, Poll, BeginSync, BeginAdvance, Begin
<1>2. ClientTypeOK' /\ ClientInv'
  BY BeginInv DEF StartSync, Poll, BeginSync, BeginAdvance, TypeOK, FollowInv
<1>3. TypeOK' /\ FollowInv'
  BY <1>1, <1>2 DEF TypeOK, FollowInv, LoopPC, ClientTypeOK
<1>4. ClientSlot' = ClientSlot
  BY <1>1 DEF ClientSlot
<1> QED
  BY <1>1, <1>3, <1>4, StandsStill

(* The client takes a store, or the one it has stays.                      *)
LEMMA AdoptFollows ==
    ASSUME TypeOK, FollowInv, loop \in {"sync", "advance"}, NEW r \in Rpcs, Adopt(r),
           loop' = "save", UNCHANGED <<stored, polled>>
    PROVE  Follows
<1>1. /\ ClientTypeOK' /\ ClientInv' /\ Idle' /\ now' = now
      /\ store'.slot \in store.slot .. Finalized(now - 1)
  BY AdoptInv DEF TypeOK, FollowInv, Adopt
<1>2. TypeOK' /\ FollowInv'
  BY <1>1 DEF TypeOK, FollowInv, LoopPC
<1>3. ClientSlot = store.slot /\ ClientSlot' = store'.slot
  BY DEF ClientSlot
<1>4. Client!Advance
  BY <1>1, <1>3 DEF Client!Advance
<1> QED
  BY <1>2, <1>4 DEF Follows, Client!Next

LEMMA GiveUpFollows ==
    ASSUME TypeOK, FollowInv, GiveUp, UNCHANGED <<stored, polled>>,
           \/ loop = "sync" /\ loop' = "boot"
           \/ loop = "advance" /\ loop' = "save"
    PROVE  Follows
<1>1. ClientTypeOK' /\ ClientInv' /\ Idle' /\ UNCHANGED <<now, store>>
  BY GiveUpInv DEF TypeOK, FollowInv, GiveUp
<1>2. TypeOK' /\ FollowInv'
  BY <1>1 DEF TypeOK, FollowInv, LoopPC
<1>3. CASE loop' = "boot"
  <2>1. ClientSlot' = Checkpoint
    BY <1>3 DEF ClientSlot, Checkpoint
  <2>2. Client!Restart
    BY <1>1, <2>1 DEF Client!Restart, Checkpoint
  <2> QED
    BY <1>2, <2>2 DEF Follows, Client!Next
<1>4. CASE loop' = "save"
  <2>1. ClientSlot' = ClientSlot
    BY <1>1, <1>4 DEF ClientSlot
  <2> QED
    BY <1>1, <1>2, <2>1, StandsStill
<1> QED
  BY <1>3, <1>4

LEMMA SaveFollows ==
    ASSUME TypeOK, FollowInv, Save
    PROVE  Follows
<1>1. UNCHANGED <<clientVars, now, store, polled>> /\ loop = "save" /\ loop' = "health"
  BY DEF Save, clientVars
<1>2. ClientTypeOK' /\ ClientInv' /\ Idle'
  BY <1>1 DEF TypeOK, FollowInv, Idle, clientVars, ClientTypeOK, ClientInv,
     TraceInv, BoundsInv, Contiguous
<1>3. store.slot \in Nat /\ store.slot <= Finalized(now - 1) /\ Finalized(now - 1) \in Nat
  BY FinalizedType DEF TypeOK, ClientTypeOK, FollowInv, ClientInv, Store
<1>4. stored' \in {stored, store.slot}
  BY DEF Save
<1>5. TypeOK' /\ FollowInv'
  BY <1>1, <1>2, <1>3, <1>4 DEF TypeOK, FollowInv, LoopPC, NoHeader
<1>6. ClientSlot = store.slot /\ ClientSlot' = store.slot
  BY <1>1 DEF ClientSlot
<1>7. CASE store.slot > stored
  <2>1. Client!Save
    BY <1>1, <1>6, <1>7 DEF Client!Save, Save
  <2> QED
    BY <1>5, <2>1 DEF Follows, Client!Next
<1>8. CASE ~ (store.slot > stored)
  <2>1. UNCHANGED stored
    BY <1>8 DEF Save
  <2> QED
    BY <1>1, <1>5, <1>6, <2>1, StandsStill
<1> QED
  BY <1>7, <1>8

(* The end of the process, on its own account or from outside.             *)
LEMMA EndFollows ==
    ASSUME TypeOK, FollowInv, Health \/ Crash
    PROVE  Follows
<1>1. /\ UNCHANGED <<now, prompt, store, calls, stored, polled>>
      /\ loop \in {"health", "sleep"} /\ loop' \in {"boot", "sleep"}
      /\ lapses' \in 0 .. MaxLapses
  BY ClientAssumption DEF Health, Crash, clientVars, TypeOK, ClientTypeOK
<1>2. TypeOK' /\ FollowInv'
  BY <1>1 DEF TypeOK, FollowInv, LoopPC, Idle, ClientTypeOK, ClientInv, TraceInv,
     BoundsInv, Contiguous
<1>3. CASE loop' = "boot"
  <2>1. ClientSlot' = Checkpoint
    BY <1>1, <1>3 DEF ClientSlot, Checkpoint
  <2>2. Client!Restart
    BY <1>1, <2>1 DEF Client!Restart, Checkpoint
  <2> QED
    BY <1>2, <2>2 DEF Follows, Client!Next
<1>4. CASE loop' = "sleep"
  <2>1. ClientSlot' = ClientSlot
    BY <1>1, <1>4 DEF ClientSlot
  <2> QED
    BY <1>1, <1>2, <2>1, StandsStill
<1> QED
  BY <1>1, <1>3, <1>4

LEMMA CallsFollow ==
    ASSUME TypeOK, FollowInv, Calls
    PROVE  Follows
<1>1. ClientTypeOK' /\ ClientInv'
  BY OutageInv, CallStepInv DEF Calls, TypeOK, FollowInv
<1>2. UNCHANGED <<now, store, loop, stored, polled>>
  BY DEF Calls, Outage, CallStep, FailCall, FetchUpdates, VerifyUpdate, SyncFinality,
     AdvanceFinality, AdvanceCommittee
<1>3. ~ Idle
  BY DEF Calls, Outage, CallStep, FailCall, FetchUpdates, VerifyUpdate, SyncFinality,
     AdvanceFinality, AdvanceCommittee, Running, Idle
<1>4. TypeOK' /\ FollowInv'
  BY <1>1, <1>2, <1>3 DEF TypeOK, FollowInv
<1>5. ClientSlot' = ClientSlot
  BY <1>2 DEF ClientSlot, Checkpoint
<1> QED
  BY <1>2, <1>4, <1>5, StandsStill

LEMMA TickFollows ==
    ASSUME TypeOK, FollowInv, Tick
    PROVE  Follows
<1>1. /\ ClientTypeOK' /\ ClientInv' /\ (Idle => Idle')
      /\ Finalized(now - 1) <= Finalized(now' - 1)
  BY NextSlotInv DEF Tick, TypeOK, FollowInv
<1>2. /\ UNCHANGED <<loop, stored, polled, store>> /\ now' = now + 1 /\ now \in Nat
  BY DEF Tick, NextSlot, TypeOK, ClientTypeOK
<1>3. Finalized(now - 1) \in Nat /\ Finalized(now' - 1) \in Nat
  BY <1>2, FinalizedType
<1>4. TypeOK' /\ FollowInv'
  BY <1>1, <1>2, <1>3 DEF TypeOK, FollowInv, NoHeader
<1>5. ClientSlot' = ClientSlot
  BY <1>2 DEF ClientSlot, Checkpoint
<1>6. CASE Finalized(now' - 1) = Finalized(now - 1)
  BY <1>2, <1>4, <1>5, <1>6 DEF Follows, Client!followerVars
<1>7. CASE Finalized(now' - 1) # Finalized(now - 1)
  <2>1. Client!Finalize
    BY <1>1, <1>2, <1>3, <1>5, <1>7 DEF Client!Finalize
  <2> QED
    BY <1>4, <2>1 DEF Follows, Client!Next
<1> QED
  BY <1>6, <1>7

LEMMA LightClientStep == TypeOK /\ FollowInv /\ [Next]_vars => Follows
<1> SUFFICES ASSUME TypeOK, FollowInv, [Next]_vars PROVE Follows
  OBVIOUS
<1>1. CASE UNCHANGED vars
  <2>1. TypeOK' /\ FollowInv'
    BY <1>1 DEF vars, clientVars, TypeOK, FollowInv, Idle, ClientTypeOK, ClientInv,
       TraceInv, BoundsInv, Contiguous
  <2>2. UNCHANGED <<now, stored>> /\ ClientSlot' = ClientSlot
    BY <1>1 DEF vars, clientVars, ClientSlot, Checkpoint
  <2> QED
    BY <2>1, <2>2, StandsStill
<1>2. CASE EndSync \/ EndAdvance
  BY <1>2, AdoptFollows, GiveUpFollows DEF EndSync, EndAdvance
<1>3. CASE LoopStep
  BY <1>2, <1>3, BootFollows, RestsFollow, BeginFollows, SaveFollows, EndFollows
     DEF LoopStep
<1> QED
  BY <1>1, <1>3, EndFollows, CallsFollow, TickFollows DEF Next, Progress

LEMMA LightClientHolds == Spec => [](TypeOK /\ FollowInv)
<1>1. TypeOK /\ FollowInv /\ [Next]_vars => TypeOK' /\ FollowInv'
  BY LightClientStep DEF Follows
<1> QED
  BY <1>1, InitInv, PTL DEF Spec

(* The light client is well typed: in particular the trace of a call that  *)
(* has succeeded leaves no period out, whatever batches and lagging nodes  *)
(* it was fetched in (get_updates_single_rpc).                             *)
THEOREM LightClientTypeCorrect == Spec => []TypeOK
BY LightClientHolds, PTL

LEMMA InitFollows == Init => Client!Init
<1> SUFFICES ASSUME Init PROVE Client!Init
  OBVIOUS
<1>1. Finalized(now - 1) \in Nat /\ InitSlot <= Finalized(now - 1)
  <2>1. now - 1 \in Int /\ now = InitNow
    BY InitNowType DEF Init
  <2> QED
    BY <2>1, FinalizedType, LightClientAssumption
<1>2. ClientSlot = InitSlot
  BY DEF Init, ClientSlot, Checkpoint
<1> QED
  BY <1>1, <1>2 DEF Init, Client!Init

(* Whatever the RPCs answer, fail to answer or contradict each other in,   *)
(* and however often the process is killed, the light client implements    *)
(* Follower: it never goes back but to the stored header, never ahead of   *)
(* the finalized one, and what is stored never regresses.                  *)
THEOREM LightClientFollows == Spec => ImplementsFollower
<1>1. TypeOK /\ FollowInv /\ [Next]_vars => [Client!Next]_Client!followerVars
  BY LightClientStep DEF Follows
<1> QED
  BY <1>1, InitFollows, LightClientHolds, PTL
     DEF Spec, ImplementsFollower, Client!Spec

-----------------------------------------------------------------------------
(* What a node answers that is not far behind                              *)

LEMMA LagsFit == Lag + 1 < PeriodLength /\ Lag \in Nat /\ PeriodLength \in Nat
BY FreshAssumption, ChainAssumption, ClientAssumption

(* What a node that has seen the current period begin answers: a complete  *)
(* update for each period before the current one, ...                      *)
LEMMA BatchAnswer ==
    ASSUME NEW goal \in Nat, NEW k \in Nat, FirstSlot(goal) <= k,
           NEW p \in Nat, NEW n \in Nat, p + n <= goal
    PROVE  LET us == CommitteeUpdates(p, n, k) IN
           /\ us \in Seq(Update)
           /\ Len(us) = n
           /\ CompleteFrom(us, n, p)
<1>0. k \in Int /\ n \in 0 .. n
  OBVIOUS
<1>1. ASSUME NEW q \in Nat, q < goal
      PROVE  Attested(q, k) # {} /\ Complete(UpdateOf(q, k), q)
  <2>1. FirstSlot(q) + PeriodLength <= FirstSlot(goal)
    BY <1>1, FirstSlotsApart
  <2>2. FirstSlot(q) + Lag < k
    BY <1>1, <2>1, FirstSlots, FreshAssumption, ChainAssumption, ClientAssumption
  <2> QED
    BY <1>1, <2>2, CompleteUpdate, LagsFit
<1>2. /\ \A q \in p .. p + n - 1 : Attested(q, k) # {}
      /\ \A q \in p + n .. p + n - 1 : Attested(q, k) = {}
  BY <1>1
<1> DEFINE us == CommitteeUpdates(p, n, k)
<1>3. Len(us) = n /\ \A i \in 1 .. n : us[i] = UpdateOf(p + i - 1, k)
  BY <1>0, <1>2, CommitteeUpdatesAre
<1>4. us \in Seq(Update)
  BY <1>0, CommitteeUpdatesMade
<1>5. ASSUME NEW i \in 1 .. n PROVE Complete(us[i], p + i - 1)
  BY <1>1, <1>3
<1> QED
  BY <1>3, <1>4, <1>5 DEF CompleteFrom

(* ... and one for the current period, which is complete as soon as a      *)
(* header of it is finalized.                                              *)
LEMMA LastAnswer ==
    ASSUME NEW goal \in Nat, NEW k \in Nat,
           FirstSlot(goal) <= k, k <= FirstSlot(goal) + PeriodLength,
           NEW p \in Nat, p <= goal, NEW n \in Nat, n > goal - p
    PROVE  LET us == CommitteeUpdates(p, n, k) IN
           /\ us \in Seq(Update)
           /\ Len(us) \in {goal - p, goal - p + 1}
           /\ FromPeriod(us, p) /\ CompleteFrom(us, goal - p, p)
           /\ FirstSlot(goal) + Lag < k =>
                 Len(us) = goal - p + 1 /\ Complete(us[Len(us)], goal)
<1> DEFINE us == CommitteeUpdates(p, n, k)
           m  == IF Attested(goal, k) # {} THEN goal - p + 1 ELSE goal - p
<1>0. k \in Int
  OBVIOUS
<1>1. FirstSlot(goal) \in Nat /\ PeriodLength \in Nat /\ Lag \in Nat
  BY FirstSlots, ChainAssumption
<1>2. ASSUME NEW q \in Nat, q < goal
      PROVE  Attested(q, k) # {} /\ Complete(UpdateOf(q, k), q)
  <2>1. FirstSlot(q) + PeriodLength <= FirstSlot(goal)
    BY <1>1, <1>2, FirstSlotsApart
  <2>2. FirstSlot(q) + Lag < k
    BY <1>1, <1>2, <2>1, FirstSlots, FreshAssumption, ChainAssumption, ClientAssumption
  <2> QED
    BY <1>2, <2>2, CompleteUpdate, LagsFit
<1>3. ASSUME NEW q \in Nat, q > goal PROVE Attested(q, k) = {}
  <2>1. FirstSlot(goal) + PeriodLength <= FirstSlot(q) /\ FirstSlot(q) \in Nat
    BY <1>1, <1>3, FirstSlotsApart, FirstSlots
  <2>2. ~ (FirstSlot(q) < k)
    BY <1>1, <2>1
  <2> QED
    BY <2>2, NoUpdateAhead
<1>4. /\ m \in 0 .. n /\ m \in {goal - p, goal - p + 1}
      /\ Attested(goal, k) # {} => m = goal - p + 1
  BY <1>1
<1>5. /\ \A q \in p .. p + m - 1 : Attested(q, k) # {}
      /\ \A q \in p + m .. p + n - 1 : Attested(q, k) = {}
  BY <1>1, <1>2, <1>3
<1> HIDE DEF m
<1>6. Len(us) = m /\ \A i \in 1 .. m : us[i] = UpdateOf(p + i - 1, k)
  BY <1>0, <1>4, <1>5, CommitteeUpdatesAre
<1>7. us \in Seq(Update) /\ \A i \in 1 .. Len(us) : MadeIn(us[i], p + i - 1, k)
  BY <1>0, CommitteeUpdatesMade
<1> HIDE DEF us
<1>8. \A i \in 1 .. Len(us) : Period(us[i].att) = p + i - 1
  BY <1>7 DEF MadeIn
<1>9. ASSUME NEW i \in 1 .. goal - p PROVE Complete(us[i], p + i - 1)
  <2>1. p + i - 1 \in Nat /\ p + i - 1 < goal
    BY <1>1
  <2>2. us[i] = UpdateOf(p + i - 1, k)
    BY <1>1, <1>4, <1>6
  <2> QED
    BY <1>2, <2>1, <2>2
<1>10. ASSUME FirstSlot(goal) + Lag < k
       PROVE  Len(us) = goal - p + 1 /\ Complete(us[Len(us)], goal)
  <2>1. Attested(goal, k) # {} /\ Complete(UpdateOf(goal, k), goal)
    BY <1>1, <1>10, CompleteUpdate, LagsFit
  <2>2. m = goal - p + 1 /\ goal - p + 1 \in 1 .. m /\ p + (goal - p + 1) - 1 = goal
    BY <1>1, <1>4, <2>1
  <2> QED
    BY <1>6, <2>1, <2>2
<1> QED
  BY <1>4, <1>6, <1>7, <1>8, <1>9, <1>10 DEF us, FromPeriod, CompleteFrom

-----------------------------------------------------------------------------
(* The calls of an operation                                               *)

(* Since the last operation began at most one slot has.                    *)
LEMMA Times ==
    ASSUME TypeOK, FreshInv, loop \notin {"down", "boot", "bootstrapped"}
    PROVE  /\ polled \in Nat /\ now \in Nat /\ Lag \in Nat /\ MaxLag \in Nat
           /\ PeriodLength \in Nat /\ Lag > 0
           /\ Lag + 1 < polled /\ polled <= now /\ now <= polled + 1
           /\ Finalized(polled - 1) = polled - 1 - Lag
           /\ Finalized(polled - 2) = polled - 2 - Lag
           /\ Finalized(now - 1) = now - 1 - Lag
<1>1. /\ polled \in Nat /\ now \in Nat /\ Lag \in Nat \ {0} /\ MaxLag \in Nat
      /\ PeriodLength \in Nat /\ Lag + 1 < polled /\ polled <= now /\ now <= polled + 1
  BY ClientAssumption, ChainAssumption, FreshAssumption, LightClientAssumption
     DEF TypeOK, ClientTypeOK, FreshInv
<1> QED
  BY <1>1, FinalizedIs

(* What is kept of a call, of an RPC that has been prompt so far or not.   *)
DoneOK(c, isPrompt) ==
    /\ DoneInv(c)
    /\ isPrompt /\ c.pc = "done" => KeepsUp(c.store, polled)

SyncOK(c, isPrompt) ==
    SyncInv(c) /\ (isPrompt => PromptSyncInv(c)) /\ DoneOK(c, isPrompt)

AdvanceOK(c, isPrompt) ==
    AdvanceInv(c) /\ (isPrompt => PromptAdvanceInv(c)) /\ DoneOK(c, isPrompt)

CallFresh(c, isPrompt) ==
    /\ loop = "sync" => SyncOK(c, isPrompt)
    /\ loop = "advance" => AdvanceOK(c, isPrompt)

LEMMA CallsAreFresh ==
    ASSUME TypeOK, FreshInv, loop \in {"sync", "advance"}, NEW r \in Rpcs
    PROVE  CallFresh(calls[r], r \in prompt)
BY DEF TypeOK, ClientTypeOK, FreshInv, OperationInv, CallFresh, SyncOK, AdvanceOK, DoneOK

LEMMA CallsKeepFresh ==
    ASSUME TypeOK, FreshInv, loop \in {"sync", "advance"}, prompt' \subseteq prompt,
           UNCHANGED <<now, store, loop, stored, polled>>,
           NEW d, calls' = [r \in Rpcs |-> d[r]],
           \A r \in Rpcs : CallFresh(d[r], r \in prompt')
    PROVE  FreshInv'
<1>1. prompt' \subseteq Rpcs
  BY DEF TypeOK, ClientTypeOK
<1>2. ASSUME NEW r \in Rpcs
      PROVE  /\ DoneInv(calls[r])'
             /\ r \in prompt' /\ calls'[r].pc = "done" => KeepsUp(calls[r].store, polled)'
  <2>1. calls'[r] = d[r] /\ DoneOK(d[r], r \in prompt')
    BY DEF CallFresh, SyncOK, AdvanceOK
  <2> QED
    BY <2>1 DEF DoneOK, DoneInv, KeepsUp
<1>3. OperationInv'
  BY <1>1, <1>2 DEF OperationInv, FreshInv
<1>4. ASSUME NEW r \in Rpcs, loop = "sync"
      PROVE  SyncInv(calls[r])' /\ (r \in prompt' => PromptSyncInv(calls[r])')
  <2>1. calls'[r] = d[r] /\ SyncInv(d[r]) /\ (r \in prompt' => PromptSyncInv(d[r]))
    BY <1>4 DEF CallFresh, SyncOK
  <2> QED
    BY <2>1 DEF SyncInv, PromptSyncInv, Served
<1>5. ASSUME NEW r \in Rpcs, loop = "advance"
      PROVE  AdvanceInv(calls[r])' /\ (r \in prompt' => PromptAdvanceInv(calls[r])')
  <2>1. calls'[r] = d[r] /\ AdvanceInv(d[r]) /\ (r \in prompt' => PromptAdvanceInv(d[r]))
    BY <1>5 DEF CallFresh, AdvanceOK
  <2> QED
    BY <2>1 DEF AdvanceInv, PromptAdvanceInv
<1> QED
  BY <1>1, <1>3, <1>4, <1>5 DEF FreshInv

LEMMA CallKeepsFresh ==
    ASSUME TypeOK, FreshInv, loop \in {"sync", "advance"}, prompt' \subseteq prompt,
           UNCHANGED <<now, store, loop, stored, polled>>,
           NEW r \in Rpcs, NEW c, calls' = [calls EXCEPT ![r] = c],
           CallFresh(c, r \in prompt')
    PROVE  FreshInv'
<1> DEFINE d == [q \in Rpcs |-> IF q = r THEN c ELSE calls[q]]
<1>1. calls' = [q \in Rpcs |-> d[q]]
  BY DEF TypeOK, ClientTypeOK
<1>2. ASSUME NEW q \in Rpcs PROVE CallFresh(d[q], q \in prompt')
  <2>1. CASE q = r
    BY <2>1
  <2>2. CASE q # r
    <3>1. d[q] = calls[q] /\ (q \in prompt' => q \in prompt)
      BY <2>2
    <3> HIDE DEF d
    <3> QED
      BY <3>1, CallsAreFresh DEF CallFresh, SyncOK, AdvanceOK, DoneOK
  <2> QED
    BY <2>1, <2>2
<1> HIDE DEF d
<1> QED
  BY <1>1, <1>2, CallsKeepFresh

LEMMA FailedFresh ==
    ASSUME TypeOK, FreshInv, loop \in {"sync", "advance"}, NEW r \in Rpcs, r \notin prompt'
    PROVE  CallFresh([calls[r] EXCEPT !.pc = "failed"], r \in prompt')
<1> DEFINE c == calls[r]
           d == [c EXCEPT !.pc = "failed"]
<1>1. c \in CallType /\ CallFresh(c, r \in prompt)
  BY CallsAreFresh DEF TypeOK, ClientTypeOK
<1>2. d.pc = "failed" /\ d.op = c.op /\ d.began = c.began
  BY <1>1 DEF CallType
<1> HIDE DEF c, d
<1>3. DoneInv(c) => DoneInv(d)
  BY <1>2 DEF DoneInv
<1>4. SyncInv(c) => SyncInv(d)
  BY <1>2 DEF SyncInv
<1>5. AdvanceInv(c) => AdvanceInv(d)
  BY <1>2 DEF AdvanceInv
<1>6. CallFresh(d, r \in prompt')
  BY <1>1, <1>3, <1>4, <1>5 DEF CallFresh, SyncOK, AdvanceOK, DoneOK
<1> QED
  BY <1>6 DEF c, d

LEMMA ContinueFresh ==
    ASSUME TypeOK, FreshInv, loop \in {"sync", "advance"}, prompt' \subseteq prompt,
           UNCHANGED <<now, store, loop, stored, polled>>,
           NEW r \in Rpcs, NEW c, NEW pc, NEW s, Continue(r, c, pc, s),
           s = Rejected => r \notin prompt',
           s # Rejected => CallFresh([c EXCEPT !.pc = pc, !.store = s], r \in prompt')
    PROVE  FreshInv'
<1>1. CASE s = Rejected
  <2>1. calls' = [calls EXCEPT ![r] = [calls[r] EXCEPT !.pc = "failed"]]
    BY <1>1 DEF Continue, TypeOK, ClientTypeOK
  <2> QED
    BY <1>1, <2>1, FailedFresh, CallKeepsFresh
<1>2. CASE s # Rejected
  BY <1>2, CallKeepsFresh DEF Continue
<1> QED
  BY <1>1, <1>2

(* Only an answer from the current head leaves the RPC a prompt one.       *)
LEMMA PromptAnswers ==
    ASSUME NEW r, NEW k, AnswersAt(r, k)
    PROVE  /\ prompt' \subseteq prompt /\ now <= k + MaxLag
           /\ r \in prompt' => k = now
BY DEF AnswersAt, Lapse

LEMMA FailCallFresh ==
    ASSUME TypeOK, FreshInv, loop \in {"sync", "advance"}, NEW r \in Rpcs, FailCall(r),
           UNCHANGED <<loop, stored, polled>>
    PROVE  FreshInv'
<1>1. /\ calls' = [calls EXCEPT ![r] = [calls[r] EXCEPT !.pc = "failed"]]
      /\ prompt' \subseteq prompt /\ r \notin prompt' /\ UNCHANGED <<now, store>>
  BY DEF FailCall, Lapse, TypeOK, ClientTypeOK
<1> QED
  BY <1>1, FailedFresh, CallKeepsFresh

LEMMA OutageFresh ==
    ASSUME TypeOK, FreshInv, loop \in {"sync", "advance"}, Outage,
           UNCHANGED <<loop, stored, polled>>
    PROVE  FreshInv'
<1> DEFINE d == [r \in Rpcs |-> IF Running(r) THEN [calls[r] EXCEPT !.pc = "failed"]
                                              ELSE calls[r]]
<1>1. calls' = [r \in Rpcs |-> d[r]] /\ prompt' = {} /\ UNCHANGED <<now, store>>
  BY DEF Outage
<1>2. ASSUME NEW r \in Rpcs PROVE CallFresh(d[r], r \in prompt')
  <2>1. CallFresh([calls[r] EXCEPT !.pc = "failed"], r \in prompt')
    BY <1>1, FailedFresh
  <2>2. CallFresh(calls[r], r \in prompt')
    BY <1>1, CallsAreFresh DEF CallFresh, SyncOK, AdvanceOK, DoneOK
  <2> QED
    BY <2>1, <2>2
<1> HIDE DEF d
<1> QED
  BY <1>1, <1>2, CallsKeepFresh

-----------------------------------------------------------------------------
(* The steps of a synchronization                                          *)

LEMMA BatchTrace ==
    ASSUME NEW us \in Seq(Update), NEW p \in Nat, NEW f \in Nat, Len(us) = f - p,
           CompleteFrom(us, Len(us), p),
           NEW goal \in Nat, NEW k \in Nat, FirstSlot(goal) <= k,
           NEW n \in Nat, f + n <= goal,
           NEW vs, Appended(vs, us, CommitteeUpdates(f, n, k))
    PROVE  Len(vs) = Len(us) + n /\ CompleteFrom(vs, Len(vs), p)
<1> DEFINE new == CommitteeUpdates(f, n, k)
<1>1. new \in Seq(Update) /\ Len(new) = n /\ CompleteFrom(new, n, f)
  BY BatchAnswer
<1>2. Appended(vs, us, new)
  OBVIOUS
<1> HIDE DEF new
<1>3. Len(vs) = Len(us) + n
  BY <1>1, <1>2 DEF Appended
<1>4. n \in Nat /\ n <= Len(new)
  BY <1>1
<1>5. CompleteFrom(vs, Len(us) + n, p)
  BY <1>1, <1>2, <1>4, CompleteAppended
<1> QED
  BY <1>3, <1>5

LEMMA LastTrace ==
    ASSUME NEW us \in Seq(Update), NEW p \in Nat, NEW f \in Nat, Len(us) = f - p,
           CompleteFrom(us, Len(us), p),
           NEW goal \in Nat, NEW k \in Nat,
           FirstSlot(goal) <= k, k <= FirstSlot(goal) + PeriodLength,
           f <= goal, NEW n \in Nat, n > goal - f,
           NEW vs, Appended(vs, us, CommitteeUpdates(f, n, k))
    PROVE  /\ Len(vs) \in {goal - p, goal - p + 1}
           /\ FromPeriod(vs, p) /\ CompleteFrom(vs, goal - p, p)
           /\ FirstSlot(goal) + Lag < k =>
                 Len(vs) = goal - p + 1 /\ Complete(vs[Len(vs)], goal)
<1> DEFINE new == CommitteeUpdates(f, n, k)
<1>1. /\ new \in Seq(Update) /\ Len(new) \in {goal - f, goal - f + 1}
      /\ FromPeriod(new, f) /\ CompleteFrom(new, goal - f, f)
      /\ FirstSlot(goal) + Lag < k =>
            Len(new) = goal - f + 1 /\ Complete(new[Len(new)], goal)
  BY LastAnswer
<1>2. Appended(vs, us, new)
  OBVIOUS
<1> HIDE DEF new
<1>3. Len(us) \in Nat /\ Len(new) \in Nat /\ Len(vs) = Len(us) + Len(new)
  BY <1>2 DEF Appended
<1>4. goal - f \in Nat /\ goal - f <= Len(new) /\ Len(us) + (goal - f) = goal - p
  BY <1>1, <1>3
<1>5. CompleteFrom(vs, Len(us) + (goal - f), p)
  BY <1>1, <1>2, <1>4, CompleteAppended
<1>6. FromPeriod(us, p)
  BY DEF FromPeriod, CompleteFrom, Complete
<1>7. FromPeriod(vs, p)
  BY <1>1, <1>2, <1>6, PeriodsAppended
<1>8. Len(vs) \in {goal - p, goal - p + 1}
  BY <1>1, <1>3
<1>9. ASSUME FirstSlot(goal) + Lag < k
      PROVE  Len(vs) = goal - p + 1 /\ Complete(vs[Len(vs)], goal)
  <2>1. Len(vs) = goal - p + 1 /\ Len(new) # 0
    BY <1>1, <1>3, <1>9
  <2>2. vs[Len(vs)] = new[Len(new)]
    BY <1>2, <2>1, LastAppended
  <2> QED
    BY <1>1, <1>9, <2>1, <2>2
<1> QED
  BY <1>4, <1>5, <1>7, <1>8, <1>9

LEMMA LastOfTrace ==
    ASSUME NEW us \in Seq(Update), NEW f \in Nat,
           NEW goal \in Nat, NEW k \in Nat,
           FirstSlot(goal) + Lag < k, k <= FirstSlot(goal) + PeriodLength,
           f <= goal, NEW n \in Nat, n > goal - f,
           NEW vs, Appended(vs, us, CommitteeUpdates(f, n, k))
    PROVE  Len(vs) # 0 /\ Complete(vs[Len(vs)], goal)
<1> DEFINE new == CommitteeUpdates(f, n, k)
<1>0. FirstSlot(goal) \in Nat /\ Lag \in Nat
  BY FirstSlots, ChainAssumption
<1>1. FirstSlot(goal) <= k
  BY <1>0
<1>2. new \in Seq(Update) /\ Len(new) = goal - f + 1 /\ Complete(new[Len(new)], goal)
  BY <1>1, LastAnswer
<1>3. Appended(vs, us, new)
  OBVIOUS
<1> HIDE DEF new
<1>6. Len(us) \in Nat /\ Len(new) \in Nat /\ Len(vs) = Len(us) + Len(new)
  BY <1>3 DEF Appended
<1>4. Len(new) # 0
  BY <1>2
<1>5. vs[Len(vs)] = new[Len(new)]
  BY <1>3, <1>4, LastAppended
<1> QED
  BY <1>2, <1>4, <1>5, <1>6

(* What a call has fetched, of which nothing is verified yet.              *)
LEMMA FetchedFresh ==
    ASSUME TypeOK, FollowInv, FreshInv, loop = "sync", NEW r \in Rpcs,
           NEW k \in Int, k <= now, FetchUpdates(r, k),
           UNCHANGED <<loop, stored, polled>>
    PROVE  FreshInv'
<1> DEFINE c     == calls[r]
           p     == Period(store.slot)
           goal  == Period(c.began)
           batch == Sets!Min({goal - c.fetch, MaxRequest})
           more  == goal - p >= MaxRequest /\ c.fetch < goal
           got(n) == c.updates \o CommitteeUpdates(c.fetch, n, k)
           d1    == [c EXCEPT !.updates = got(batch), !.fetch = c.fetch + batch]
           d2    == [c EXCEPT !.updates = got(MaxRequest), !.pc = "verify"]
           isPrompt == r \in prompt'
<1>1. /\ prompt' \subseteq prompt /\ now <= k + MaxLag /\ (isPrompt => k = now)
      /\ UNCHANGED <<now, store>>
  BY PromptAnswers DEF FetchUpdates
<1>2. /\ c \in CallType /\ c.pc = "updates" /\ TraceInv(c)
      /\ SyncInv(c) /\ DoneInv(c) /\ (isPrompt => PromptSyncInv(c))
  <2>1. CallFresh(c, r \in prompt)
    BY CallsAreFresh
  <2> QED
    BY <1>1, <2>1 DEF CallFresh, SyncOK, DoneOK, FetchUpdates, TypeOK, ClientTypeOK,
       FollowInv, ClientInv
<1>3. calls' = [calls EXCEPT ![r] = IF more THEN d1 ELSE d2]
  BY DEF FetchUpdates
<1>4. /\ c.updates \in Seq(Update) /\ Len(c.updates) \in Nat /\ c.fetch \in Nat
      /\ c.verified = 0 /\ store.slot \in Nat /\ p \in Nat /\ goal \in Nat
      /\ MaxRequest \in Nat \ {0} /\ c.began = polled
  BY <1>2, PeriodNat, ClientAssumption, LenProperties
     DEF CallType, TraceInv, DoneInv, TypeOK, ClientTypeOK, Store
<1>5. c.fetch \in p .. goal /\ (goal - p < MaxRequest => c.fetch = p)
  BY <1>2, <1>4 DEF SyncInv
<1>6. isPrompt =>
         Len(c.updates) = c.fetch - p /\ CompleteFrom(c.updates, Len(c.updates), p)
  BY <1>2 DEF PromptSyncInv
<1>7. /\ goal = Period(polled) /\ polled \in Nat /\ now \in Nat /\ MaxLag \in Nat
      /\ polled <= now /\ now <= polled + 1 /\ Lag \in Nat
      /\ FirstSlot(goal) \in Nat /\ FirstSlot(goal) <= polled
      /\ polled < FirstSlot(goal) + PeriodLength /\ PeriodLength \in Nat
  BY <1>4, Times, PeriodSlots, FirstSlots
<1> HIDE DEF p, goal
<1>8. CASE more
  <2>1. batch \in Nat \ {0} /\ batch <= goal - c.fetch
    <3>1. {goal - c.fetch, MaxRequest} \subseteq Nat \ {0}
      BY <1>4, <1>8
    <3>2. {goal - c.fetch, MaxRequest} \subseteq Nat /\ {goal - c.fetch, MaxRequest} # {}
      BY <3>1
    <3> QED
      BY <3>1, <3>2, MinIsLeast
  <2> HIDE DEF batch
  <2> DEFINE new == CommitteeUpdates(c.fetch, batch, k)
             us  == c.updates \o new
  <2>2. /\ d1.pc = "updates" /\ d1.op = c.op /\ d1.began = c.began /\ d1.store = c.store
        /\ d1.fetch = c.fetch + batch /\ d1.updates = us
    BY <1>2 DEF CallType
  <2> HIDE DEF c, d1, got
  <2>3. SyncInv(d1)
    <3>1. d1.fetch \in p .. goal /\ ~ (goal - p < MaxRequest)
      BY <1>4, <1>5, <1>8, <2>1, <2>2
    <3> QED
      BY <1>2, <1>7, <2>2, <3>1 DEF SyncInv, p
  <2>4. ASSUME isPrompt PROVE PromptSyncInv(d1)
    <3>1. /\ goal \in Nat /\ k \in Nat /\ FirstSlot(goal) <= k /\ p \in Nat
          /\ c.fetch \in Nat /\ batch \in Nat /\ c.fetch + batch <= goal
          /\ c.updates \in Seq(Update) /\ Len(c.updates) = c.fetch - p
          /\ CompleteFrom(c.updates, Len(c.updates), p)
      BY <1>1, <1>4, <1>6, <1>7, <2>1, <2>4
    <3>0. Appended(us, c.updates, new)
      BY <1>4, <2>1, CommitteeUpdatesMade, Appends
    <3> HIDE DEF us
    <3>2. CompleteFrom(us, Len(us), p)
      BY <3>0, <3>1, BatchTrace
    <3>5. Len(new) = batch
      BY <3>1, BatchAnswer
    <3>4. Len(us) = Len(c.updates) + batch
      BY <3>0, <3>5 DEF Appended
    <3>3. Len(us) = d1.fetch - p
      BY <2>2, <3>1, <3>4
    <3> QED
      BY <2>2, <3>2, <3>3 DEF PromptSyncInv, p
  <2>5. DoneInv(d1)
    BY <1>2, <2>2 DEF DoneInv
  <2>6. CallFresh(d1, isPrompt)
    BY <2>2, <2>3, <2>4, <2>5 DEF CallFresh, SyncOK, DoneOK
  <2> QED
    BY <1>1, <1>3, <1>8, <2>6, CallKeepsFresh
<1>9. CASE ~ more
  <2> DEFINE new == CommitteeUpdates(c.fetch, MaxRequest, k)
             us  == c.updates \o new
  <2>1. /\ d2.pc = "verify" /\ d2.op = c.op /\ d2.began = c.began /\ d2.store = c.store
        /\ d2.verified = 0 /\ d2.updates = us
    BY <1>2, <1>4 DEF CallType
  <2> HIDE DEF c, d2, got
  <2>2. c.fetch <= goal /\ MaxRequest > goal - c.fetch /\ MaxRequest \in Nat
    BY <1>4, <1>5, <1>9
  <2>3. /\ goal \in Nat /\ k <= FirstSlot(goal) + PeriodLength
        /\ c.fetch \in Nat /\ c.updates \in Seq(Update)
    BY <1>1, <1>4, <1>7
  <2>10. new \in Seq(Update)
    BY <1>4, CommitteeUpdatesMade
  <2>9. Appended(us, c.updates, new)
    BY <2>3, <2>10, Appends
  <2>8. us = <<>> => Len(us) = 0
    OBVIOUS
  <2> HIDE DEF us
  <2>4. SyncInv(d2)
    <3>1. ASSUME Served(MaxLag) PROVE Len(us) # 0 /\ Complete(us[Len(us)], goal)
      <4>1. FirstSlot(goal) + Lag < k /\ k \in Nat
        BY <1>1, <1>7, <3>1 DEF Served
      <4>2. Len(us) # 0
        BY <2>2, <2>3, <2>9, <4>1, LastOfTrace
      <4>3. Complete(us[Len(us)], goal)
        BY <2>2, <2>3, <2>9, <4>1, LastOfTrace
      <4> QED
        BY <4>2, <4>3
    <3> QED
      BY <1>2, <1>7, <2>1, <2>8, <3>1 DEF SyncInv
  <2>5. ASSUME isPrompt PROVE PromptSyncInv(d2)
    <3>0. k \in Nat /\ FirstSlot(goal) <= k /\ k >= polled
      BY <1>1, <1>7, <2>5
    <3>1. /\ k \in Nat /\ FirstSlot(goal) <= k
          /\ p \in Nat /\ Len(c.updates) = c.fetch - p
          /\ CompleteFrom(c.updates, Len(c.updates), p)
      BY <1>4, <1>6, <2>5, <3>0
    <3>2. /\ Len(us) \in {goal - p, goal - p + 1}
          /\ FromPeriod(us, p) /\ CompleteFrom(us, goal - p, p)
          /\ FirstSlot(goal) + Lag < k =>
                Len(us) = goal - p + 1 /\ Complete(us[Len(us)], goal)
      BY <2>2, <2>3, <2>9, <3>1, LastTrace
    <3>3. Served(0) => FirstSlot(goal) + Lag < k
      BY <1>7, <3>0 DEF Served
    <3>4. d2.store = store
      BY <1>2, <2>1 DEF SyncInv
    <3> QED
      BY <1>7, <2>1, <3>2, <3>3, <3>4 DEF PromptSyncInv, p
  <2>6. DoneInv(d2)
    BY <1>2, <2>1 DEF DoneInv
  <2>7. CallFresh(d2, isPrompt)
    BY <2>1, <2>4, <2>5, <2>6 DEF CallFresh, SyncOK, DoneOK
  <2> QED
    BY <1>1, <1>3, <1>9, <2>7, CallKeepsFresh
<1> QED
  BY <1>8, <1>9

LEMMA VerifyFresh ==
    ASSUME TypeOK, FollowInv, FreshInv, loop = "sync", NEW r \in Rpcs, VerifyUpdate(r),
           UNCHANGED <<loop, stored, polled>>
    PROVE  FreshInv'
<1> DEFINE c    == calls[r]
           us   == c.updates
           v    == c.verified
           p    == Period(store.slot)
           goal == Period(polled)
           isPrompt == r \in prompt
<1>1. prompt' = prompt /\ UNCHANGED <<now, store>> /\ prompt' \subseteq prompt
  BY DEF VerifyUpdate
<1>2. /\ c \in CallType /\ c.pc = "verify" /\ TraceInv(c)
      /\ SyncInv(c) /\ DoneInv(c) /\ (isPrompt => PromptSyncInv(c))
  <2>1. CallFresh(c, r \in prompt)
    BY CallsAreFresh
  <2> QED
    BY <2>1 DEF CallFresh, SyncOK, DoneOK, VerifyUpdate, TypeOK, ClientTypeOK,
       FollowInv, ClientInv
<1>3. /\ us \in Seq(Update) /\ Len(us) \in Nat /\ v \in Nat /\ v <= Len(us)
      /\ c.store \in Store /\ store \in Store /\ store.slot \in Nat /\ p \in Nat
  BY <1>2, PeriodNat, LenProperties DEF CallType, TraceInv, TypeOK, ClientTypeOK, Store
<1>4. goal \in Nat /\ p <= goal /\ (p = goal => Served(0)) /\ ~ store.next
  <2>1. /\ polled \in Nat /\ Lag \in Nat /\ Lag + 1 < polled
        /\ Finalized(polled - 1) = polled - 1 - Lag
    BY Times
  <2>2. store.slot <= polled - 1 - Lag /\ ~ store.next
    BY <2>1 DEF FreshInv, OperationInv
  <2>3. FirstSlot(p) \in Nat /\ FirstSlot(p) <= store.slot
    BY <1>3, PeriodSlots, FirstSlots
  <2>4. FirstSlot(p) + Lag < polled
    BY <1>3, <2>1, <2>2, <2>3
  <2>5. p = goal => Served(0)
    BY <2>1, <2>4 DEF Served
  <2>6. store.slot <= polled
    BY <1>3, <2>1, <2>2
  <2>7. goal \in Nat /\ p <= goal
    BY <1>3, <2>1, <2>6, PeriodNat, PeriodMonotone
  <2> QED
    BY <2>2, <2>5, <2>7
<1>5. isPrompt =>
         /\ Len(us) \in {goal - p, goal - p + 1}
         /\ FromPeriod(us, p) /\ CompleteFrom(us, goal - p, p)
         /\ Served(0) => Len(us) = goal - p + 1 /\ Complete(us[Len(us)], goal)
         /\ v = 0 => c.store = store
         /\ v > 0 =>
               /\ c.store.next /\ Period(c.store.slot) \in {p + v - 1 - 1, p + v - 1}
               /\ Complete(us[v], p + v - 1) => Period(c.store.slot) = p + v - 1
  BY <1>2, <1>3 DEF PromptSyncInv
<1> HIDE DEF us, v, p, goal
<1>6. ASSUME isPrompt, NEW i \in Nat, i > 0, i <= goal - p
      PROVE  Complete(us[i], p + i - 1)
  BY <1>3, <1>4, <1>5, <1>6 DEF CompleteFrom
<1>7. CASE v = Len(us)
  <2> DEFINE d == [c EXCEPT !.pc = "finality", !.store = c.store]
  <2>1. calls' = [calls EXCEPT ![r] = d]
    <3>1. Continue(r, c, "finality", c.store)
      BY <1>7 DEF VerifyUpdate, v, us
    <3>2. c.store # Rejected
      BY <1>3 DEF Store, Rejected
    <3> QED
      BY <3>1, <3>2 DEF Continue
  <2>2. d.pc = "finality" /\ d.op = c.op /\ d.began = c.began /\ d.store = c.store
    BY <1>2 DEF CallType
  <2> HIDE DEF c, d
  <2>3. SyncInv(d)
    BY <1>2, <1>7, <2>2 DEF SyncInv, us, v
  <2>4. ASSUME isPrompt PROVE PromptSyncInv(d)
    <3>1. v > 0
      BY <1>3, <1>4, <1>5, <1>7, <2>4
    <3>2. c.store.next
      BY <1>5, <2>4, <3>1
    <3>3. CASE v = goal - p
      <4>1. Complete(us[v], p + v - 1)
        BY <1>3, <1>6, <2>4, <3>1, <3>3
      <4>2. Period(c.store.slot) = p + v - 1
        BY <1>5, <2>4, <3>1, <4>1
      <4>3. Period(c.store.slot) = goal - 1 /\ ~ Served(0)
        BY <1>3, <1>4, <1>5, <1>7, <2>4, <3>3, <4>2
      <4> QED
        BY <2>2, <3>2, <4>3 DEF PromptSyncInv, goal
    <3>4. CASE v = goal - p + 1
      <4>1. p + v - 1 = goal
        BY <1>3, <1>4, <3>4
      <4>2. Period(c.store.slot) \in {goal - 1, goal}
        <5>1. Period(c.store.slot) \in {p + v - 1 - 1, p + v - 1}
          BY <1>5, <2>4, <3>1
        <5>2. p \in Nat /\ v \in Nat /\ goal \in Nat
          BY <1>3, <1>4
        <5> QED
          BY <4>1, <5>1, <5>2
      <4>3. Served(0) => Period(c.store.slot) = goal
        BY <1>5, <1>7, <2>4, <3>1, <4>1
      <4> QED
        BY <2>2, <3>2, <4>2, <4>3 DEF PromptSyncInv, goal
    <3> QED
      BY <1>5, <1>7, <2>4, <3>3, <3>4
  <2>5. DoneInv(d)
    BY <1>2, <2>2 DEF DoneInv
  <2>6. CallFresh(d, r \in prompt')
    BY <1>1, <2>2, <2>3, <2>4, <2>5 DEF CallFresh, SyncOK, DoneOK
  <2> QED
    BY <1>1, <2>1, <2>6, CallKeepsFresh
<1>8. CASE v # Len(us)
  <2> DEFINE u == us[v + 1]
             e == [c EXCEPT !.verified = v + 1]
             s == VerifyAndApply(u, now, c.store)
             d == [e EXCEPT !.pc = "verify", !.store = s]
             a == Apply(u, c.store)
  <2>1. Continue(r, e, "verify", s)
    BY <1>8 DEF VerifyUpdate, v, us
  <2>2. /\ d.pc = "verify" /\ d.op = c.op /\ d.began = c.began /\ d.store = s
        /\ d.verified = v + 1 /\ d.updates = us
    BY <1>2 DEF CallType, us
  <2>3. v + 1 \in Nat /\ v + 1 > 0 /\ v + 1 <= Len(us) /\ v + 1 \in 1 .. Len(us)
    BY <1>3, <1>8
  <2>4. MadeIn(u, Period(u.att), now) /\ now \in Int
    <3>1. now \in Int
      BY Times
    <3>2. MadeIn(us[v + 1], Period(us[v + 1].att), now)
      BY <1>2, <2>3 DEF TraceInv, us
    <3> QED
      BY <3>1, <3>2
  <2>5. u.fin \in Nat /\ u.next /\ Period(u.att) \in Nat
    BY <2>4, PeriodNat DEF MadeIn, Made, Update
  <2>6. s # Rejected => s = a /\ Verifies(u, now, c.store)
    BY DEF VerifyAndApply
  <2> HIDE DEF c, d, e, s, u
  <2>7. ASSUME s # Rejected PROVE SyncInv(d)
    <3>1. a.slot > c.store.slot => a.next
      BY <1>3, <2>5, CommitteeApplies
    <3>2. c.store.next => a.next
      BY <1>3, <2>5, CommitteeApplies
    <3>3. a \in Store /\ a.slot \in Nat /\ c.store.slot \in Nat /\ a.slot >= c.store.slot
      BY <1>3, <2>5, ApplyBounds DEF Store
    <3>4. c.store.slot > store.slot => c.store.next
      BY <1>2 DEF SyncInv
    <3>5. a.slot > store.slot => a.next
      BY <1>3, <3>1, <3>2, <3>3, <3>4
    <3>6. Served(MaxLag) => us # <<>> /\ Complete(us[Len(us)], goal)
      BY <1>2 DEF SyncInv, us, goal
    <3>7. ASSUME Served(MaxLag), v + 1 = Len(us) PROVE a.next /\ Period(a.slot) = goal
      <4>1. Complete(u, goal)
        BY <3>6, <3>7 DEF u
      <4>2. MadeIn(u, goal, now)
        BY <2>4, <4>1 DEF Complete
      <4> QED
        BY <1>3, <1>4, <2>4, <2>6, <2>7, <4>1, <4>2, CompleteApplies
    <3> HIDE DEF a
    <3> QED
      BY <1>2, <2>2, <2>6, <2>7, <3>5, <3>6, <3>7 DEF SyncInv, goal
  <2>8. ASSUME isPrompt
        PROVE  s # Rejected /\ PromptSyncInv(d)
    <3>1. p + v \in Nat /\ Period(u.att) = p + v /\ MadeIn(u, p + v, now)
      <4>1. Period(u.att) = p + (v + 1) - 1
        BY <1>5, <2>3, <2>8 DEF FromPeriod, u
      <4>2. Period(u.att) = p + v /\ p + v \in Nat
        BY <1>3, <4>1
      <4> QED
        BY <2>4, <4>2
    <3>2. v <= goal - p
      BY <1>3, <1>4, <1>5, <2>3, <2>8
    <3>3. CASE v = 0
      <4>1. c.store = store /\ Period(c.store.slot) = p + v /\ ~ c.store.next
        BY <1>3, <1>4, <1>5, <2>8, <3>3 DEF p
      <4>2. Verifies(u, now, c.store)
        BY <1>3, <2>4, <3>1, <4>1, CommitteeVerifies
      <4>3. Complete(u, p + v)
        <5>1. CASE p = goal
          <6>1. Len(us) = 1 /\ Complete(us[Len(us)], goal) /\ p + v = goal
            BY <1>3, <1>4, <1>5, <2>8, <3>3, <5>1
          <6> QED
            BY <3>3, <6>1 DEF u
        <5>2. CASE p # goal
          <6>1. v + 1 <= goal - p /\ p + (v + 1) - 1 = p + v
            BY <1>3, <1>4, <3>3, <5>2
          <6>2. Complete(us[v + 1], p + (v + 1) - 1)
            BY <1>6, <2>3, <2>8, <6>1
          <6> QED
            BY <6>1, <6>2 DEF u
        <5> QED
          BY <5>1, <5>2
      <4>4. a.next /\ Period(a.slot) = p + v
        BY <1>3, <2>4, <3>1, <4>2, <4>3, CompleteApplies
      <4>5. s = a
        BY <4>2 DEF s, VerifyAndApply
      <4>6. a # Rejected
        BY <1>3, <2>5, ApplyBounds
      <4>7. p + (v + 1) - 1 = p + v
        BY <1>3
      <4> HIDE DEF a
      <4> QED
        BY <1>3, <1>5, <2>2, <2>3, <2>8, <4>4, <4>5, <4>6, <4>7 DEF PromptSyncInv, p, goal
    <3>4. CASE v # 0
      <4>1. v > 0 /\ Complete(us[v], p + v - 1) /\ p + v - 1 = (p + v) - 1
        BY <1>3, <1>6, <2>8, <3>2, <3>4
      <4>2. c.store.next /\ Period(c.store.slot) = (p + v) - 1
        BY <1>5, <2>8, <4>1
      <4>3. Verifies(u, now, c.store)
        BY <1>3, <2>4, <3>1, <4>2, CommitteeVerifies
      <4>4. a.next /\ Period(a.slot) \in {(p + v) - 1, p + v}
        BY <1>3, <2>4, <3>1, <4>2, IncompleteApplies
      <4>5. Complete(u, p + v) => Period(a.slot) = p + v
        BY <1>3, <2>4, <3>1, <4>3, CompleteApplies
      <4>6. s = a
        BY <4>3 DEF s, VerifyAndApply
      <4>7. a # Rejected
        BY <1>3, <2>5, ApplyBounds
      <4>8. p + (v + 1) - 1 = p + v
        BY <1>3
      <4> HIDE DEF a
      <4> QED
        BY <1>3, <1>5, <2>2, <2>3, <2>8, <4>4, <4>5, <4>6, <4>7, <4>8
           DEF PromptSyncInv, p, goal, u
    <3> QED
      BY <3>3, <3>4
  <2>9. ASSUME s # Rejected PROVE CallFresh(d, r \in prompt')
    <3>1. DoneInv(d)
      BY <1>2, <2>2 DEF DoneInv
    <3> QED
      BY <1>1, <2>2, <2>7, <2>8, <2>9, <3>1 DEF CallFresh, SyncOK, DoneOK
  <2>10. s = Rejected => r \notin prompt'
    BY <1>1, <2>8
  <2>11. s # Rejected => CallFresh([e EXCEPT !.pc = "verify", !.store = s], r \in prompt')
    BY <2>9 DEF d
  <2> QED
    BY <1>1, <2>1, <2>10, <2>11, ContinueFresh
<1> QED
  BY <1>7, <1>8

(* The current period, seen from a call.                                   *)
LEMMA Goals ==
    ASSUME TypeOK, FreshInv, loop \notin {"down", "boot", "bootstrapped"}
    PROVE  LET goal == Period(polled) IN
           /\ goal \in Nat /\ FirstSlot(goal) \in Nat
           /\ FirstSlot(goal) <= polled /\ polled < FirstSlot(goal) + PeriodLength
           /\ \A b \in Nat : b >= polled /\ Period(b) # goal =>
                 FirstSlot(goal) + PeriodLength <= b
           /\ \A l \in {0, MaxLag} : Served(l) <=> FirstSlot(goal) + Lag < polled - l
<1>1. polled \in Nat
  BY Times
<1> QED
  BY <1>1, PeriodSlots, FirstSlots, LaterSlot DEF Served

LEMMA SyncFinalityFresh ==
    ASSUME TypeOK, FollowInv, FreshInv, loop = "sync", NEW r \in Rpcs,
           NEW k \in Int, k <= now, SyncFinality(r, k),
           UNCHANGED <<loop, stored, polled>>
    PROVE  FreshInv'
<1> DEFINE c    == calls[r]
           goal == Period(polled)
           u    == FinalityUpdateAt(k)
           a    == Apply(u, c.store)
           s    == VerifyAndApply(u, now, c.store)
           e    == [c EXCEPT !.finality = u]
           d    == [e EXCEPT !.pc = "done", !.store = s]
           isPrompt == r \in prompt'
<1>1. /\ prompt' \subseteq prompt /\ (isPrompt => k = now)
      /\ UNCHANGED <<now, store>>
  BY PromptAnswers DEF SyncFinality
<1>2. /\ c \in CallType /\ c.pc = "finality" /\ BoundsInv(c)
      /\ SyncInv(c) /\ DoneInv(c) /\ (isPrompt => PromptSyncInv(c))
  <2>1. CallFresh(c, r \in prompt)
    BY CallsAreFresh
  <2> QED
    BY <1>1, <2>1 DEF CallFresh, SyncOK, DoneOK, SyncFinality, TypeOK, ClientTypeOK,
       FollowInv, ClientInv
<1>3. c.store \in Store /\ c.store.slot \in Nat /\ Period(c.store.slot) \in Nat
  BY <1>2, PeriodNat DEF CallType, Store
<1>4. Continue(r, e, "done", s)
  BY DEF SyncFinality
<1>5. d.pc = "done" /\ d.op = c.op /\ d.began = c.began /\ d.store = s
  BY <1>2 DEF CallType
<1>6. /\ polled \in Nat /\ now \in Nat /\ Lag \in Nat /\ MaxLag \in Nat /\ Lag > 0
      /\ PeriodLength \in Nat /\ Lag + 1 < polled /\ polled <= now /\ now <= polled + 1
      /\ Finalized(polled - 1) = polled - 1 - Lag /\ Finalized(now - 1) = now - 1 - Lag
  BY Times
<1>7. /\ goal \in Nat /\ FirstSlot(goal) \in Nat
      /\ FirstSlot(goal) <= polled /\ polled < FirstSlot(goal) + PeriodLength
      /\ \A b \in Nat : b >= polled /\ Period(b) # goal =>
            FirstSlot(goal) + PeriodLength <= b
      /\ \A l \in {0, MaxLag} : Served(l) <=> FirstSlot(goal) + Lag < polled - l
  BY Goals
<1>8. c.store.slot <= now - 1 - Lag /\ store.slot <= polled - 1 - Lag /\ store.slot \in Nat
  BY <1>2, <1>6 DEF BoundsInv, FreshInv, OperationInv, TypeOK, ClientTypeOK, Store
<1>9. /\ c.store.slot > store.slot => c.store.next
      /\ Served(MaxLag) => c.store.next /\ Period(c.store.slot) = goal
      /\ isPrompt =>
            /\ c.store.next /\ Period(c.store.slot) \in {goal - 1, goal}
            /\ Served(0) => Period(c.store.slot) = goal
  BY <1>2 DEF SyncInv, PromptSyncInv
<1>10. s # Rejected => s = a /\ Verifies(u, now, c.store)
  BY DEF VerifyAndApply
<1>11. ASSUME Verifies(u, now, c.store)
       PROVE  /\ a.slot = IF Finalized(k - 1) > c.store.slot THEN Finalized(k - 1)
                                                             ELSE c.store.slot
              /\ a.slot = c.store.slot => a.next = c.store.next
              /\ a.slot > c.store.slot /\ ~ a.next => Period(k) = Period(a.slot)
              /\ a.slot > c.store.slot /\ c.store.next /\ ~ a.next =>
                    Period(a.slot) = Period(c.store.slot) + 1
  BY <1>3, <1>11, FinalityApplies
<1>12. /\ Finalized(k - 1) \in Nat
       /\ Finalized(k - 1) > polled - 1 - Lag =>
             k = polled + 1 /\ k = now /\ Finalized(k - 1) = polled - Lag
  BY <1>6, ChainAssumption DEF Finalized
<1> HIDE DEF c, goal, u, a, s, e, d
<1>13. SyncInv(d) /\ PromptSyncInv(d)
  BY <1>2, <1>5 DEF SyncInv, PromptSyncInv
<1>14. ASSUME s # Rejected, s.slot > Finalized(polled - 1)
       PROVE  KeepsUp(s, polled)
  <2>1. s = a /\ Verifies(u, now, c.store) /\ a.slot > polled - 1 - Lag
    BY <1>6, <1>10, <1>14
  <2>2. a.slot >= Finalized(polled - 1)
    BY <1>3, <1>6, <1>11, <1>12, <2>1
  <2>3. CASE a.slot = c.store.slot
    <3>1. c.store.slot > store.slot
      BY <1>3, <1>6, <1>8, <2>1, <2>3
    <3>2. a.next
      BY <1>9, <1>11, <2>1, <2>3, <3>1
    <3> QED
      BY <2>1, <2>2, <3>2 DEF KeepsUp
  <2>4. CASE a.slot # c.store.slot
    <3>1. a.slot = Finalized(k - 1) /\ a.slot > c.store.slot
      BY <1>3, <1>11, <1>12, <2>1, <2>4
    <3>2. k = polled + 1 /\ a.slot = polled - Lag /\ a.slot \in Nat /\ a.slot <= polled
      BY <1>6, <1>12, <2>1, <3>1
    <3> SUFFICES ASSUME ~ a.next PROVE Period(polled + 2) = Period(a.slot)
      BY <2>1, <2>2 DEF KeepsUp
    <3>3. Period(polled + 1) = Period(a.slot)
      BY <1>11, <2>1, <3>1, <3>2
    <3>4. goal = Period(a.slot)
      BY <1>6, <3>2, <3>3, SamePeriod DEF goal
    <3>5. ASSUME Period(polled + 2) # goal PROVE FALSE
      <4>1. FirstSlot(goal) + PeriodLength <= polled + 2
        BY <1>6, <1>7, <3>5
      <4>2. Lag + MaxLag + 2 < PeriodLength
        BY FreshAssumption
      <4>3. FirstSlot(goal) + Lag < polled - MaxLag
        BY <1>6, <1>7, <4>1, <4>2
      <4>4. c.store.next /\ Period(c.store.slot) = goal
        BY <1>7, <1>9, <4>3
      <4>5. Period(a.slot) = Period(c.store.slot) + 1
        BY <1>11, <2>1, <3>1, <4>4
      <4> QED
        BY <1>7, <3>4, <4>4, <4>5
    <3> QED
      BY <3>4, <3>5
  <2> QED
    BY <2>3, <2>4
<1>15. ASSUME isPrompt
       PROVE  s # Rejected /\ KeepsUp(s, polled)
  <2>1. /\ k = now /\ c.store.next /\ Period(c.store.slot) \in {goal - 1, goal}
        /\ Served(0) => Period(c.store.slot) = goal
    BY <1>1, <1>9, <1>15
  <2>2. Served(0) <=> FirstSlot(goal) + Lag < polled
    BY <1>6, <1>7
  <2>3. Period(now) \in Nat /\ (Period(now) # goal => Served(0) /\ Period(now) = goal + 1)
    <3>1. Period(now) \in Nat /\ Lag + 3 < PeriodLength
      BY <1>6, PeriodNat, FreshAssumption
    <3>2. ASSUME Period(now) # goal PROVE Served(0)
      <4>1. FirstSlot(goal) + PeriodLength <= now
        BY <1>6, <1>7, <3>2
      <4> QED
        BY <1>6, <1>7, <2>2, <3>1, <4>1
    <3>3. Period(now) = goal \/ Period(now) = goal + 1
      BY <1>6, <3>1, NextPeriod DEF goal
    <3> QED
      BY <3>1, <3>2, <3>3
  <2>4. \/ Period(now) = Period(c.store.slot)
        \/ Period(now) = Period(c.store.slot) + 1
    BY <1>3, <1>7, <2>1, <2>3
  <2>5. Verifies(u, now, c.store)
    <3>1. u.sig = now /\ u.att = now - 1
      BY <1>6, <2>1 DEF u, FinalityUpdateAt, MakeUpdate
    <3>2. now - 1 > c.store.slot
      BY <1>3, <1>6, <1>8
    <3> QED
      BY <1>6, <2>1, <2>4, <3>1, <3>2 DEF Verifies
  <2>6. s = a
    BY <2>5 DEF s, a, VerifyAndApply
  <2>7. /\ a.slot = IF now - 1 - Lag > c.store.slot THEN now - 1 - Lag ELSE c.store.slot
        /\ a.slot = c.store.slot => a.next
        /\ a.slot > c.store.slot /\ ~ a.next =>
              /\ Period(now) = Period(a.slot)
              /\ Period(a.slot) = Period(c.store.slot) + 1
    BY <1>6, <1>11, <2>1, <2>5
  <2>8. a.slot \in Nat /\ a.slot = now - 1 - Lag /\ a.slot <= polled
    BY <1>3, <1>6, <1>8, <2>7
  <2>9. s # Rejected
    BY <2>6, <2>8 DEF Rejected
  <2>10. a.slot >= Finalized(polled - 1)
    BY <1>6, <2>8
  <2>11. ASSUME ~ a.next PROVE Period(polled + 2) = Period(a.slot)
    <3>1. a.slot > c.store.slot
      BY <1>3, <1>6, <1>8, <2>7, <2>8, <2>11
    <3>2. Period(now) = Period(a.slot) /\ Period(a.slot) = Period(c.store.slot) + 1
      BY <2>7, <2>11, <3>1
    <3>3. Period(a.slot) <= goal
      BY <1>6, <2>8, PeriodMonotone DEF goal
    <3>4. Period(a.slot) = goal /\ ~ Served(0)
      BY <1>3, <1>7, <2>1, <3>2, <3>3
    <3>5. Lag + 3 < PeriodLength
      BY FreshAssumption
    <3>6. ~ (FirstSlot(goal) + PeriodLength <= polled + 2)
      BY <1>6, <1>7, <2>2, <3>4, <3>5
    <3>7. Period(polled + 2) = goal
      BY <1>6, <1>7, <3>6
    <3> QED
      BY <3>4, <3>7
  <2> QED
    BY <2>6, <2>9, <2>10, <2>11 DEF KeepsUp
<1>16. ASSUME s # Rejected PROVE CallFresh(d, r \in prompt')
  <2>1. DoneInv(d)
    BY <1>2, <1>5, <1>14, <1>16 DEF DoneInv
  <2> QED
    BY <1>5, <1>13, <1>15, <2>1 DEF CallFresh, SyncOK, DoneOK
<1>17. s = Rejected => r \notin prompt'
  BY <1>15
<1>18. s # Rejected => CallFresh([e EXCEPT !.pc = "done", !.store = s], r \in prompt')
  BY <1>16 DEF d
<1> QED
  BY <1>1, <1>4, <1>17, <1>18, ContinueFresh

-----------------------------------------------------------------------------
(* The steps of an advance                                                 *)

LEMMA AdvanceFinalityFresh ==
    ASSUME TypeOK, FollowInv, FreshInv, loop = "advance", NEW r \in Rpcs,
           NEW k \in Int, k <= now, AdvanceFinality(r, k),
           UNCHANGED <<loop, stored, polled>>
    PROVE  FreshInv'
<1> DEFINE c    == calls[r]
           u    == FinalityUpdateAt(k)
           a    == Apply(u, c.store)
           s    == VerifyAndApply(u, now, c.store)
           pc   == IF s.next THEN "done" ELSE "committee"
           d    == [c EXCEPT !.pc = pc, !.store = s]
           isPrompt == r \in prompt'
<1>1. /\ prompt' \subseteq prompt /\ (isPrompt => k = now)
      /\ UNCHANGED <<now, store>>
  BY PromptAnswers DEF AdvanceFinality
<1>2. /\ c \in CallType /\ c.pc = "finality" /\ AdvanceInv(c) /\ DoneInv(c)
  <2>1. CallFresh(c, r \in prompt)
    BY CallsAreFresh
  <2> QED
    BY <2>1 DEF CallFresh, AdvanceOK, DoneOK, AdvanceFinality, TypeOK, ClientTypeOK
<1>3. c.store = store /\ store \in Store /\ store.slot \in Nat /\ Period(store.slot) \in Nat
  BY <1>2, PeriodNat DEF AdvanceInv, TypeOK, ClientTypeOK, Store
<1>4. Continue(r, c, pc, s)
  BY DEF AdvanceFinality
<1>5. d.pc = pc /\ d.op = c.op /\ d.began = c.began /\ d.store = s
  BY <1>2 DEF CallType
<1>6. /\ polled \in Nat /\ now \in Nat /\ Lag \in Nat /\ Lag > 0
      /\ PeriodLength \in Nat /\ Lag + 1 < polled /\ polled <= now /\ now <= polled + 1
      /\ Finalized(polled - 1) = polled - 1 - Lag /\ Finalized(now - 1) = now - 1 - Lag
      /\ Finalized(polled - 2) = polled - 2 - Lag
  BY Times
<1>7. /\ store.slot <= polled - 1 - Lag
      /\ isPrompt => /\ store.slot >= polled - 2 - Lag
                     /\ store.next \/ Period(polled + 1) = Period(store.slot)
  BY <1>1, <1>6 DEF FreshInv, OperationInv
<1>8. s # Rejected => s = a /\ Verifies(u, now, c.store)
  BY DEF VerifyAndApply
<1>9. ASSUME Verifies(u, now, c.store)
      PROVE  /\ a.slot = IF Finalized(k - 1) > store.slot THEN Finalized(k - 1)
                                                          ELSE store.slot
             /\ a.slot > store.slot /\ ~ a.next => Period(k) = Period(a.slot)
  BY <1>3, <1>9, FinalityApplies
<1>10. /\ Finalized(k - 1) \in Nat
       /\ Finalized(k - 1) > polled - 1 - Lag => k = polled + 1 /\ k = now
  BY <1>6, ChainAssumption DEF Finalized
<1>11. pc \in {"done", "committee"} /\ (pc = "done" => s.next) /\ (pc = "committee" => ~ s.next)
  OBVIOUS
<1> HIDE DEF c, u, a, s, pc, d
<1>12. ASSUME s # Rejected PROVE AdvanceInv(d) /\ DoneInv(d)
  <2>1. s = a /\ Verifies(u, now, c.store)
    BY <1>8, <1>12
  <2>2. ASSUME s.slot > Finalized(polled - 1)
        PROVE  /\ now = polled + 1
               /\ ~ s.next => Period(now) = Period(s.slot)
               /\ s.slot >= Finalized(polled - 1)
    BY <1>3, <1>6, <1>7, <1>9, <1>10, <2>1, <2>2
  <2>3. AdvanceInv(d)
    BY <1>2, <1>5, <1>11, <2>2 DEF AdvanceInv
  <2>4. DoneInv(d)
    BY <1>2, <1>5, <1>11, <2>2 DEF DoneInv, KeepsUp
  <2> QED
    BY <2>3, <2>4
<1>13. ASSUME isPrompt
       PROVE  s # Rejected /\ s.slot >= Finalized(polled - 1)
  <2>1. \/ store.next /\ (Period(now) = Period(store.slot)
                           \/ Period(now) = Period(store.slot) + 1)
        \/ Period(now) = Period(store.slot)
    <3>1. Lag + 3 < PeriodLength
      BY FreshAssumption
    <3>2. store.slot <= now /\ now < store.slot + PeriodLength
      BY <1>3, <1>6, <1>7, <1>13, <3>1
    <3>3. CASE store.next
      BY <1>3, <1>6, <3>2, <3>3, NextPeriod
    <3>4. CASE ~ store.next
      <4>1. Period(polled + 1) = Period(store.slot) /\ polled + 1 \in Nat /\ now <= polled + 1
        BY <1>6, <1>7, <1>13, <3>4
      <4> QED
        BY <1>3, <1>6, <3>2, <4>1, SamePeriod
    <3> QED
      BY <3>3, <3>4
  <2>2. Verifies(u, now, c.store)
    <3>1. u.sig = now /\ u.att = now - 1
      BY <1>1, <1>6, <1>13 DEF u, FinalityUpdateAt, MakeUpdate
    <3>2. now - 1 > store.slot
      BY <1>3, <1>6, <1>7
    <3> QED
      BY <1>3, <1>6, <2>1, <3>1, <3>2 DEF Verifies
  <2>3. s = a
    BY <2>2 DEF s, a, VerifyAndApply
  <2>4. a.slot \in Nat /\ a.slot >= Finalized(polled - 1)
    BY <1>1, <1>3, <1>6, <1>7, <1>9, <1>13, <2>2
  <2> QED
    BY <2>3, <2>4 DEF Rejected
<1>14. ASSUME s # Rejected PROVE CallFresh(d, r \in prompt')
  BY <1>5, <1>11, <1>12, <1>13, <1>14
     DEF CallFresh, AdvanceOK, DoneOK, PromptAdvanceInv, KeepsUp
<1>15. s = Rejected => r \notin prompt'
  BY <1>13
<1>16. s # Rejected => CallFresh([c EXCEPT !.pc = pc, !.store = s], r \in prompt')
  BY <1>14 DEF d
<1> QED
  BY <1>1, <1>4, <1>15, <1>16, ContinueFresh

(* The update asked for makes the store know the next committee, once the  *)
(* node has one that finalizes a header of the store's period.             *)
LEMMA CommitteeAnswer ==
    ASSUME NEW old \in Store, ~ old.next, NEW k \in Int, NEW n \in Int, k <= n
    PROVE  LET p  == Period(old.slot)
               us == CommitteeUpdates(p, 1, k)
               s  == IF Len(us) = 1 /\ Verifies(us[1], n, old) THEN Apply(us[1], old) ELSE old
           IN /\ s \in Store
              /\ s.slot > old.slot => s.next
              /\ s.slot >= old.slot
              /\ FirstSlot(p) + Lag < k => s.next
<1> DEFINE p  == Period(old.slot)
           us == CommitteeUpdates(p, 1, k)
           u  == us[1]
           s  == IF Len(us) = 1 /\ Verifies(u, n, old) THEN Apply(u, old) ELSE old
<1>1. p \in Nat /\ old.slot \in Nat /\ 1 \in Nat /\ 1 \in 0 .. 1
  BY PeriodNat DEF Store
<1>2. us \in Seq(Update) /\ \A i \in 1 .. Len(us) : MadeIn(us[i], p + i - 1, k)
  BY <1>1, CommitteeUpdatesMade
<1>3. ASSUME Len(us) = 1
      PROVE  MadeIn(u, p, n) /\ u.fin \in Nat /\ u.next = TRUE
  <2> HIDE DEF us, p
  <2>1. 1 \in 1 .. Len(us) /\ p + 1 - 1 = p
    BY <1>1, <1>3
  <2>2. MadeIn(u, p + 1 - 1, k)
    BY <1>2, <2>1
  <2>3. MadeIn(u, p, k)
    BY <2>1, <2>2
  <2>4. Made(u, n)
    BY <2>3, MadeBounds DEF MadeIn
  <2> QED
    BY <2>3, <2>4 DEF MadeIn, Made, Update
<1>4. ASSUME FirstSlot(p) + Lag < k
      PROVE  Len(us) = 1 /\ Complete(u, p)
  <2>1. Attested(p, k) # {} /\ Complete(UpdateOf(p, k), p)
    BY <1>1, <1>4, CompleteUpdate, LagsFit
  <2>2. /\ \A q \in p .. p + 1 - 1 : Attested(q, k) # {}
        /\ \A q \in p + 1 .. p + 1 - 1 : Attested(q, k) = {}
    BY <1>1, <2>1
  <2>3. Len(us) = 1 /\ \A i \in 1 .. 1 : us[i] = UpdateOf(p + i - 1, k)
    BY <1>1, <2>2, CommitteeUpdatesAre
  <2>4. 1 \in 1 .. 1 /\ p + 1 - 1 = p
    BY <1>1
  <2>5. u = UpdateOf(p + 1 - 1, k)
    BY <2>3, <2>4
  <2> QED
    BY <2>1, <2>3, <2>4, <2>5
<1> HIDE DEF p, us, u
<1>5. /\ s \in Store
      /\ s.slot > old.slot => s.next
      /\ s.slot >= old.slot
  <2>1. CASE Len(us) = 1 /\ Verifies(u, n, old)
    <3>1. s = Apply(u, old) /\ u.fin \in Nat /\ u.next = TRUE
      BY <1>3, <2>1
    <3> HIDE DEF s
    <3>2. s.slot > old.slot => s.next
      BY <3>1, CommitteeApplies
    <3>3. s \in Store /\ s.slot >= old.slot
      BY <3>1, ApplyBounds
    <3> QED
      BY <3>2, <3>3
  <2>2. CASE ~ (Len(us) = 1 /\ Verifies(u, n, old))
    BY <1>1, <2>2
  <2> QED
    BY <2>1, <2>2
<1>6. ASSUME FirstSlot(p) + Lag < k PROVE s.next
  <2>1. Len(us) = 1 /\ Complete(u, p) /\ MadeIn(u, p, n)
    BY <1>3, <1>4, <1>6
  <2>2. Verifies(u, n, old)
    BY <1>1, <2>1, CommitteeVerifies DEF p
  <2>3. Apply(u, old).next
    BY <1>1, <2>1, <2>2, CompleteApplies
  <2> QED
    BY <2>1, <2>2, <2>3
<1> QED
  BY <1>5, <1>6 DEF p, us, u

LEMMA AdvanceCommitteeFresh ==
    ASSUME TypeOK, FollowInv, FreshInv, loop = "advance", NEW r \in Rpcs,
           NEW k \in Int, k <= now, AdvanceCommittee(r, k),
           UNCHANGED <<loop, stored, polled>>
    PROVE  FreshInv'
<1> DEFINE c    == calls[r]
           old  == c.store
           p    == Period(old.slot)
           us   == CommitteeUpdates(p, 1, k)
           s    == IF Len(us) = 1 /\ Verifies(us[1], now, old) THEN Apply(us[1], old) ELSE old
           d    == [c EXCEPT !.pc = "done", !.store = s]
           isPrompt == r \in prompt'
<1>1. /\ prompt' \subseteq prompt /\ (isPrompt => k = now)
      /\ UNCHANGED <<now, store>> /\ now <= k + MaxLag
  BY PromptAnswers DEF AdvanceCommittee
<1>2. /\ c \in CallType /\ c.pc = "committee" /\ AdvanceInv(c) /\ DoneInv(c) /\ BoundsInv(c)
      /\ isPrompt => PromptAdvanceInv(c)
  <2>1. CallFresh(c, r \in prompt)
    BY CallsAreFresh
  <2> QED
    BY <1>1, <2>1 DEF CallFresh, AdvanceOK, DoneOK, AdvanceCommittee, TypeOK, ClientTypeOK,
       FollowInv, ClientInv
<1>3. /\ old \in Store /\ old.slot \in Nat /\ ~ old.next
  BY <1>2 DEF CallType, AdvanceInv, Store
<1>4. Continue(r, c, "done", s)
  BY DEF AdvanceCommittee
<1>5. d.pc = "done" /\ d.op = c.op /\ d.began = c.began /\ d.store = s
  BY <1>2 DEF CallType
<1>6. /\ polled \in Nat /\ now \in Nat /\ Lag \in Nat /\ Lag > 0 /\ MaxLag \in Nat
      /\ PeriodLength \in Nat /\ Lag + 1 < polled /\ polled <= now /\ now <= polled + 1
      /\ Finalized(polled - 1) = polled - 1 - Lag /\ Finalized(now - 1) = now - 1 - Lag
  BY Times
<1>7. /\ s \in Store /\ (s.slot > old.slot => s.next) /\ s.slot >= old.slot
      /\ FirstSlot(p) + Lag < k => s.next
  BY <1>3, <1>6, CommitteeAnswer
<1>8. p \in Nat /\ FirstSlot(p) \in Nat /\ FirstSlot(p) <= old.slot
  BY <1>3, PeriodSlots, FirstSlots
<1> HIDE DEF c, old, us, s, d
<1>9. ASSUME s.slot > Finalized(polled - 1)
      PROVE  KeepsUp(s, polled)
  <2>1. s.slot \in Nat /\ s.slot >= Finalized(polled - 1)
    BY <1>6, <1>7, <1>9 DEF Store
  <2> SUFFICES ASSUME ~ s.next PROVE Period(polled + 2) = Period(s.slot)
    BY <2>1 DEF KeepsUp
  <2>2. s.slot = old.slot
    BY <1>3, <1>7, <2>1
  <2>3. now = polled + 1 /\ Period(now) = p
    BY <1>2, <1>9, <2>2 DEF AdvanceInv, old
  <2>4. ASSUME Period(polled + 2) # p PROVE FALSE
    <3>1. FirstSlot(p) + PeriodLength <= polled + 2
      <4>1. polled + 2 \in Nat /\ now <= polled + 2
        BY <1>6
      <4> QED
        BY <1>6, <2>3, <2>4, <4>1, LaterSlot
    <3>2. Lag + MaxLag + 2 < PeriodLength
      BY FreshAssumption
    <3>3. FirstSlot(p) + Lag < k
      BY <1>1, <1>6, <1>8, <2>3, <3>1, <3>2
    <3> QED
      BY <1>7, <3>3
  <2> QED
    BY <2>2, <2>4
<1>10. ASSUME isPrompt PROVE KeepsUp(s, polled)
  <2>1. old.slot >= Finalized(polled - 1) /\ k = now
    BY <1>1, <1>2, <1>10 DEF PromptAdvanceInv, old
  <2>2. old.slot <= now - 1 - Lag
    BY <1>2, <1>6 DEF BoundsInv, old
  <2>3. FirstSlot(p) + Lag < k
    BY <1>3, <1>6, <1>8, <2>1, <2>2
  <2>4. s.slot \in Nat /\ s.slot >= Finalized(polled - 1)
    BY <1>3, <1>6, <1>7, <2>1 DEF Store
  <2> QED
    BY <1>7, <2>3, <2>4 DEF KeepsUp
<1>11. s # Rejected
  BY <1>7 DEF Store, Rejected
<1>12. CallFresh(d, r \in prompt')
  <2>1. AdvanceInv(d) /\ PromptAdvanceInv(d)
    BY <1>2, <1>5 DEF AdvanceInv, PromptAdvanceInv
  <2>2. DoneInv(d)
    BY <1>2, <1>5, <1>9 DEF DoneInv
  <2> QED
    BY <1>5, <1>10, <2>1, <2>2 DEF CallFresh, AdvanceOK, DoneOK
<1>13. CallFresh([c EXCEPT !.pc = "done", !.store = s], r \in prompt')
  BY <1>12 DEF d
<1> QED
  BY <1>1, <1>4, <1>11, <1>13, ContinueFresh

-----------------------------------------------------------------------------
(* The steps of the loop                                                   *)

LEMMA CallStepFresh ==
    ASSUME TypeOK, FollowInv, FreshInv, Calls
    PROVE  FreshInv'
<1>1. UNCHANGED <<loop, stored, polled>>
  BY DEF Calls
<1>2. loop \in {"sync", "advance"}
  <2>1. ASSUME Idle PROVE FALSE
    BY <2>1 DEF Calls, Idle, Outage, Running, CallStep, FailCall, VerifyUpdate, FetchUpdates,
       SyncFinality, AdvanceFinality, AdvanceCommittee
  <2> QED
    BY <2>1 DEF FollowInv
<1>3. CASE Outage
  BY <1>1, <1>2, <1>3, OutageFresh
<1>4. ASSUME NEW r \in Rpcs, CallStep(r)
      PROVE  FreshInv'
  <2>1. CallFresh(calls[r], r \in prompt)
    BY <1>2, CallsAreFresh
  <2>2. loop = "sync" => calls[r].op = "sync" /\ calls[r].pc # "committee"
    BY <2>1 DEF CallFresh, SyncOK, SyncInv
  <2>3. loop = "advance" =>
           calls[r].op = "advance" /\ calls[r].pc \notin {"updates", "verify"}
    BY <2>1 DEF CallFresh, AdvanceOK, AdvanceInv
  <2>4. now \in Int /\ MaxLag \in Int
    BY ClientAssumption DEF TypeOK, ClientTypeOK
  <2>5. CASE FailCall(r)
    BY <1>1, <1>2, <2>5, FailCallFresh
  <2>6. CASE VerifyUpdate(r)
    <3>1. loop = "sync"
      BY <1>2, <2>3, <2>6 DEF VerifyUpdate
    <3> QED
      BY <1>1, <2>6, <3>1, VerifyFresh
  <2>7. ASSUME NEW k \in now - MaxLag .. now, FetchUpdates(r, k)
        PROVE  FreshInv'
    <3>1. loop = "sync" /\ k \in Int /\ k <= now
      BY <1>2, <2>3, <2>4, <2>7 DEF FetchUpdates
    <3> QED
      BY <1>1, <2>7, <3>1, FetchedFresh
  <2>8. ASSUME NEW k \in now - MaxLag .. now, SyncFinality(r, k)
        PROVE  FreshInv'
    <3>1. loop = "sync" /\ k \in Int /\ k <= now
      BY <1>2, <2>3, <2>4, <2>8 DEF SyncFinality
    <3> QED
      BY <1>1, <2>8, <3>1, SyncFinalityFresh
  <2>9. ASSUME NEW k \in now - MaxLag .. now, AdvanceFinality(r, k)
        PROVE  FreshInv'
    <3>1. loop = "advance" /\ k \in Int /\ k <= now
      BY <1>2, <2>2, <2>4, <2>9 DEF AdvanceFinality
    <3> QED
      BY <1>1, <2>9, <3>1, AdvanceFinalityFresh
  <2>10. ASSUME NEW k \in now - MaxLag .. now, AdvanceCommittee(r, k)
         PROVE  FreshInv'
    <3>1. loop = "advance" /\ k \in Int /\ k <= now
      BY <1>2, <2>2, <2>4, <2>10 DEF AdvanceCommittee
    <3> QED
      BY <1>1, <2>10, <3>1, AdvanceCommitteeFresh
  <2> QED
    BY <1>4, <2>5, <2>6, <2>7, <2>8, <2>9, <2>10 DEF CallStep
<1> QED
  BY <1>3, <1>4 DEF Calls

LEMMA StartSyncFresh ==
    ASSUME TypeOK, FollowInv, FreshInv, StartSync
    PROVE  FreshInv'
<1> DEFINE d == [IdleCall EXCEPT !.pc = "updates", !.op = "sync", !.began = now,
                                 !.store = store, !.fetch = Period(store.slot)]
<1>1. /\ loop = "bootstrapped" /\ loop' = "sync" /\ polled' = now
      /\ UNCHANGED <<now, prompt, store, stored>>
      /\ calls' = [r \in Rpcs |-> d]
  BY DEF StartSync, BeginSync, Begin
<1>2. /\ d.pc = "updates" /\ d.op = "sync" /\ d.began = now /\ d.store = store
      /\ d.fetch = Period(store.slot) /\ d.updates = <<>>
  BY DEF IdleCall
<1> HIDE DEF d
<1>3. /\ now \in Nat /\ store.slot \in Nat /\ store.slot <= Finalized(now - 1)
      /\ InitNow <= now /\ ~ store.next
  BY <1>1 DEF TypeOK, ClientTypeOK, Store, FollowInv, ClientInv, FreshInv
<1>4. Period(store.slot) \in Period(store.slot) .. Period(now)
  <2>1. Finalized(now - 1) \in Nat /\ Finalized(now - 1) <= now
    BY <1>3, ChainAssumption DEF Finalized
  <2>2. store.slot <= now
    BY <1>3, <2>1
  <2>3. Period(store.slot) <= Period(now) /\ Period(store.slot) \in Nat /\ Period(now) \in Nat
    BY <1>3, <2>2, PeriodMonotone, PeriodNat
  <2> QED
    BY <2>3
<1>5. Len(<<>>) = Period(store.slot) - Period(store.slot)
      /\ CompleteFrom(<<>>, Len(<<>>), Period(store.slot))
  BY <1>3, PeriodNat DEF CompleteFrom
<1>6. ASSUME NEW r \in Rpcs PROVE calls'[r] = d
  BY <1>1
<1>7. ASSUME NEW r \in Rpcs PROVE SyncInv(calls[r])'
  BY <1>1, <1>2, <1>3, <1>4, <1>6 DEF SyncInv
<1>8. ASSUME NEW r \in Rpcs PROVE PromptSyncInv(calls[r])'
  BY <1>1, <1>2, <1>3, <1>5, <1>6 DEF PromptSyncInv
<1>9. OperationInv'
  <2>1. ASSUME NEW r \in Rpcs PROVE DoneInv(calls[r])' /\ calls'[r].pc # "done"
    BY <1>1, <1>2, <1>6 DEF DoneInv
  <2> QED
    BY <1>1, <1>3, <2>1 DEF OperationInv, TypeOK, ClientTypeOK
<1> QED
  BY <1>1, <1>3, <1>7, <1>8, <1>9, InitNowType DEF FreshInv, TypeOK, ClientTypeOK

LEMMA PollFresh ==
    ASSUME TypeOK, FollowInv, FreshInv, Poll
    PROVE  FreshInv'
<1> DEFINE d == [IdleCall EXCEPT !.pc = "finality", !.op = "advance", !.began = now,
                                 !.store = store, !.fetch = Period(store.slot)]
<1>1. /\ loop = "sleep" /\ loop' = "advance" /\ polled' = now
      /\ UNCHANGED <<now, prompt, store, stored>>
      /\ calls' = [r \in Rpcs |-> d]
  BY DEF Poll, BeginAdvance, Begin
<1>2. d.pc = "finality" /\ d.op = "advance" /\ d.began = now /\ d.store = store
  BY DEF IdleCall
<1> HIDE DEF d
<1>3. /\ now \in Nat /\ store.slot \in Nat /\ store.slot <= Finalized(now - 1)
      /\ InitNow <= now
  BY <1>1 DEF TypeOK, ClientTypeOK, Store, FollowInv, ClientInv, FreshInv
<1>4. /\ polled \in Nat /\ Lag \in Nat /\ Lag + 1 < polled /\ polled <= now /\ now <= polled + 1
      /\ Finalized(polled - 1) = polled - 1 - Lag /\ Finalized(now - 1) = now - 1 - Lag
      /\ Finalized(now - 2) = now - 2 - Lag
  BY <1>1, Times, FinalizedIs
<1>5. ASSUME prompt # {}
      PROVE  /\ store.slot >= Finalized(now - 2)
             /\ store.next \/ Period(now + 1) = Period(store.slot)
  <2>1. KeepsUp(store, polled)
    BY <1>1, <1>5 DEF FreshInv
  <2>2. store.slot >= Finalized(now - 2)
    BY <1>3, <1>4, <2>1 DEF KeepsUp
  <2>3. CASE Period(polled + 2) = Period(store.slot)
    <3>1. now + 1 \in Nat /\ polled + 2 \in Nat /\ store.slot <= now + 1 /\ now + 1 <= polled + 2
      BY <1>3, <1>4
    <3> QED
      BY <1>3, <2>2, <2>3, <3>1, SamePeriod
  <2> QED
    BY <2>1, <2>2, <2>3 DEF KeepsUp
<1>6. ASSUME NEW r \in Rpcs PROVE calls'[r] = d
  BY <1>1
<1>7. ASSUME NEW r \in Rpcs PROVE AdvanceInv(calls[r])' /\ PromptAdvanceInv(calls[r])'
  BY <1>1, <1>2, <1>6 DEF AdvanceInv, PromptAdvanceInv
<1>8. OperationInv'
  <2>1. ASSUME NEW r \in Rpcs PROVE DoneInv(calls[r])' /\ calls'[r].pc # "done"
    BY <1>1, <1>2, <1>6 DEF DoneInv
  <2> QED
    BY <1>1, <1>3, <2>1 DEF OperationInv, TypeOK, ClientTypeOK
<1> QED
  BY <1>1, <1>3, <1>5, <1>7, <1>8 DEF FreshInv, TypeOK, ClientTypeOK

(* The store that wins is at least as advanced as that of a prompt RPC.    *)
LEMMA AdoptFresh ==
    ASSUME TypeOK, FreshInv, loop \in {"sync", "advance"}, NEW r \in Rpcs, Adopt(r),
           loop' = "save", UNCHANGED <<stored, polled>>
    PROVE  FreshInv'
<1>1. /\ Joined /\ calls[r].pc = "done" /\ store' = calls[r].store /\ UNCHANGED <<now, prompt>>
      /\ \A q \in Rpcs : calls[q].pc = "done" => AtLeast(calls[r].store, calls[q].store)
  BY DEF Adopt, Candidates
<1>2. ASSUME prompt # {} PROVE KeepsUp(calls[r].store, polled)
  <2>1. PICK q \in Rpcs : q \in prompt
    BY <1>2 DEF TypeOK, ClientTypeOK
  <2>2. CallFresh(calls[q], TRUE) /\ DoneInv(calls[r])
    BY <2>1, CallsAreFresh DEF CallFresh, SyncOK, AdvanceOK, DoneOK
  <2>3. calls[q].pc # "failed" /\ calls[q].pc \in {"done", "failed"}
    BY <1>1, <2>2 DEF CallFresh, SyncOK, AdvanceOK, PromptSyncInv, PromptAdvanceInv, Joined
  <2>4. KeepsUp(calls[q].store, polled) /\ AtLeast(calls[r].store, calls[q].store)
    BY <1>1, <2>2, <2>3 DEF CallFresh, SyncOK, AdvanceOK, DoneOK
  <2>5. /\ calls[q].store.slot \in Nat /\ calls[r].store.slot \in Nat
        /\ Finalized(polled - 1) \in Nat
    <3>1. polled - 1 \in Int
      BY Times
    <3>2. calls[q] \in CallType /\ calls[r] \in CallType
      BY DEF TypeOK, ClientTypeOK
    <3> QED
      BY <3>1, <3>2, FinalizedType DEF CallType, Store
  <2>6. CASE calls[r].store.slot > calls[q].store.slot
    <3>1. calls[r].store.slot > Finalized(polled - 1)
      BY <2>4, <2>5, <2>6 DEF KeepsUp
    <3> QED
      BY <1>1, <2>2, <3>1 DEF DoneInv
  <2>7. CASE /\ calls[r].store.slot = calls[q].store.slot
             /\ calls[r].store.next \/ ~ calls[q].store.next
    BY <2>4, <2>7 DEF KeepsUp
  <2> QED
    BY <2>4, <2>6, <2>7 DEF AtLeast
<1>3. prompt # {} => KeepsUp(store, polled)'
  BY <1>1, <1>2 DEF KeepsUp
<1> QED
  BY <1>1, <1>3 DEF FreshInv

LEMMA EndFresh ==
    ASSUME TypeOK, FreshInv, EndSync \/ EndAdvance
    PROVE  FreshInv'
<1>1. CASE EndSync /\ GiveUp /\ loop' = "boot"
  BY <1>1 DEF GiveUp, FreshInv, EndSync
<1>2. CASE EndAdvance /\ GiveUp
  <2>1. ASSUME NEW q \in Rpcs PROVE q \notin prompt
    <3>1. calls[q].pc = "failed" /\ loop = "advance"
      BY <1>2 DEF GiveUp, AllFailed, EndAdvance
    <3> QED
      BY <3>1 DEF FreshInv, PromptAdvanceInv
  <2>2. prompt = {} /\ UNCHANGED <<now, prompt, store, stored, polled>>
        /\ loop = "advance" /\ loop' = "save"
    BY <1>2, <2>1 DEF GiveUp, EndAdvance, TypeOK, ClientTypeOK
  <2> QED
    BY <2>2 DEF FreshInv
<1>3. ASSUME NEW r \in Rpcs, Adopt(r), loop \in {"sync", "advance"}, loop' = "save",
             UNCHANGED <<stored, polled>>
      PROVE  FreshInv'
  BY <1>3, AdoptFresh
<1> QED
  BY <1>1, <1>2, <1>3 DEF EndSync, EndAdvance

LEMMA SaveFresh ==
    ASSUME TypeOK, FreshInv, Save
    PROVE  FreshInv'
<1>1. /\ loop = "save" /\ loop' = "health" /\ UNCHANGED <<now, prompt, store, polled>>
      /\ stored' = IF store.slot > stored THEN store.slot ELSE stored
  BY DEF Save, clientVars
<1>2. stored \in Int /\ store.slot \in Int /\ Finalized(polled - 1) \in Int
  BY FinalizedType DEF TypeOK, ClientTypeOK, Store, NoHeader
<1>3. ASSUME prompt # {}
      PROVE  KeepsUp(store, polled) /\ stored' >= Finalized(polled - 1)
  <2>1. KeepsUp(store, polled)
    BY <1>1, <1>3 DEF FreshInv
  <2> QED
    BY <1>1, <1>2, <2>1 DEF KeepsUp
<1> QED
  BY <1>1, <1>3 DEF FreshInv, KeepsUp

(* Steps after which the loop is where it starts, or goes on to sleep.     *)
LEMMA RestsFresh ==
    ASSUME TypeOK, FreshInv, Boot \/ FailBoot \/ Restart \/ Health \/ Crash
    PROVE  FreshInv'
<1>1. CASE Health
  <2>1. /\ loop = "health" /\ loop' \in {"boot", "sleep"}
        /\ UNCHANGED <<now, prompt, store, stored, polled>>
    BY <1>1 DEF Health, clientVars
  <2> QED
    BY <2>1 DEF FreshInv, KeepsUp
<1>2. CASE Boot
  <2>1. loop' = "bootstrapped" /\ now' = now /\ ~ store'.next
    BY <1>2 DEF Boot, Bootstrap
  <2> QED
    BY <2>1 DEF FreshInv
<1>3. CASE FailBoot \/ Restart \/ Crash
  <2>1. loop' \in {"down", "boot"} /\ now' = now
    BY <1>3 DEF FailBoot, Restart, Crash, clientVars
  <2> QED
    BY <2>1 DEF FreshInv
<1> QED
  BY <1>1, <1>2, <1>3

(* While an operation runs at most one slot begins.                        *)
LEMMA TickFresh ==
    ASSUME TypeOK, FollowInv, FreshInv, Tick
    PROVE  FreshInv'
<1>1. /\ now' = now + 1 /\ UNCHANGED <<prompt, store, calls, loop, stored, polled>>
      /\ loop \in {"down", "sync", "advance", "sleep"} /\ (loop = "sleep" => polled = now)
      /\ \A r \in Rpcs : calls[r].pc # "idle" => calls[r].began = now
      /\ now \in Nat /\ InitNow \in Nat
  BY InitNowType DEF Tick, NextSlot, TypeOK, ClientTypeOK
<1>2. InitNow <= now'
  BY <1>1 DEF FreshInv
<1>3. CASE loop = "down"
  BY <1>1, <1>2, <1>3 DEF FreshInv
<1>4. CASE loop = "sleep"
  <2>1. polled <= now' /\ now' <= polled + 1
    BY <1>1, <1>4
  <2> QED
    BY <1>1, <1>2, <1>4, <2>1 DEF FreshInv, KeepsUp
<1>5. CASE loop \in {"sync", "advance"}
  <2>1. polled = now
    <3>1. PICK r \in Rpcs : TRUE
      BY ClientAssumption
    <3>2. DoneInv(calls[r])
      BY <1>5 DEF FreshInv, OperationInv
    <3> QED
      BY <1>1, <3>2 DEF DoneInv
  <2>2. polled <= now' /\ now' <= polled + 1
    BY <1>1, <2>1
  <2>3. OperationInv'
    BY <1>1, <1>5 DEF FreshInv, OperationInv, DoneInv, KeepsUp
  <2>4. ASSUME loop = "sync", NEW r \in Rpcs
        PROVE  SyncInv(calls[r])' /\ (r \in prompt => PromptSyncInv(calls[r])')
    <3>1. SyncInv(calls[r]) /\ (r \in prompt => PromptSyncInv(calls[r]))
      BY <2>4 DEF FreshInv
    <3> QED
      BY <1>1, <3>1 DEF SyncInv, PromptSyncInv, Served
  <2>5. ASSUME loop = "advance", NEW r \in Rpcs
        PROVE  AdvanceInv(calls[r])' /\ (r \in prompt => PromptAdvanceInv(calls[r])')
    <3>1. AdvanceInv(calls[r]) /\ (r \in prompt => PromptAdvanceInv(calls[r]))
      BY <2>5 DEF FreshInv
    <3>2. now # polled + 1
      BY <1>1, <2>1
    <3> QED
      BY <1>1, <3>1, <3>2 DEF AdvanceInv, PromptAdvanceInv
  <2>6. prompt \subseteq Rpcs
    BY DEF TypeOK, ClientTypeOK
  <2> QED
    BY <1>1, <1>2, <1>5, <2>2, <2>3, <2>4, <2>5, <2>6 DEF FreshInv
<1> QED
  BY <1>1, <1>3, <1>4, <1>5

-----------------------------------------------------------------------------
(* The header stays fresh                                                  *)

LEMMA FreshStep == TypeOK /\ FollowInv /\ FreshInv /\ [Next]_vars => FreshInv'
<1> SUFFICES ASSUME TypeOK, FollowInv, FreshInv, [Next]_vars PROVE FreshInv'
  OBVIOUS
<1>1. CASE UNCHANGED vars
  BY <1>1 DEF vars, clientVars, FreshInv, OperationInv, DoneInv, KeepsUp, SyncInv,
     PromptSyncInv, AdvanceInv, PromptAdvanceInv, Served
<1>2. CASE Boot \/ FailBoot \/ Restart \/ Health \/ Crash
  BY <1>2, RestsFresh
<1>3. CASE StartSync
  BY <1>3, StartSyncFresh
<1>4. CASE Poll
  BY <1>4, PollFresh
<1>5. CASE EndSync \/ EndAdvance
  BY <1>5, EndFresh
<1>6. CASE Save
  BY <1>6, SaveFresh
<1>7. CASE Calls
  BY <1>7, CallStepFresh
<1>8. CASE Tick
  BY <1>8, TickFresh
<1> QED
  BY <1>1, <1>2, <1>3, <1>4, <1>5, <1>6, <1>7, <1>8 DEF Next, Progress, LoopStep

LEMMA FreshHolds == Spec => []FreshInv
<1>1. Init => FreshInv
  BY InitNowType DEF Init, FreshInv
<1> QED
  BY <1>1, FreshStep, LightClientHolds, PTL DEF Spec

LEMMA FreshEnough == TypeOK /\ FreshInv => StaysFresh
<1> SUFFICES ASSUME TypeOK, FreshInv, loop \in {"health", "sleep"}, prompt # {}
             PROVE  Age <= MaxAge
  BY DEF StaysFresh
<1>1. /\ polled \in Nat /\ now \in Nat /\ Lag \in Nat /\ now <= polled + 1
      /\ Finalized(polled - 1) = polled - 1 - Lag
  BY Times
<1>2. stored >= Finalized(polled - 1) /\ stored \in Int
  BY DEF FreshInv, TypeOK, NoHeader
<1>3. Lag + 2 <= MaxAge /\ MaxAge \in Nat
  BY FreshAssumption, LightClientAssumption
<1> QED
  BY <1>1, <1>2, <1>3 DEF Age

(* As long as one RPC answers promptly, whatever the others answer or fail *)
(* to, the header in Redis is not too old when check_header_health looks,  *)
(* whichever slot of a period the service has reached.                     *)
THEOREM LightClientStaysFresh == Spec => []StaysFresh
BY LightClientHolds, FreshHolds, FreshEnough, PTL
==============================================================================
