----------------------------- MODULE AlertsProofs -----------------------------
(***************************************************************************)
(* Alerts at the end of the process, for any number of alerts and any      *)
(* threshold.                                                              *)
(***************************************************************************)
EXTENDS Alerts, TLAPS

(* All that the proofs need of pruning: it drops finished tasks only.      *)
LEMMA PruneKeeps ==
    ASSUME NEW hs
    PROVE  Prune(hs) \subseteq hs /\ hs \subseteq Prune(hs) \cup Done
BY DEF Prune

LEMMA InitInv == Init => TypeOK /\ AlertsInv
BY DEF Init, TypeOK, MainPC, OnePlace, AlertsInv, InSight, LastWords, Posting, Done,
   Alive, Alerts

LEMMA SpawnInv ==
    ASSUME TypeOK, AlertsInv, NEW a \in Alerts, SpawnPost(a),
           UNCHANGED <<handles, flushed, inTime>>
    PROVE  /\ post' \in [Alerts -> {"none", "posting", "done"}]
           /\ logging' \in SUBSET Alerts
           /\ OnePlace'
           /\ Posting' = Posting \cup {a} /\ Done' = Done
           /\ InSight'
           /\ (logging \cup handles \cup flushed)' \subseteq Posting' \cup Done'
<1>1. a \notin Posting \cup Done
  BY DEF SpawnPost, Posting, Done
<1>2. Posting' = Posting \cup {a} /\ Done' = Done
  BY DEF SpawnPost, Posting, Done, TypeOK
<1>3. a \notin handles \cup flushed
  BY <1>1 DEF AlertsInv
<1> QED
  BY <1>1, <1>2, <1>3 DEF SpawnPost, TypeOK, OnePlace, AlertsInv, InSight

LEMMA LogInv ==
    ASSUME TypeOK, AlertsInv, NEW a \in Alerts, Log(a)
    PROVE  TypeOK' /\ AlertsInv'
<1>1. a # LastError /\ Alive
  BY AlertsAssumption DEF Log, Alive
<1>2. post'[LastError] = post[LastError]
  BY <1>1 DEF Log, SpawnPost, TypeOK, Alerts
<1> QED
  BY <1>1, <1>2, SpawnInv DEF Log, SpawnPost, TypeOK, AlertsInv, LastWords, Alive

LEMMA PushInv ==
    ASSUME TypeOK, AlertsInv, NEW a \in Alerts, Push(a)
    PROVE  TypeOK' /\ AlertsInv'
<1>1. Posting' = Posting /\ Done' = Done
  BY DEF Push, Posting, Done
<1>2. /\ handles' \subseteq handles \cup {a}
      /\ handles \cup {a} \subseteq handles' \cup Done
  BY PruneKeeps DEF Push
<1>3. a \in logging /\ a \notin handles /\ a \notin flushed
  BY DEF Push, TypeOK, OnePlace
<1>4. TypeOK'
  BY <1>2, <1>3 DEF Push, TypeOK, OnePlace
<1>5. /\ InSight'
      /\ (logging \cup handles \cup flushed)' \subseteq Posting' \cup Done'
  BY <1>1, <1>2, <1>3 DEF Push, AlertsInv, InSight, Posting, Done
<1>6. inTime' \subseteq Done' \cup (IF main = "flushing" THEN flushed' ELSE handles')
  BY <1>1, <1>2, <1>3 DEF Push, AlertsInv
<1> QED
  BY <1>1, <1>4, <1>5, <1>6 DEF Push, AlertsInv, LastWords, Alive

LEMMA FinishInv ==
    ASSUME TypeOK, AlertsInv, NEW a \in Alerts, Finish(a)
    PROVE  TypeOK' /\ AlertsInv'
<1>1. Posting' = Posting \ {a} /\ Done' = Done \cup {a} /\ a \in Posting
  BY DEF Finish, Posting, Done, TypeOK
<1>2. post[LastError] = "none" => post'[LastError] = "none"
  BY DEF Finish, TypeOK
<1> QED
  BY <1>1, <1>2 DEF Finish, TypeOK, OnePlace, AlertsInv, InSight, LastWords, Alive

LEMMA AwaitInv ==
    ASSUME TypeOK, AlertsInv, NEW a \in Alerts, Await(a)
    PROVE  TypeOK' /\ AlertsInv'
<1>1. Posting' = Posting /\ Done' = Done /\ a \in Done /\ a \notin Posting
  BY DEF Await, Posting, Done
<1> QED
  BY <1>1 DEF Await, TypeOK, OnePlace, AlertsInv, InSight, LastWords, Alive

LEMMA MainInv ==
    ASSUME TypeOK, AlertsInv, Main
    PROVE  TypeOK' /\ AlertsInv'
<1>1. CASE StartService \/ Fail \/ Exit
  <2>1. Posting' = Posting /\ Done' = Done
    BY <1>1 DEF StartService, Fail, Exit, Posting, Done
  <2> QED
    BY <1>1, <2>1 DEF StartService, Fail, Exit, GoTo, TypeOK, OnePlace, MainPC,
       AlertsInv, InSight, LastWords, Alive
<1>2. CASE Report
  <2>1. LastError \in Alerts /\ main = "failed" /\ main' = "reporting"
    BY <1>2 DEF Alerts, Report, GoTo
  <2> QED
    BY <1>2, <2>1, SpawnInv DEF Report, SpawnPost, TypeOK, MainPC, AlertsInv,
       LastWords, Alive
<1>3. CASE Flush
  <2>1. Posting' = Posting /\ Done' = Done /\ main = "reporting" /\ main' = "flushing"
    BY <1>3 DEF Flush, GoTo, Posting, Done
  <2>2. LastError \in inTime /\ flushed = {}
    BY <1>3, <2>1 DEF Flush, MainFree, AlertsInv
  <2> QED
    BY <1>3, <2>1, <2>2 DEF Flush, TypeOK, OnePlace, MainPC, AlertsInv, InSight,
       LastWords, Alive
<1> QED
  BY <1>1, <1>2, <1>3, AwaitInv DEF Main

LEMMA AlertsStep == TypeOK /\ AlertsInv /\ [Next]_vars => TypeOK' /\ AlertsInv'
<1> SUFFICES ASSUME TypeOK, AlertsInv, [Next]_vars PROVE TypeOK' /\ AlertsInv'
  OBVIOUS
<1>1. CASE UNCHANGED vars
  BY <1>1 DEF vars, TypeOK, OnePlace, AlertsInv, InSight, LastWords, Posting, Done,
     Alive
<1> QED
  BY <1>1, MainInv, LogInv, PushInv, FinishInv DEF Next

LEMMA InvHolds == Spec => [](TypeOK /\ AlertsInv)
BY InitInv, AlertsStep, PTL DEF Spec

(* Every state is well typed, and no handle is at two places.              *)
THEOREM AlertsTypeCorrect == Spec => []TypeOK
BY InvHolds, PTL

(* No alert in flight is lost from sight, however pruning, the flush and   *)
(* logging in other threads overlap.                                       *)
THEOREM AlertsInSight == Spec => []InSight
<1>1. AlertsInv => InSight
  BY DEF AlertsInv
<1> QED
  BY <1>1, InvHolds, PTL

(* A process that ends because run has failed has posted the error it ends *)
(* with and every alert logged in time.                                    *)
THEOREM AlertsDelivered == Spec => []LastWords
<1>1. AlertsInv => LastWords
  BY DEF AlertsInv
<1> QED
  BY <1>1, InvHolds, PTL
=============================================================================
