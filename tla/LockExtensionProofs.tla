------------------------ MODULE LockExtensionProofs ------------------------
(***************************************************************************)
(* An extended generation lock never lapses under a running extension      *)
(* loop, for every choice of the durations that satisfies                  *)
(* TimingAssumption.                                                       *)
(***************************************************************************)
EXTENDS LockExtension, TLAPS

(* The variables stay in their types.                                      *)
THEOREM TypeCorrect == Spec => []TypeOK
<1> USE TimingAssumption DEF TypeOK, Stage
<1>1. Init => TypeOK
  BY DEF Init
<1>2. TypeOK /\ [Next]_vars => TypeOK'
  <2> SUFFICES ASSUME TypeOK, [Next]_vars PROVE TypeOK'
    OBVIOUS
  <2>1. CASE Spawn   BY <2>1 DEF Spawn
  <2>2. CASE Tick    BY <2>2 DEF Tick
  <2>3. CASE Execute BY <2>3 DEF Execute
  <2>4. CASE Answer  BY <2>4 DEF Answer
  <2>5. CASE Fail    BY <2>5 DEF Fail
  <2>6. CASE Cancel  BY <2>6 DEF Cancel
  <2>7. CASE Release BY <2>7 DEF Release
  <2>8. CASE Pass    BY <2>8 DEF Pass
  <2>9. CASE UNCHANGED vars BY <2>9 DEF vars
  <2> QED
    BY <2>1, <2>2, <2>3, <2>4, <2>5, <2>6, <2>7, <2>8, <2>9 DEF Next
<1> QED
  BY <1>1, <1>2, PTL DEF Spec

(* The lock is not extended before the loop runs, and the next tick is     *)
(* never further away than the interval.                                   *)
Schedule ==
    /\ stage = "acquiring" => lease = "initial"
    /\ stage = "extending" => due <= Interval

(* What an extension gains over the ticker's period is never used up.      *)
LEMMA MarginStep ==
    ASSUME TypeOK, LockMargin, Schedule, [Next]_vars
    PROVE  LockMargin' /\ Schedule'
<1> USE TimingAssumption DEF TypeOK, LockMargin, Schedule, Stage
<1>1. CASE Spawn   BY <1>1 DEF Spawn
<1>2. CASE Tick    BY <1>2 DEF Tick
<1>3. CASE Execute BY <1>3 DEF Execute
<1>4. CASE Answer  BY <1>4 DEF Answer
<1>5. CASE Fail    BY <1>5 DEF Fail
<1>6. CASE Cancel  BY <1>6 DEF Cancel
<1>7. CASE Release BY <1>7 DEF Release
<1>8. CASE Pass
  <2>1. CASE stage = "waiting" BY <1>8, <2>1 DEF Pass
  <2>2. CASE stage = "extending"
    <3>1. CASE executed = "no"       BY <1>8, <2>2, <3>1 DEF Pass
    <3>2. CASE executed = "extended" BY <1>8, <2>2, <3>2 DEF Pass
    <3>3. CASE executed = "missing"  BY <1>8, <2>2, <3>3 DEF Pass
    <3> QED BY <3>1, <3>2, <3>3
  <2>3. CASE stage \notin {"waiting", "extending"} BY <1>8, <2>3 DEF Pass
  <2> QED BY <2>1, <2>2, <2>3
<1>9. CASE UNCHANGED vars BY <1>9 DEF vars
<1> QED
  BY <1>1, <1>2, <1>3, <1>4, <1>5, <1>6, <1>7, <1>8, <1>9 DEF Next

(* A lock that was extended once does not lapse while its loop runs: the   *)
(* buffer of the code, one second more than the Redis timeout, is enough   *)
(* whatever the interval and the timeout are, if the timeout is no longer  *)
(* than the interval.                                                      *)
THEOREM ExtensionSafe == Spec => []ExtendedLockHolds
<1>1. Init => LockMargin /\ Schedule
  BY DEF Init, LockMargin, Schedule
<1>2. TypeOK /\ LockMargin /\ Schedule /\ [Next]_vars
        => LockMargin' /\ Schedule'
  BY MarginStep
<1>3. TypeOK /\ LockMargin => ExtendedLockHolds
  BY TimingAssumption DEF TypeOK, LockMargin, ExtendedLockHolds
<1> QED
  BY TypeCorrect, <1>1, <1>2, <1>3, PTL DEF Spec
=============================================================================
