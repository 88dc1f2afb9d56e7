------------------------ MODULE ConsensusClientProofs ------------------------
(***************************************************************************)
(* What the calls of the consensus client keep, whoever makes them: the    *)
(* types, the shape of a trace, and the bounds on the stores.  First the   *)
(* lemmas on periods and served updates that this rests on.                *)
(***************************************************************************)
EXTENDS ConsensusClient, TLAPS, FiniteSetTheorems, SequenceTheorems, WellFoundedInduction

LEMMA LeastExists ==
    ASSUME NEW S \in SUBSET Nat, S # {}
    PROVE  \E x \in S : \A y \in S : x <= y
<1> DEFINE R == {ss \in Nat \X Nat : ss[1] < ss[2]}
<1>1. IsWellFoundedOn(R, Nat)
  BY NatLessThanWellFounded DEF OpToRel
<1>2. PICK x \in S : \A y \in S : ~ (<<y, x>> \in R)
  <2> HIDE DEF R
  <2> QED
    BY <1>1, WFMin
<1>3. ASSUME NEW y \in S PROVE x <= y
  <2>1. ~ (y < x)
    BY <1>2
  <2> QED
    BY <2>1
<1> QED
  BY <1>3

LEMMA MinIsLeast ==
    ASSUME NEW S \in SUBSET Nat, S # {}
    PROVE  Sets!Min(S) \in S /\ \A y \in S : Sets!Min(S) <= y
BY LeastExists DEF Sets!Min

-----------------------------------------------------------------------------
(* Periods                                                                 *)

LEMMA PeriodNat == \A a \in Nat : Period(a) \in Nat
BY ChainAssumption DEF Period

LEMMA PeriodMonotone ==
    ASSUME NEW a \in Nat, NEW b \in Nat, a <= b
    PROVE  Period(a) <= Period(b)
BY ChainAssumption DEF Period

(* The second slot of a period: its header is signed in the period.        *)
LEMMA PeriodStart ==
    ASSUME NEW p \in Nat
    PROVE  \E a \in Nat \ {0} : Period(a) = p /\ Period(a + 1) = p
<1> DEFINE a == PeriodLength * p + 1
<1>1. a \in Nat \ {0}
  BY ChainAssumption
<1>2. Period(a) = p
  BY ChainAssumption DEF Period
<1>3. Period(a + 1) = p
  BY ChainAssumption DEF Period
<1> QED
  BY <1>1, <1>2, <1>3

LEMMA FinalizedType ==
    ASSUME NEW a \in Int
    PROVE  /\ Finalized(a) \in Nat
           /\ a \in Nat => Finalized(a) <= a
BY ChainAssumption DEF Finalized

LEMMA FinalizedMonotone ==
    ASSUME NEW a \in Int, NEW b \in Int, a <= b
    PROVE  Finalized(a) <= Finalized(b)
BY ChainAssumption DEF Finalized

-----------------------------------------------------------------------------
(* Served updates                                                          *)

LEMMA AttestedSlots ==
    ASSUME NEW p, NEW k \in Int, NEW a \in Attested(p, k)
    PROVE  a \in 1 .. k - 1 /\ Period(a) = p /\ Period(a + 1) = p
BY DEF Attested

LEMMA UpdateOfMade ==
    ASSUME NEW p, NEW k \in Int, Attested(p, k) # {}
    PROVE  MadeIn(UpdateOf(p, k), p, k)
<1> DEFINE a == Sets!Min(Attested(p, k))
<1>1. Attested(p, k) \subseteq Nat
  BY AttestedSlots
<1>2. a \in Attested(p, k)
  BY <1>1, MinIsLeast
<1>3. a \in 1 .. k - 1 /\ Period(a) = p /\ Period(a + 1) = p
  BY <1>2, AttestedSlots
<1> HIDE DEF a
<1>4. MakeUpdate(a, TRUE) \in Update
  BY <1>3, FinalizedType DEF MakeUpdate, Update
<1> QED
  BY <1>3, <1>4 DEF UpdateOf, MakeUpdate, MadeIn, Made, a

(* A node has an update for every period before the last it has one for.   *)
LEMMA AttestedBefore ==
    ASSUME NEW p \in Nat, NEW q \in Nat, NEW k \in Int, p <= q, Attested(q, k) # {}
    PROVE  Attested(p, k) # {}
<1>1. CASE p = q
  BY <1>1
<1>2. CASE p < q
  <2>1. PICK a \in 1 .. k - 1 : Period(a) = q
    BY AttestedSlots
  <2>2. PICK b \in Nat \ {0} : Period(b) = p /\ Period(b + 1) = p
    BY PeriodStart
  <2>3. b < a
    <3>1. ~ (a <= b)
      BY <1>2, <2>1, <2>2, PeriodMonotone, PeriodNat
    <3> QED
      BY <3>1
  <2>4. b \in {c \in 1 .. k - 1 : Period(c) = p /\ Period(c + 1) = p}
    BY <2>2, <2>3
  <2> QED
    BY <2>4 DEF Attested
<1> QED
  BY <1>1, <1>2

(* The answer to a request for n periods: an update for each of the first  *)
(* so many of them.                                                        *)
LEMMA CommitteeUpdatesMade ==
    ASSUME NEW p \in Nat, NEW n \in Nat, NEW k \in Int
    PROVE  LET us == CommitteeUpdates(p, n, k) IN
           /\ us \in Seq(Update)
           /\ Len(us) <= n
           /\ \A i \in 1 .. Len(us) : MadeIn(us[i], p + i - 1, k)
<1> DEFINE S   == {q \in p .. p + n - 1 : Attested(q, k) # {}}
           len == Cardinality(S)
           us  == CommitteeUpdates(p, n, k)
<1>1. IsFiniteSet(p .. p + n - 1) /\ Cardinality(p .. p + n - 1) = n
  BY FS_Interval
<1>2. IsFiniteSet(S) /\ len \in Nat /\ len <= n
  BY <1>1, FS_Subset, FS_CardinalityType
<1>3. ASSUME NEW i \in 1 .. len PROVE Attested(p + i - 1, k) # {}
  <2> SUFFICES ASSUME Attested(p + i - 1, k) = {} PROVE FALSE
    OBVIOUS
  <2>1. S \subseteq p .. p + i - 2
    <3> SUFFICES ASSUME NEW q \in S, p + i - 1 <= q PROVE FALSE
      BY <1>2
    <3> QED
      BY <1>2, AttestedBefore
  <2>2. IsFiniteSet(p .. p + i - 2) /\ Cardinality(p .. p + i - 2) = i - 1
    <3>1. i \in Nat \ {0} /\ p + i - 2 \in Int
      BY <1>2
    <3> QED
      BY <3>1, FS_Interval
  <2>3. len <= i - 1
    <3> HIDE DEF S
    <3> QED
      BY <2>1, <2>2, FS_Subset
  <2> QED
    BY <1>2, <2>3
<1>4. us = [i \in 1 .. len |-> UpdateOf(p + i - 1, k)]
  BY DEF CommitteeUpdates
<1> HIDE DEF S, len, us
<1>5. \A i \in 1 .. len : MadeIn(UpdateOf(p + i - 1, k), p + i - 1, k)
  BY <1>3, UpdateOfMade
<1>6. us \in [1 .. len -> Update]
  BY <1>4, <1>5 DEF MadeIn, Made
<1>7. us \in Seq(Update) /\ Len(us) = len
  BY <1>2, <1>6
<1> QED
  BY <1>2, <1>4, <1>5, <1>7 DEF us

-----------------------------------------------------------------------------
(* Verification                                                            *)

LEMMA ApplyBounds ==
    ASSUME NEW u, u.fin \in Nat, u.next \in BOOLEAN, NEW s \in Store
    PROVE  /\ Apply(u, s) \in Store
           /\ Apply(u, s) # Rejected
           /\ Apply(u, s).slot >= s.slot
           /\ Apply(u, s).slot = s.slot \/ Apply(u, s).slot = u.fin
<1>1. Rejected.slot \notin Nat
  BY DEF Rejected
<1>2. Apply(u, s) \in Store
  BY DEF Apply, Store
<1> QED
  BY <1>1, <1>2 DEF Apply, Store

(* The next update of a trace extends it without a gap.                    *)
LEMMA VerifiesNext ==
    ASSUME NEW s \in Store, NEW u \in Update, NEW p \in Nat, NEW e,
           Period(u.sig) = p, Verifies(u, e, s)
    PROVE  p \in Period(s.slot) .. Period(s.slot) + 1
BY PeriodNat DEF Verifies, Store, Update

(* A finality update that passes was made after the genesis slot.          *)
LEMMA FinalityUpdateMade ==
    ASSUME NEW k \in Int, NEW e, NEW s \in Store, Verifies(FinalityUpdateAt(k), e, s)
    PROVE  Made(FinalityUpdateAt(k), k)
<1> DEFINE u == FinalityUpdateAt(k)
<1>1. u.att = k - 1 /\ u.sig = k /\ u.fin = Finalized(k - 1) /\ ~u.next
  BY DEF FinalityUpdateAt, MakeUpdate
<1>2. u.att > s.slot
  BY <1>1 DEF Verifies, BringsCommittee
<1>3. u.att \in Nat
  BY <1>1, <1>2 DEF Store
<1>4. u \in Update
  BY <1>1, <1>3, FinalizedType DEF FinalityUpdateAt, MakeUpdate, Update
<1> QED
  BY <1>1, <1>4 DEF Made

LEMMA MadeBounds ==
    ASSUME NEW u, NEW k \in Int, NEW n \in Int, k <= n, Made(u, k)
    PROVE  /\ u.fin \in Nat /\ u.next \in BOOLEAN
           /\ u.fin <= Finalized(n - 1)
           /\ u.fin <= u.att
           /\ Made(u, n)
<1>1. u.att \in Nat /\ u.fin \in Nat /\ u.next \in BOOLEAN
  BY DEF Made, Update
<1> QED
  BY <1>1, FinalizedMonotone, FinalizedType DEF Made

-----------------------------------------------------------------------------
(* One call                                                                *)

CallOK(c) == c \in CallType /\ TraceInv(c) /\ BoundsInv(c)

LEMMA DoneContiguous ==
    ASSUME NEW c \in CallType, TraceInv(c), c.pc = "done"
    PROVE  Contiguous(c.updates)
<1>1. c.verified = Len(c.updates)
  BY DEF TraceInv
<1> QED
  BY <1>1 DEF TraceInv, Contiguous

LEMMA FailedOK ==
    ASSUME NEW c, CallOK(c), c.pc # "idle"
    PROVE  CallOK([c EXCEPT !.pc = "failed"])
<1>1. [c EXCEPT !.pc = "failed"] \in CallType
  BY DEF CallOK, CallType, CallPC
<1> QED
  BY <1>1 DEF CallOK, TraceInv, BoundsInv, CallType

LEMMA IdleOK == CallOK(IdleCall)
<1>1. NoUpdate \in Update /\ IdleCall.store \in Store
  BY DEF NoUpdate, Update, IdleCall, Store
<1>2. IdleCall \in CallType
  BY <1>1 DEF IdleCall, CallType, CallPC
<1> QED
  BY <1>2 DEF CallOK, TraceInv, BoundsInv, IdleCall

(* A step that changes calls, keeping each of them as it should be.        *)
LEMMA CallsInv ==
    ASSUME ClientTypeOK, ClientInv, UNCHANGED <<now, store>>,
           lapses' \in 0 .. MaxLapses, prompt' \subseteq Rpcs,
           NEW d, calls' = [r \in Rpcs |-> d[r]],
           \A r \in Rpcs : CallOK(d[r])
    PROVE  ClientTypeOK' /\ ClientInv'
<1>1. calls' \in [Rpcs -> CallType]
  BY DEF CallOK
<1>2. ASSUME NEW r \in Rpcs PROVE TraceInv(calls[r])' /\ BoundsInv(calls[r])'
  <2>1. calls'[r] = d[r]
    OBVIOUS
  <2> QED
    BY <2>1 DEF CallOK, TraceInv, BoundsInv
<1>3. \A r \in Rpcs : calls'[r].pc = "done" => Contiguous(calls'[r].updates)
  BY DoneContiguous DEF CallOK
<1> QED
  BY <1>1, <1>2, <1>3 DEF ClientTypeOK, ClientInv, Contiguous

LEMMA OneCallInv ==
    ASSUME ClientTypeOK, ClientInv, UNCHANGED <<now, store>>,
           lapses' \in 0 .. MaxLapses, prompt' \subseteq Rpcs,
           NEW r \in Rpcs, NEW c, calls' = [calls EXCEPT ![r] = c], CallOK(c)
    PROVE  ClientTypeOK' /\ ClientInv'
<1> DEFINE d == [q \in Rpcs |-> IF q = r THEN c ELSE calls[q]]
<1>1. calls' = [q \in Rpcs |-> d[q]]
  BY DEF ClientTypeOK
<1>2. \A q \in Rpcs : CallOK(d[q])
  BY DEF ClientTypeOK, ClientInv, CallOK
<1> HIDE DEF d
<1> QED
  BY <1>1, <1>2, CallsInv

LEMMA ContinueInv ==
    ASSUME ClientTypeOK, ClientInv, UNCHANGED <<now, store>>,
           lapses' \in 0 .. MaxLapses, prompt' \subseteq Rpcs,
           NEW r \in Rpcs, Running(r), NEW c, NEW pc, NEW s, Continue(r, c, pc, s),
           s # Rejected => CallOK([c EXCEPT !.pc = pc, !.store = s])
    PROVE  ClientTypeOK' /\ ClientInv'
<1>1. CallOK(calls[r]) /\ calls[r].pc # "idle"
  BY DEF ClientTypeOK, ClientInv, CallOK, Running
<1>2. CASE s = Rejected
  <2>1. calls' = [calls EXCEPT ![r] = [calls[r] EXCEPT !.pc = "failed"]]
    BY <1>2 DEF Continue, ClientTypeOK
  <2> QED
    BY <1>1, <2>1, FailedOK, OneCallInv
<1>3. CASE s # Rejected
  BY <1>3, OneCallInv DEF Continue
<1> QED
  BY <1>2, <1>3

-----------------------------------------------------------------------------
(* The steps of a call                                                     *)

LEMMA BeginInv ==
    ASSUME ClientTypeOK, ClientInv,
           NEW op \in {"sync", "advance"}, NEW pc \in {"updates", "finality"}, Begin(op, pc)
    PROVE  ClientTypeOK' /\ ClientInv'
<1> DEFINE c == [IdleCall EXCEPT !.pc = pc, !.op = op, !.began = now,
                                 !.store = store, !.fetch = Period(store.slot)]
<1>1. /\ c.pc = pc /\ c.op = op /\ c.began = now /\ c.store = store
      /\ c.fetch = Period(store.slot) /\ c.updates = <<>> /\ c.verified = 0
  BY DEF IdleCall
<1>2. now \in Nat /\ store \in Store /\ store.slot \in Nat
  BY ClientAssumption DEF ClientTypeOK, Store
<1>3. c \in CallType
  BY <1>2, IdleOK, PeriodNat DEF CallOK, CallType, CallPC
<1>4. store.slot \in store.slot .. Finalized(now - 1)
  BY <1>2, FinalizedType DEF ClientInv
<1>5. CallOK(c)
  <2> HIDE DEF c
  <2> QED
    BY <1>1, <1>2, <1>3, <1>4 DEF CallOK, TraceInv, BoundsInv
<1>6. calls' = [r \in Rpcs |-> c] /\ UNCHANGED <<now, lapses, prompt, store>>
  BY DEF Begin
<1> HIDE DEF c
<1> DEFINE d == [r \in Rpcs |-> c]
<1>7. calls' = [r \in Rpcs |-> d[r]] /\ \A r \in Rpcs : CallOK(d[r])
  BY <1>5, <1>6
<1> HIDE DEF d
<1> QED
  BY <1>6, <1>7, CallsInv DEF ClientTypeOK

LEMMA LapseType ==
    ASSUME ClientTypeOK, NEW r, Lapse(r)
    PROVE  lapses' \in 0 .. MaxLapses /\ prompt' \subseteq Rpcs
BY ClientAssumption DEF ClientTypeOK, Lapse

LEMMA AnswersType ==
    ASSUME ClientTypeOK, NEW r, NEW k, AnswersAt(r, k)
    PROVE  lapses' \in 0 .. MaxLapses /\ prompt' \subseteq Rpcs
BY LapseType DEF ClientTypeOK, AnswersAt

LEMMA RunningOK ==
    ASSUME ClientTypeOK, ClientInv, NEW r \in Rpcs, Running(r)
    PROVE  /\ CallOK(calls[r]) /\ calls[r].pc # "idle"
           /\ now \in Nat
           /\ calls[r].store \in Store
           /\ calls[r].store.slot \in store.slot .. Finalized(now - 1)
BY ClientAssumption
   DEF ClientTypeOK, ClientInv, CallOK, Running, BoundsInv, CallType

LEMMA FailCallInv ==
    ASSUME ClientTypeOK, ClientInv, NEW r \in Rpcs, FailCall(r)
    PROVE  ClientTypeOK' /\ ClientInv'
<1>1. calls' = [calls EXCEPT ![r] = [calls[r] EXCEPT !.pc = "failed"]]
  BY DEF FailCall, ClientTypeOK
<1> QED
  BY <1>1, RunningOK, FailedOK, OneCallInv, LapseType DEF FailCall

LEMMA OutageInv ==
    ASSUME ClientTypeOK, ClientInv, Outage
    PROVE  ClientTypeOK' /\ ClientInv'
<1> DEFINE d == [r \in Rpcs |-> IF Running(r) THEN [calls[r] EXCEPT !.pc = "failed"]
                                              ELSE calls[r]]
<1>1. calls' = [r \in Rpcs |-> d[r]]
  BY DEF Outage
<1>2. ASSUME NEW r \in Rpcs PROVE CallOK(d[r])
  <2>1. CallOK(calls[r])
    BY DEF ClientTypeOK, ClientInv, CallOK
  <2> QED
    BY <2>1, FailedOK DEF Running
<1>3. lapses' \in 0 .. MaxLapses /\ prompt' \subseteq Rpcs /\ UNCHANGED <<now, store>>
  BY ClientAssumption DEF Outage, ClientTypeOK
<1> HIDE DEF d
<1> QED
  BY <1>1, <1>2, <1>3, CallsInv

(* More updates, of the periods from the next to fetch on.                 *)
LEMMA FetchedTrace ==
    ASSUME NEW us \in Seq(Update), NEW fetch \in Nat, NEW n \in Nat,
           NEW k \in Int, now \in Nat, k <= now,
           \A i \in 1 .. Len(us) : MadeIn(us[i], Period(us[i].att), now),
           \A i, j \in 1 .. Len(us) : i < j => Period(us[i].att) < Period(us[j].att),
           \A i \in 1 .. Len(us) : Period(us[i].att) < fetch
    PROVE  LET vs == us \o CommitteeUpdates(fetch, n, k) IN
           /\ vs \in Seq(Update)
           /\ \A i \in 1 .. Len(vs) : MadeIn(vs[i], Period(vs[i].att), now)
           /\ \A i, j \in 1 .. Len(vs) : i < j => Period(vs[i].att) < Period(vs[j].att)
           /\ \A i \in 1 .. Len(vs) : Period(vs[i].att) < fetch + n
<1> DEFINE new == CommitteeUpdates(fetch, n, k)
           vs  == us \o new
<1>1. /\ new \in Seq(Update)
      /\ Len(new) <= n
      /\ \A i \in 1 .. Len(new) : MadeIn(new[i], fetch + i - 1, k)
  BY CommitteeUpdatesMade
<1> HIDE DEF new
<1>2. /\ vs \in Seq(Update)
      /\ Len(vs) = Len(us) + Len(new)
      /\ Len(us) \in Nat /\ Len(new) \in Nat
      /\ \A i \in 1 .. Len(us) : vs[i] = us[i]
      /\ \A i \in Len(us) + 1 .. Len(vs) : vs[i] = new[i - Len(us)]
  BY <1>1, ConcatProperties, LenProperties
<1>3. ASSUME NEW i \in 1 .. Len(new)
      PROVE  /\ MadeIn(new[i], Period(new[i].att), now)
             /\ Period(new[i].att) = fetch + i - 1
  <2>1. MadeIn(new[i], fetch + i - 1, k)
    BY <1>1
  <2> QED
    BY <2>1, MadeBounds DEF MadeIn
<1> HIDE DEF vs
<1>4. ASSUME NEW i \in 1 .. Len(vs)
      PROVE  \/ i \in 1 .. Len(us) /\ vs[i] = us[i]
             \/ i - Len(us) \in 1 .. Len(new) /\ vs[i] = new[i - Len(us)]
  BY <1>2
<1>5. ASSUME NEW i \in 1 .. Len(us) PROVE Period(us[i].att) \in Nat
  BY PeriodNat DEF MadeIn, Made, Update
<1>6. \A i \in 1 .. Len(vs) : MadeIn(vs[i], Period(vs[i].att), now)
  BY <1>3, <1>4
<1>7. ASSUME NEW i \in 1 .. Len(vs)
      PROVE  /\ i <= Len(us) => /\ Period(vs[i].att) = Period(us[i].att)
                                /\ Period(us[i].att) \in Nat
                                /\ Period(us[i].att) < fetch
             /\ i > Len(us) => Period(vs[i].att) = fetch + i - Len(us) - 1
  <2>1. CASE i \in 1 .. Len(us)
    BY <1>2, <1>5, <2>1
  <2>2. CASE i - Len(us) \in 1 .. Len(new)
    <3>1. Period(new[i - Len(us)].att) = fetch + (i - Len(us)) - 1
      BY <1>3, <2>2
    <3>2. vs[i] = new[i - Len(us)] /\ i > Len(us)
      BY <1>2, <2>2
    <3> QED
      BY <1>2, <3>1, <3>2
  <2> QED
    BY <1>4, <2>1, <2>2
<1>8. ASSUME NEW i \in 1 .. Len(vs) PROVE Period(vs[i].att) < fetch + n
  <2>1. CASE i <= Len(us)
    BY <1>7, <2>1
  <2>2. CASE i > Len(us)
    BY <1>1, <1>2, <1>7, <2>2
  <2> QED
    BY <1>2, <2>1, <2>2
<1>9. ASSUME NEW i \in 1 .. Len(vs), NEW j \in 1 .. Len(vs), i < j
      PROVE  Period(vs[i].att) < Period(vs[j].att)
  <2>1. CASE j <= Len(us)
    BY <1>2, <1>7, <1>9, <2>1
  <2>2. CASE i <= Len(us) /\ j > Len(us)
    <3>1. Period(vs[i].att) < fetch /\ Period(vs[i].att) \in Nat
      BY <1>7, <2>2
    <3>2. Period(vs[j].att) = fetch + j - Len(us) - 1
      BY <1>7, <2>2
    <3> QED
      BY <1>2, <2>2, <3>1, <3>2
  <2>3. CASE i > Len(us)
    <3>1. Period(vs[i].att) = fetch + i - Len(us) - 1
      BY <1>7, <2>3
    <3>2. Period(vs[j].att) = fetch + j - Len(us) - 1
      BY <1>2, <1>7, <1>9, <2>3
    <3> QED
      BY <1>2, <1>9, <3>1, <3>2
  <2> QED
    BY <1>2, <2>1, <2>2, <2>3
<1> QED
  BY <1>2, <1>6, <1>8, <1>9 DEF vs, new

LEMMA FetchedOK ==
    ASSUME NEW c, CallOK(c), c.pc = "updates", NEW vs \in Seq(Update), NEW f \in Nat,
           \A i \in 1 .. Len(vs) : MadeIn(vs[i], Period(vs[i].att), now),
           \A i, j \in 1 .. Len(vs) : i < j => Period(vs[i].att) < Period(vs[j].att),
           \A i \in 1 .. Len(vs) : Period(vs[i].att) < f
    PROVE  /\ CallOK([c EXCEPT !.updates = vs, !.fetch = f])
           /\ CallOK([c EXCEPT !.updates = vs, !.pc = "verify"])
<1>1. /\ c \in CallType /\ c.verified = 0 /\ c.began <= now
      /\ c.store.slot \in store.slot .. Finalized(now - 1)
  BY DEF CallOK, TraceInv, BoundsInv
<1>2. 0 <= Len(vs)
  BY LenProperties
<1>3. ASSUME NEW d \in CallType, d.updates = vs, d.verified = 0, d.store = c.store,
             d.began = c.began, d.pc \in {"verify", "updates"}, d.pc = "updates" => d.fetch = f
      PROVE  CallOK(d)
  <2>1. TraceInv(d)
    BY <1>2, <1>3 DEF TraceInv
  <2>2. BoundsInv(d)
    BY <1>1, <1>3 DEF BoundsInv
  <2> QED
    BY <1>3, <2>1, <2>2 DEF CallOK
<1> DEFINE d1 == [c EXCEPT !.updates = vs, !.fetch = f]
           d2 == [c EXCEPT !.updates = vs, !.pc = "verify"]
<1>4. /\ d1 \in CallType /\ d1.updates = vs /\ d1.verified = 0 /\ d1.store = c.store
      /\ d1.began = c.began /\ d1.pc = "updates" /\ d1.fetch = f
  BY <1>1 DEF CallType
<1>5. /\ d2 \in CallType /\ d2.updates = vs /\ d2.verified = 0 /\ d2.store = c.store
      /\ d2.began = c.began /\ d2.pc = "verify"
  BY <1>1 DEF CallType, CallPC
<1>6. CallOK(d1)
  <2> HIDE DEF d1
  <2> QED
    BY <1>3, <1>4
<1>7. CallOK(d2)
  <2> HIDE DEF d2
  <2> QED
    BY <1>3, <1>5
<1> QED
  BY <1>6, <1>7

LEMMA FetchInv ==
    ASSUME ClientTypeOK, ClientInv, NEW r \in Rpcs, NEW k \in Int, k <= now,
           FetchUpdates(r, k)
    PROVE  ClientTypeOK' /\ ClientInv'
<1> DEFINE c     == calls[r]
           goal  == Period(c.began)
           batch == Sets!Min({goal - c.fetch, MaxRequest})
           more  == goal - Period(store.slot) >= MaxRequest /\ c.fetch < goal
           got(n) == c.updates \o CommitteeUpdates(c.fetch, n, k)
           d1    == [c EXCEPT !.updates = got(batch), !.fetch = c.fetch + batch]
           d2    == [c EXCEPT !.updates = got(MaxRequest), !.pc = "verify"]
<1>1. CallOK(c) /\ c.pc = "updates" /\ now \in Nat
  BY RunningOK DEF FetchUpdates, Running
<1>2. /\ c.updates \in Seq(Update) /\ c.fetch \in Nat /\ c.verified = 0
      /\ goal \in Nat /\ MaxRequest \in Nat
  BY <1>1, PeriodNat, ClientAssumption DEF CallOK, CallType, TraceInv
<1>3. ASSUME NEW n \in Nat
      PROVE  /\ got(n) \in Seq(Update)
             /\ \A i \in 1 .. Len(got(n)) : MadeIn(got(n)[i], Period(got(n)[i].att), now)
             /\ \A i, j \in 1 .. Len(got(n)) :
                   i < j => Period(got(n)[i].att) < Period(got(n)[j].att)
             /\ \A i \in 1 .. Len(got(n)) : Period(got(n)[i].att) < c.fetch + n
  <2>1. /\ \A i \in 1 .. Len(c.updates) :
              /\ MadeIn(c.updates[i], Period(c.updates[i].att), now)
              /\ Period(c.updates[i].att) < c.fetch
        /\ \A i, j \in 1 .. Len(c.updates) :
              i < j => Period(c.updates[i].att) < Period(c.updates[j].att)
    BY <1>1 DEF CallOK, TraceInv
  <2> HIDE DEF c
  <2> QED
    BY <1>1, <1>2, <2>1, FetchedTrace
<1>4. ASSUME more PROVE batch \in Nat
  <2>1. batch \in {goal - c.fetch, MaxRequest}
    <3>1. {goal - c.fetch, MaxRequest} \subseteq Nat
      BY <1>2, <1>4
    <3> QED
      BY <3>1, MinIsLeast
  <2> QED
    BY <1>2, <1>4, <2>1
<1>5. calls' = [calls EXCEPT ![r] = IF more THEN d1 ELSE d2]
  BY DEF FetchUpdates
<1>6. UNCHANGED <<now, store>> /\ lapses' \in 0 .. MaxLapses /\ prompt' \subseteq Rpcs
  BY AnswersType DEF FetchUpdates
<1> HIDE DEF got, goal, batch, more
<1>7. ASSUME NEW n \in Nat PROVE CallOK([c EXCEPT !.updates = got(n), !.fetch = c.fetch + n])
  <2>1. c.fetch + n \in Nat
    BY <1>2
  <2> HIDE DEF c
  <2> QED
    BY <1>1, <1>3, <2>1, FetchedOK
<1>8. CallOK(d2)
  <2>1. c.fetch + MaxRequest \in Nat
    BY <1>2
  <2> HIDE DEF c
  <2> QED
    BY <1>1, <1>2, <1>3, <2>1, FetchedOK
<1> HIDE DEF c, d2
<1> QED
  BY <1>4, <1>5, <1>6, <1>7, <1>8, OneCallInv DEF d1

LEMMA VerifyInv ==
    ASSUME ClientTypeOK, ClientInv, NEW r \in Rpcs, VerifyUpdate(r)
    PROVE  ClientTypeOK' /\ ClientInv'
<1> DEFINE c == calls[r]
           v == c.verified
           u == c.updates[v + 1]
           s == VerifyAndApply(u, now, c.store)
           d == [c EXCEPT !.verified = v + 1]
<1>1. CallOK(c) /\ c.pc = "verify" /\ now \in Nat /\ Running(r)
  BY RunningOK DEF VerifyUpdate, Running
<1>2. /\ UNCHANGED <<now, store>> /\ lapses' \in 0 .. MaxLapses /\ prompt' \subseteq Rpcs
  BY DEF VerifyUpdate, ClientTypeOK
<1>3. /\ c.updates \in Seq(Update) /\ v \in Nat /\ v <= Len(c.updates)
      /\ c.store \in Store
      /\ c.store.slot \in store.slot .. Finalized(now - 1)
  BY <1>1, RunningOK DEF CallOK, CallType, TraceInv
<1>4. CASE v = Len(c.updates)
  <2> DEFINE e == [c EXCEPT !.pc = "finality", !.store = c.store]
  <2>1. e \in CallType
    BY <1>1, <1>3 DEF CallOK, CallType, CallPC
  <2>2. CallOK(e)
    BY <1>1, <1>3, <1>4, <2>1 DEF CallOK, CallType, TraceInv, BoundsInv
  <2>3. Continue(r, c, "finality", c.store)
    BY <1>4 DEF VerifyUpdate
  <2> HIDE DEF c
  <2> QED
    BY <1>1, <1>2, <2>2, <2>3, ContinueInv
<1>5. CASE v # Len(c.updates)
  <2>1. v + 1 \in 1 .. Len(c.updates)
    BY <1>3, <1>5, LenProperties
  <2>2. MadeIn(u, Period(u.att), now) /\ u \in Update
    BY <1>1, <2>1 DEF CallOK, TraceInv, MadeIn, Made
  <2>3. ASSUME s # Rejected PROVE CallOK([d EXCEPT !.pc = "verify", !.store = s])
    <3> DEFINE p == Period(u.att)
               e == [d EXCEPT !.pc = "verify", !.store = s]
    <3>1. s = Apply(u, c.store) /\ Verifies(u, now, c.store)
      BY <2>3 DEF VerifyAndApply
    <3>2. /\ u.att \in Nat /\ u.fin \in Nat /\ u.next \in BOOLEAN /\ p \in Nat
          /\ u.fin <= u.att /\ u.fin <= Finalized(now - 1) /\ Period(u.sig) = p
      <4>1. u.att \in Nat /\ p \in Nat /\ Period(u.sig) = p
        BY <2>2, PeriodNat DEF MadeIn, Made, Update
      <4> QED
        BY <1>1, <2>2, <4>1, MadeBounds DEF MadeIn
    <3>3. /\ s \in Store /\ s.slot \in Nat
          /\ s.slot >= c.store.slot
          /\ s.slot = c.store.slot \/ s.slot = u.fin
      BY <1>3, <3>1, <3>2, ApplyBounds DEF Store
    <3>4. s.slot \in store.slot .. Finalized(now - 1)
      <4>1. store.slot \in Nat /\ c.store.slot \in Nat
        BY <1>3 DEF ClientTypeOK, Store
      <4>2. Finalized(now - 1) \in Nat
        BY <1>1, FinalizedType
      <4> QED
        BY <1>3, <3>2, <3>3, <4>1, <4>2
    <3>5. p \in Period(c.store.slot) .. Period(c.store.slot) + 1
      BY <1>3, <2>2, <3>1, <3>2, VerifiesNext
    <3>6. Period(s.slot) <= p
      <4>1. Period(u.fin) <= p
        BY <3>2, PeriodMonotone
      <4>2. Period(c.store.slot) <= p
        BY <1>3, <3>2, <3>5, PeriodNat DEF Store
      <4> QED
        BY <3>3, <4>1, <4>2
    <3>7. v > 0 => p = Period(c.updates[v].att) + 1
      <4> SUFFICES ASSUME v > 0 PROVE p = Period(c.updates[v].att) + 1
        OBVIOUS
      <4>1. v \in 1 .. Len(c.updates) /\ v < v + 1
        BY <1>3, <2>1
      <4>2. Period(c.updates[v].att) < p /\ Period(c.updates[v].att) \in Nat
        BY <1>1, <2>1, <4>1, PeriodNat DEF CallOK, TraceInv, MadeIn, Made, Update
      <4>3. Period(c.store.slot) <= Period(c.updates[v].att)
        BY <1>1, <4>1 DEF CallOK, TraceInv
      <4>4. Period(c.store.slot) \in Nat
        BY <1>3, PeriodNat DEF Store
      <4> QED
        BY <3>2, <3>5, <4>2, <4>3, <4>4
    <3> HIDE DEF s, p
    <3>8. c \in CallType /\ v + 1 \in Nat
      BY <1>1, <1>3 DEF CallOK
    <3>9. /\ e \in CallType
          /\ e.updates = c.updates /\ e.verified = v + 1 /\ e.pc = "verify"
          /\ e.store = s /\ e.began = c.began
      <4> HIDE DEF c, v
      <4> QED
        BY <3>3, <3>8 DEF CallType, CallPC
    <3>10. \A i \in 1 .. v : Period(c.updates[i + 1].att) = Period(c.updates[i].att) + 1
      <4>1. ASSUME NEW i \in 1 .. v
            PROVE  Period(c.updates[i + 1].att) = Period(c.updates[i].att) + 1
        <5>1. CASE i = v
          BY <1>3, <3>7, <5>1 DEF p
        <5>2. CASE i # v
          BY <1>1, <1>3, <5>2 DEF CallOK, TraceInv
        <5> QED
          BY <5>1, <5>2
      <4> QED
        BY <4>1
    <3>11. TraceInv(e)
      <4>1. /\ \A i \in 1 .. Len(c.updates) :
                  MadeIn(c.updates[i], Period(c.updates[i].att), now)
            /\ \A i, j \in 1 .. Len(c.updates) :
                  i < j => Period(c.updates[i].att) < Period(c.updates[j].att)
        BY <1>1 DEF CallOK, TraceInv
      <4>2. v + 1 <= Len(c.updates) /\ (v + 1) - 1 = v
        BY <1>3, <2>1
      <4>3. Period(e.store.slot) <= Period(e.updates[e.verified].att)
        BY <3>6, <3>9 DEF p
      <4> HIDE DEF c, e, v
      <4> QED
        BY <3>9, <3>10, <4>1, <4>2, <4>3 DEF TraceInv
    <3>12. BoundsInv(e)
      <4> HIDE DEF e
      <4> QED
        BY <1>1, <3>4, <3>9 DEF CallOK, BoundsInv
    <3> QED
      BY <3>9, <3>11, <3>12 DEF CallOK
  <2>4. Continue(r, d, "verify", s)
    BY <1>5 DEF VerifyUpdate
  <2> HIDE DEF c, d, s
  <2> QED
    BY <1>1, <1>2, <2>3, <2>4, ContinueInv
<1> QED
  BY <1>4, <1>5

LEMMA ApplyInBounds ==
    ASSUME ClientTypeOK, NEW s \in Store, s.slot \in store.slot .. Finalized(now - 1),
           NEW u, NEW k \in Int, k <= now, Made(u, k)
    PROVE  /\ Apply(u, s) \in Store /\ Apply(u, s) # Rejected
           /\ Apply(u, s).slot \in store.slot .. Finalized(now - 1)
<1>1. /\ u.fin \in Nat /\ u.next \in BOOLEAN
      /\ u.fin <= Finalized(now - 1)
  <2>1. now \in Int
    BY DEF ClientTypeOK
  <2> QED
    BY <2>1, MadeBounds
<1>2. store.slot \in Nat /\ s.slot \in Nat
  BY DEF ClientTypeOK, Store
<1>3. Finalized(now - 1) \in Nat
  BY FinalizedType DEF ClientTypeOK
<1> QED
  BY <1>1, <1>2, <1>3, ApplyBounds

(* The end of a call.                                                      *)
LEMMA EndOK ==
    ASSUME NEW c, CallOK(c), c.pc \in {"finality", "committee"},
           NEW pc \in {"committee", "done"}, NEW u \in Update,
           NEW s \in Store, s.slot \in store.slot .. Finalized(now - 1)
    PROVE  /\ CallOK([c EXCEPT !.finality = u])
           /\ CallOK([c EXCEPT !.pc = pc, !.store = s])
<1>1. /\ c \in CallType /\ c.verified = Len(c.updates) /\ c.began <= now
      /\ c.store.slot \in store.slot .. Finalized(now - 1)
  BY DEF CallOK, TraceInv, BoundsInv
<1>2. ASSUME NEW d \in CallType, d.updates = c.updates, d.verified = c.verified,
             d.began = c.began, d.store.slot \in store.slot .. Finalized(now - 1),
             d.pc \in {"finality", "committee", "done"}
      PROVE  CallOK(d)
  <2>1. TraceInv(d)
    BY <1>1, <1>2 DEF CallOK, TraceInv
  <2>2. BoundsInv(d)
    BY <1>1, <1>2 DEF BoundsInv
  <2> QED
    BY <1>2, <2>1, <2>2 DEF CallOK
<1> DEFINE d1 == [c EXCEPT !.finality = u]
           d2 == [c EXCEPT !.pc = pc, !.store = s]
<1>3. /\ d1 \in CallType /\ d1.updates = c.updates /\ d1.verified = c.verified
      /\ d1.began = c.began /\ d1.store = c.store /\ d1.pc = c.pc
  BY <1>1 DEF CallType
<1>4. /\ d2 \in CallType /\ d2.updates = c.updates /\ d2.verified = c.verified
      /\ d2.began = c.began /\ d2.store = s /\ d2.pc = pc
  BY <1>1 DEF CallType, CallPC
<1>5. CallOK(d1)
  <2> HIDE DEF d1
  <2> QED
    BY <1>1, <1>2, <1>3
<1>6. CallOK(d2)
  <2> HIDE DEF d2
  <2> QED
    BY <1>2, <1>4
<1> QED
  BY <1>5, <1>6

LEMMA SyncFinalityInv ==
    ASSUME ClientTypeOK, ClientInv, NEW r \in Rpcs, NEW k \in Int, k <= now,
           SyncFinality(r, k)
    PROVE  ClientTypeOK' /\ ClientInv'
<1> DEFINE u == FinalityUpdateAt(k)
           c == calls[r]
           d == [c EXCEPT !.finality = u]
           s == VerifyAndApply(u, now, c.store)
<1>1. /\ CallOK(c) /\ c.pc = "finality" /\ Running(r)
      /\ c.store \in Store /\ c.store.slot \in store.slot .. Finalized(now - 1)
  BY RunningOK DEF SyncFinality, Running
<1>2. UNCHANGED <<now, store>> /\ lapses' \in 0 .. MaxLapses /\ prompt' \subseteq Rpcs
  BY AnswersType DEF SyncFinality
<1>3. Continue(r, d, "done", s)
  BY DEF SyncFinality
<1>4. ASSUME s # Rejected PROVE CallOK([d EXCEPT !.pc = "done", !.store = s])
  <2>1. s = Apply(u, c.store) /\ Verifies(u, now, c.store)
    BY <1>4 DEF VerifyAndApply
  <2>2. Made(u, k) /\ u \in Update
    BY <1>1, <2>1, FinalityUpdateMade DEF Made
  <2>3. s \in Store /\ s.slot \in store.slot .. Finalized(now - 1)
    BY <1>1, <2>1, <2>2, ApplyInBounds
  <2> HIDE DEF s, c, u
  <2>4. CallOK(d)
    BY <1>1, <2>2, <2>3, EndOK
  <2>5. d.pc = "finality"
    BY <1>1 DEF CallOK, CallType
  <2> HIDE DEF d
  <2> QED
    BY <2>2, <2>3, <2>4, <2>5, EndOK
<1> HIDE DEF c, d, s
<1> QED
  BY <1>1, <1>2, <1>3, <1>4, ContinueInv

LEMMA AdvanceFinalityInv ==
    ASSUME ClientTypeOK, ClientInv, NEW r \in Rpcs, NEW k \in Int, k <= now,
           AdvanceFinality(r, k)
    PROVE  ClientTypeOK' /\ ClientInv'
<1> DEFINE u  == FinalityUpdateAt(k)
           c  == calls[r]
           s  == VerifyAndApply(u, now, c.store)
           pc == IF s.next THEN "done" ELSE "committee"
<1>1. /\ CallOK(c) /\ c.pc = "finality" /\ Running(r)
      /\ c.store \in Store /\ c.store.slot \in store.slot .. Finalized(now - 1)
  BY RunningOK DEF AdvanceFinality, Running
<1>2. UNCHANGED <<now, store>> /\ lapses' \in 0 .. MaxLapses /\ prompt' \subseteq Rpcs
  BY AnswersType DEF AdvanceFinality
<1>3. Continue(r, c, pc, s)
  BY DEF AdvanceFinality
<1>4. ASSUME s # Rejected PROVE CallOK([c EXCEPT !.pc = pc, !.store = s])
  <2>1. s = Apply(u, c.store) /\ Verifies(u, now, c.store)
    BY <1>4 DEF VerifyAndApply
  <2>2. Made(u, k) /\ u \in Update
    BY <1>1, <2>1, FinalityUpdateMade DEF Made
  <2>3. s \in Store /\ s.slot \in store.slot .. Finalized(now - 1)
    BY <1>1, <2>1, <2>2, ApplyInBounds
  <2> HIDE DEF s, c, u
  <2> QED
    BY <1>1, <2>2, <2>3, EndOK
<1> HIDE DEF c, s, pc
<1> QED
  BY <1>1, <1>2, <1>3, <1>4, ContinueInv

LEMMA AdvanceCommitteeInv ==
    ASSUME ClientTypeOK, ClientInv, NEW r \in Rpcs, NEW k \in Int, k <= now,
           AdvanceCommittee(r, k)
    PROVE  ClientTypeOK' /\ ClientInv'
<1> DEFINE c   == calls[r]
           old == c.store
           us  == CommitteeUpdates(Period(old.slot), 1, k)
           s   == IF Len(us) = 1 /\ Verifies(us[1], now, old)
                    THEN Apply(us[1], old) ELSE old
<1>1. /\ CallOK(c) /\ c.pc = "committee" /\ Running(r) /\ now \in Nat
      /\ old \in Store /\ old.slot \in store.slot .. Finalized(now - 1)
  BY RunningOK DEF AdvanceCommittee, Running
<1>2. UNCHANGED <<now, store>> /\ lapses' \in 0 .. MaxLapses /\ prompt' \subseteq Rpcs
  BY AnswersType DEF AdvanceCommittee
<1>3. Continue(r, c, "done", s)
  BY DEF AdvanceCommittee
<1>4. s \in Store /\ s.slot \in store.slot .. Finalized(now - 1)
  <2>1. ASSUME Len(us) = 1 PROVE Made(us[1], k)
    <3>1. Period(old.slot) \in Nat
      BY <1>1, PeriodNat DEF Store
    <3>2. \A i \in 1 .. Len(us) : MadeIn(us[i], Period(old.slot) + i - 1, k)
      BY <3>1, CommitteeUpdatesMade
    <3> QED
      BY <2>1, <3>2 DEF MadeIn
  <2> HIDE DEF us, old
  <2> QED
    BY <1>1, <2>1, ApplyInBounds
<1> HIDE DEF s
<1>5. CallOK([c EXCEPT !.pc = "done", !.store = s])
  <2>1. NoUpdate \in Update
    BY DEF NoUpdate, Update
  <2> HIDE DEF c
  <2> QED
    BY <1>1, <1>4, <2>1, EndOK
<1> HIDE DEF c
<1> QED
  BY <1>1, <1>2, <1>3, <1>5, ContinueInv

LEMMA CallStepInv ==
    ASSUME ClientTypeOK, ClientInv, NEW r \in Rpcs, CallStep(r)
    PROVE  ClientTypeOK' /\ ClientInv'
<1>1. CASE FailCall(r)
  BY <1>1, FailCallInv
<1>2. CASE VerifyUpdate(r)
  BY <1>2, VerifyInv
<1>3. ASSUME NEW k \in now - MaxLag .. now,
             \/ FetchUpdates(r, k) \/ SyncFinality(r, k)
             \/ AdvanceFinality(r, k) \/ AdvanceCommittee(r, k)
      PROVE  ClientTypeOK' /\ ClientInv'
  <2>1. k \in Int /\ k <= now
    BY ClientAssumption DEF ClientTypeOK
  <2> QED
    BY <1>3, <2>1, FetchInv, SyncFinalityInv, AdvanceFinalityInv, AdvanceCommitteeInv
<1> QED
  BY <1>1, <1>2, <1>3 DEF CallStep

-----------------------------------------------------------------------------
(* The steps of the client                                                 *)

LEMMA NoCallsInv ==
    ASSUME ClientTypeOK, ClientInv, calls' = NoCalls, UNCHANGED <<now, lapses, prompt>>,
           store' \in Store, store'.slot <= Finalized(now - 1)
    PROVE  ClientTypeOK' /\ ClientInv'
<1>1. ASSUME NEW r \in Rpcs
      PROVE  /\ calls'[r] \in CallType /\ calls'[r].pc = "idle"
             /\ TraceInv(calls[r])' /\ BoundsInv(calls[r])'
  <2>1. calls'[r] = IdleCall
    BY DEF NoCalls
  <2> QED
    BY <2>1, IdleOK DEF CallOK, TraceInv, BoundsInv, IdleCall
<1>2. calls' \in [Rpcs -> CallType]
  BY <1>1 DEF NoCalls
<1> QED
  BY <1>1, <1>2 DEF ClientTypeOK, ClientInv

LEMMA AdoptInv ==
    ASSUME ClientTypeOK, ClientInv, NEW r \in Rpcs, Adopt(r)
    PROVE  /\ ClientTypeOK' /\ ClientInv'
           /\ store'.slot \in store.slot .. Finalized(now - 1)
           /\ Idle'
<1>1. calls[r] \in CallType /\ calls[r].pc = "done" /\ BoundsInv(calls[r])
  BY DEF ClientTypeOK, ClientInv, Adopt, Candidates
<1>2. store' = calls[r].store /\ store' \in Store
  BY <1>1 DEF Adopt, CallType
<1>3. store'.slot \in store.slot .. Finalized(now - 1)
  BY <1>1, <1>2 DEF BoundsInv
<1>4. store'.slot <= Finalized(now - 1)
  <2>1. store.slot \in Nat /\ Finalized(now - 1) \in Nat
    BY FinalizedType DEF ClientTypeOK, Store
  <2> QED
    BY <1>3, <2>1
<1>5. Idle'
  BY DEF Adopt, NoCalls, Idle, IdleCall
<1> QED
  BY <1>2, <1>3, <1>4, <1>5, NoCallsInv DEF Adopt

LEMMA GiveUpInv ==
    ASSUME ClientTypeOK, ClientInv, GiveUp
    PROVE  ClientTypeOK' /\ ClientInv' /\ Idle'
<1>1. Idle'
  BY DEF GiveUp, NoCalls, Idle, IdleCall
<1>2. store' \in Store /\ store'.slot <= Finalized(now - 1)
  BY DEF GiveUp, ClientTypeOK, ClientInv
<1> QED
  BY <1>1, <1>2, NoCallsInv DEF GiveUp

LEMMA BootstrapInv ==
    ASSUME ClientTypeOK, ClientInv, Idle, NEW slot \in Nat, Bootstrap(slot),
           slot <= Finalized(now - 1)
    PROVE  ClientTypeOK' /\ ClientInv'
<1>1. store' \in Store /\ store'.slot = slot /\ UNCHANGED <<now, lapses, prompt, calls>>
  BY DEF Bootstrap, Store
<1>2. ASSUME NEW r \in Rpcs PROVE TraceInv(calls[r])' /\ BoundsInv(calls[r])'
  BY <1>1 DEF Idle, ClientInv, TraceInv, BoundsInv
<1> QED
  BY <1>1, <1>2 DEF ClientTypeOK, ClientInv, Contiguous

LEMMA NextSlotInv ==
    ASSUME ClientTypeOK, ClientInv, NextSlot
    PROVE  /\ ClientTypeOK' /\ ClientInv'
           /\ Finalized(now - 1) <= Finalized(now' - 1)
           /\ Idle => Idle'
<1>1. now \in Nat /\ now' = now + 1 /\ now' \in 0 .. MaxNow
      /\ UNCHANGED <<lapses, prompt, store, calls>>
  BY ClientAssumption DEF NextSlot, ClientTypeOK
<1>2. Finalized(now - 1) <= Finalized(now' - 1)
  BY <1>1, FinalizedMonotone
<1>3. Finalized(now - 1) \in Nat /\ Finalized(now' - 1) \in Nat /\ store.slot \in Nat
  BY <1>1, FinalizedType DEF ClientTypeOK, Store
<1>4. ASSUME NEW r \in Rpcs PROVE TraceInv(calls[r])' /\ BoundsInv(calls[r])'
  <2>1. TraceInv(calls[r]) /\ BoundsInv(calls[r]) /\ calls[r] \in CallType
    BY DEF ClientInv, ClientTypeOK
  <2>2. \A u, p : MadeIn(u, p, now) => MadeIn(u, p, now')
    BY <1>1 DEF MadeIn, Made, Update
  <2>3. TraceInv(calls[r])'
    BY <1>1, <2>1, <2>2 DEF TraceInv
  <2>4. BoundsInv(calls[r])'
    BY <1>1, <1>2, <1>3, <2>1 DEF BoundsInv, CallType, Store
  <2> QED
    BY <2>3, <2>4
<1>5. ClientInv'
  BY <1>1, <1>2, <1>3, <1>4 DEF ClientInv
<1> QED
  BY <1>1, <1>2, <1>5 DEF ClientTypeOK, Idle, Contiguous

-----------------------------------------------------------------------------
(* The slots of a period                                                   *)

LEMMA FirstSlots ==
    \A p \in Nat : FirstSlot(p) \in Nat /\ FirstSlot(p + 1) = FirstSlot(p) + PeriodLength
BY ChainAssumption DEF FirstSlot

LEMMA PeriodSlots ==
    ASSUME NEW a \in Nat
    PROVE  /\ Period(a) \in Nat
           /\ FirstSlot(Period(a)) <= a /\ a < FirstSlot(Period(a)) + PeriodLength
BY ChainAssumption DEF Period, FirstSlot

LEMMA PeriodIs ==
    ASSUME NEW p \in Nat, NEW a \in Nat,
           FirstSlot(p) <= a, a < FirstSlot(p) + PeriodLength
    PROVE  Period(a) = p
BY ChainAssumption DEF Period, FirstSlot

LEMMA SamePeriod ==
    ASSUME NEW a \in Nat, NEW b \in Nat, NEW c \in Nat, a <= b, b <= c,
           Period(a) = Period(c)
    PROVE  Period(b) = Period(a)
BY PeriodMonotone, PeriodNat

(* Slots less than a period apart are at most one period apart.            *)
LEMMA NextPeriod ==
    ASSUME NEW a \in Nat, NEW b \in Nat, a <= b, b < a + PeriodLength
    PROVE  /\ Period(b) = Period(a) \/ Period(b) = Period(a) + 1
           /\ Period(b) = Period(a) + 1 => FirstSlot(Period(b)) = FirstSlot(Period(a)) + PeriodLength
<1> DEFINE p == Period(a)
<1>1. /\ p \in Nat /\ FirstSlot(p) \in Nat /\ PeriodLength \in Nat
      /\ FirstSlot(p) <= a /\ a < FirstSlot(p) + PeriodLength
      /\ FirstSlot(p + 1) = FirstSlot(p) + PeriodLength
  BY PeriodSlots, FirstSlots, ChainAssumption
<1> HIDE DEF p
<1>2. CASE b < FirstSlot(p) + PeriodLength
  BY <1>1, <1>2, PeriodIs DEF p
<1>3. CASE b >= FirstSlot(p) + PeriodLength
  <2>1. Period(b) = p + 1
    BY <1>1, <1>3, PeriodIs
  <2> QED
    BY <1>1, <2>1 DEF p
<1> QED
  BY <1>1, <1>2, <1>3

LEMMA FirstSlotsApart ==
    ASSUME NEW p \in Nat, NEW q \in Nat, p < q
    PROVE  FirstSlot(p) + PeriodLength <= FirstSlot(q)
<1>1. PeriodLength \in Nat /\ q - (p + 1) \in Nat
  BY ChainAssumption
<1>2. PeriodLength * (q - (p + 1)) \in Nat
  BY <1>1
<1>3. PeriodLength * q = PeriodLength * (q - (p + 1)) + PeriodLength * p + PeriodLength
  BY <1>1
<1> QED
  BY <1>1, <1>2, <1>3 DEF FirstSlot

(* A later slot is of the same period up to its end.                       *)
LEMMA LaterSlot ==
    ASSUME NEW a \in Nat, NEW b \in Nat, a <= b, Period(b) # Period(a)
    PROVE  FirstSlot(Period(a)) + PeriodLength <= b
<1>1. /\ Period(a) \in Nat /\ FirstSlot(Period(a)) \in Nat /\ PeriodLength \in Nat
      /\ FirstSlot(Period(a)) <= a
  BY PeriodSlots, FirstSlots, ChainAssumption
<1>2. ~ (b < FirstSlot(Period(a)) + PeriodLength)
  BY <1>1, PeriodIs
<1> QED
  BY <1>1, <1>2

LEMMA FinalizedIs == \A a \in Int : a >= Lag => Finalized(a) = a - Lag
BY ChainAssumption DEF Finalized

-----------------------------------------------------------------------------
(* Which updates a node has                                                *)

(* Once a header of a period is finalized, the update of the period is     *)
(* complete.                                                               *)
LEMMA CompleteUpdate ==
    ASSUME NEW p \in Nat, NEW k \in Int, FirstSlot(p) + Lag < k,
           Lag + 1 < PeriodLength
    PROVE  Attested(p, k) # {} /\ Complete(UpdateOf(p, k), p)
<1> DEFINE a      == FirstSlot(p) + Lag
           known  == {b \in 1 .. k - 1 : Period(b) = p /\ Period(b + 1) = p}
           better == {b \in known : Period(Finalized(b)) = p}
<1>1. FirstSlot(p) \in Nat /\ Lag \in Nat \ {0} /\ Lag + 1 < PeriodLength /\ PeriodLength \in Nat
  BY FirstSlots, ChainAssumption
<1>2. Period(a) = p /\ Period(a + 1) = p
  BY <1>1, PeriodIs
<1>3. Finalized(a) = FirstSlot(p) /\ Period(Finalized(a)) = p
  BY <1>1, FinalizedIs, PeriodIs
<1>4. a \in better
  BY <1>1, <1>2, <1>3
<1>5. Attested(p, k) = better
  BY <1>4 DEF Attested
<1> DEFINE m == Sets!Min(better)
<1>6. m \in better
  BY <1>4, MinIsLeast
<1> HIDE DEF m
<1> QED
  BY <1>4, <1>5, <1>6 DEF m, Complete, UpdateOf, MakeUpdate

LEMMA NoUpdateAhead ==
    ASSUME NEW p \in Nat, NEW k \in Nat, Attested(p, k) # {}
    PROVE  FirstSlot(p) < k
<1>1. PICK a \in 1 .. k - 1 : Period(a) = p
  BY AttestedSlots
<1> QED
  BY <1>1, PeriodSlots, FirstSlots

(* The answer to a request for periods from p on, of which the node has    *)
(* updates for the first m.                                                *)
LEMMA CommitteeUpdatesAre ==
    ASSUME NEW p \in Nat, NEW n \in Nat, NEW k \in Int, NEW m \in 0 .. n,
           \A q \in p .. p + m - 1 : Attested(q, k) # {},
           \A q \in p + m .. p + n - 1 : Attested(q, k) = {}
    PROVE  LET us == CommitteeUpdates(p, n, k) IN
           /\ Len(us) = m
           /\ \A i \in 1 .. m : us[i] = UpdateOf(p + i - 1, k)
<1> DEFINE S == {q \in p .. p + n - 1 : Attested(q, k) # {}}
<1>1. S = p .. p + m - 1
  OBVIOUS
<1>2. Cardinality(p .. p + m - 1) = m
  <2>1. p + m - 1 \in Int
    OBVIOUS
  <2> QED
    BY <2>1, FS_Interval
<1>3. Cardinality(S) = m
  BY <1>1, <1>2
<1> HIDE DEF S
<1>4. CommitteeUpdates(p, n, k) = [i \in 1 .. m |-> UpdateOf(p + i - 1, k)]
  BY <1>3 DEF CommitteeUpdates, S
<1> QED
  BY <1>4

-----------------------------------------------------------------------------
(* What an update does to a store                                          *)

(* The update of the store's own period, or of the next one.               *)
LEMMA CommitteeVerifies ==
    ASSUME NEW s \in Store, NEW p \in Nat, NEW u, NEW n \in Int, MadeIn(u, p, n),
           \/ Period(s.slot) = p /\ ~ s.next
           \/ Period(s.slot) = p - 1 /\ s.next
    PROVE  Verifies(u, n, s)
<1>1. /\ u.att \in Nat /\ u.sig <= n /\ u.next
      /\ Period(u.att) = p /\ Period(u.sig) = p /\ s.slot \in Nat
  BY DEF MadeIn, Made, Update, Store
<1>2. ASSUME Period(s.slot) = p - 1 PROVE u.att > s.slot
  <2>1. ~ (u.att <= s.slot)
    BY <1>1, <1>2, PeriodMonotone
  <2> QED
    BY <1>1, <2>1
<1> QED
  BY <1>1, <1>2 DEF Verifies, BringsCommittee

(* A complete one brings the store to its period and makes it know the     *)
(* next committee.                                                         *)
LEMMA CompleteApplies ==
    ASSUME NEW s \in Store, NEW p \in Nat, NEW u, NEW n \in Int, MadeIn(u, p, n),
           Complete(u, p), Verifies(u, n, s)
    PROVE  LET a == Apply(u, s) IN a.next /\ Period(a.slot) = p
<1>1. /\ u.fin \in Nat /\ u.next = TRUE /\ Period(u.fin) = p /\ Period(u.att) = p
      /\ Period(u.sig) = p /\ s.slot \in Nat /\ s.next \in BOOLEAN
      /\ Period(s.slot) \in Nat
  BY PeriodNat DEF MadeIn, Made, Update, Store, Complete
<1>2. Period(s.slot) = p \/ (s.next /\ Period(s.slot) = p - 1)
  BY <1>1 DEF Verifies
<1>3. ASSUME Period(s.slot) = p - 1 PROVE u.fin > s.slot
  <2>1. ~ (u.fin <= s.slot)
    BY <1>1, <1>3, PeriodMonotone
  <2> QED
    BY <1>1, <2>1
<1>4. CASE u.fin > s.slot
  BY <1>1, <1>2, <1>4 DEF Apply
<1>5. CASE ~ (u.fin > s.slot)
  BY <1>1, <1>2, <1>3, <1>5 DEF Apply
<1> QED
  BY <1>4, <1>5

(* One that is not leaves a store that knows the next committee knowing    *)
(* it, and does not move it beyond the period before.                      *)
LEMMA IncompleteApplies ==
    ASSUME NEW s \in Store, NEW p \in Nat, NEW u, NEW n \in Int, MadeIn(u, p, n),
           s.next, Period(s.slot) = p - 1
    PROVE  LET a == Apply(u, s) IN a.next /\ Period(a.slot) \in {p - 1, p}
<1>1. /\ u.fin \in Nat /\ u.next = TRUE /\ u.fin <= u.att /\ u.att \in Nat
      /\ Period(u.att) = p /\ s.slot \in Nat
  BY FinalizedType DEF MadeIn, Made, Update, Store
<1>2. Period(u.fin) <= p /\ Period(u.fin) \in Nat
  BY <1>1, PeriodMonotone, PeriodNat
<1>3. u.fin > s.slot => Period(u.fin) \in {p - 1, p}
  BY <1>1, <1>2, PeriodMonotone
<1> QED
  BY <1>1, <1>3 DEF Apply

(* A committee update that moves a store on makes it know the next         *)
(* committee; none makes it forget it.                                     *)
LEMMA CommitteeApplies ==
    ASSUME NEW s \in Store, NEW u, u.fin \in Nat, u.next
    PROVE  LET a == Apply(u, s) IN
           /\ a.slot > s.slot => a.next
           /\ s.next => a.next
BY DEF Apply, Store

(* A finality update that makes a store forget the committee it knew, or   *)
(* finds it without, was signed in the period it brings the store to.      *)
LEMMA FinalityApplies ==
    ASSUME NEW s \in Store, NEW k \in Int, NEW n,
           Verifies(FinalityUpdateAt(k), n, s)
    PROVE  LET a == Apply(FinalityUpdateAt(k), s) IN
           /\ a.slot = IF Finalized(k - 1) > s.slot THEN Finalized(k - 1) ELSE s.slot
           /\ a.slot = s.slot => a.next = s.next
           /\ a.slot > s.slot /\ ~ a.next => Period(k) = Period(a.slot)
           /\ a.slot > s.slot /\ s.next /\ ~ a.next => Period(a.slot) = Period(s.slot) + 1
<1> DEFINE u == FinalityUpdateAt(k)
           a == Apply(u, s)
<1>1. /\ Made(u, k) /\ u.fin = Finalized(k - 1) /\ u.sig = k /\ u.next = FALSE
      /\ u.att = k - 1
  BY FinalityUpdateMade DEF FinalityUpdateAt, MakeUpdate
<1>2. u.att \in Nat /\ u.fin \in Nat /\ u.fin <= k /\ k \in Nat
  BY <1>1, FinalizedType DEF Made, Update
<1>3. s.slot \in Nat /\ s.next \in BOOLEAN
  BY DEF Store
<1>4. /\ a.slot = IF u.fin > s.slot THEN u.fin ELSE s.slot
      /\ a.slot = s.slot => a.next = s.next
  BY <1>1, <1>2, <1>3 DEF Apply
<1>5. ASSUME a.slot > s.slot
      PROVE  /\ a.slot = u.fin
             /\ ~ a.next => ~ s.next \/ Period(u.fin) = Period(s.slot) + 1
             /\ Period(s.slot) <= Period(u.fin) /\ Period(u.fin) <= Period(k)
  BY <1>1, <1>2, <1>3, <1>5, PeriodMonotone DEF Apply
<1>6. \/ Period(k) = Period(s.slot)
      \/ s.next /\ Period(k) = Period(s.slot) + 1
  BY <1>1 DEF Verifies
<1>7. Period(s.slot) \in Nat /\ Period(u.fin) \in Nat /\ Period(k) \in Nat
  BY <1>2, <1>3, PeriodNat
<1> HIDE DEF a, u
<1> QED
  BY <1>1, <1>4, <1>5, <1>6, <1>7 DEF a, u

-----------------------------------------------------------------------------
(* A trace that grows                                                      *)

(* More updates, of the periods that follow those of the trace.            *)
Appended(vs, us, new) ==
    /\ Len(us) \in Nat /\ Len(new) \in Nat /\ Len(vs) = Len(us) + Len(new)
    /\ \A i \in 1 .. Len(us) : vs[i] = us[i]
    /\ \A i \in Len(us) + 1 .. Len(vs) : vs[i] = new[i - Len(us)]

LEMMA Appends ==
    ASSUME NEW us \in Seq(Update), NEW new \in Seq(Update)
    PROVE  Appended(us \o new, us, new)
BY ConcatProperties, LenProperties DEF Appended

LEMMA LastAppended ==
    ASSUME NEW us, NEW new, NEW vs, Appended(vs, us, new), Len(new) # 0
    PROVE  vs[Len(vs)] = new[Len(new)]
<1>1. /\ Len(vs) \in Len(us) + 1 .. Len(vs) /\ Len(vs) - Len(us) = Len(new)
      /\ \A i \in Len(us) + 1 .. Len(vs) : vs[i] = new[i - Len(us)]
  BY DEF Appended
<1> QED
  BY <1>1

LEMMA CompleteAppended ==
    ASSUME NEW us, NEW new, NEW vs, Appended(vs, us, new),
           NEW p \in Nat, NEW f \in Nat, NEW m \in Nat, m <= Len(new), Len(us) = f - p,
           CompleteFrom(us, Len(us), p), CompleteFrom(new, m, f)
    PROVE  CompleteFrom(vs, Len(us) + m, p)
<1> SUFFICES ASSUME NEW i \in 1 .. Len(us) + m PROVE Complete(vs[i], p + i - 1)
  BY DEF CompleteFrom
<1>1. Len(us) \in Nat /\ Len(new) \in Nat /\ Len(vs) = Len(us) + Len(new)
  BY DEF Appended
<1>2. CASE i <= Len(us)
  <2>1. i \in 1 .. Len(us)
    BY <1>1, <1>2
  <2>2. vs[i] = us[i]
    BY <2>1 DEF Appended
  <2> QED
    BY <2>1, <2>2 DEF CompleteFrom
<1>3. CASE i > Len(us)
  <2> DEFINE j == i - Len(us)
  <2>1. i \in Len(us) + 1 .. Len(vs) /\ j \in 1 .. m /\ f + j - 1 = p + i - 1
    BY <1>1, <1>3
  <2>2. vs[i] = new[j]
    BY <2>1 DEF Appended
  <2> HIDE DEF j
  <2>3. Complete(new[j], f + j - 1)
    BY <2>1 DEF CompleteFrom
  <2> QED
    BY <2>1, <2>2, <2>3
<1> QED
  BY <1>1, <1>2, <1>3

LEMMA PeriodsAppended ==
    ASSUME NEW us, NEW new, NEW vs, Appended(vs, us, new),
           NEW p \in Nat, NEW f \in Nat, Len(us) = f - p,
           FromPeriod(us, p), FromPeriod(new, f)
    PROVE  FromPeriod(vs, p)
<1> SUFFICES ASSUME NEW i \in 1 .. Len(vs) PROVE Period(vs[i].att) = p + i - 1
  BY DEF FromPeriod
<1>1. Len(us) \in Nat /\ Len(new) \in Nat /\ Len(vs) = Len(us) + Len(new)
  BY DEF Appended
<1>2. CASE i <= Len(us)
  <2>1. i \in 1 .. Len(us)
    BY <1>1, <1>2
  <2>2. vs[i] = us[i]
    BY <2>1 DEF Appended
  <2> QED
    BY <2>1, <2>2 DEF FromPeriod
<1>3. CASE i > Len(us)
  <2> DEFINE j == i - Len(us)
  <2>1. i \in Len(us) + 1 .. Len(vs) /\ j \in 1 .. Len(new) /\ f + j - 1 = p + i - 1
    BY <1>1, <1>3
  <2>2. vs[i] = new[j]
    BY <2>1 DEF Appended
  <2> HIDE DEF j
  <2>3. Period(new[j].att) = f + j - 1
    BY <2>1 DEF FromPeriod
  <2> QED
    BY <2>1, <2>2, <2>3
<1> QED
  BY <1>1, <1>2, <1>3
=============================================================================
