--------------------------- MODULE ProofInputsProofs ---------------------------
(***************************************************************************)
(* The inputs of a proof, for any number of RPCs and providers, any slots  *)
(* requested and any lag: the task is well typed, host and program agree,  *)
(* a proof moves the contract forward, and what it commits is true.        *)
(***************************************************************************)
EXTENDS ProofInputs, ConsensusClientProofs

-----------------------------------------------------------------------------
(* Storage                                                                 *)

LEMMA ValueType ==
    ASSUME NEW contract \in Contracts, NEW key \in SlotKeys, NEW b \in Nat
    PROVE  ValueAt(contract, key, b) \in Nat
<1> DEFINE S == {0} \cup {w \in Writes[contract][key] : w <= b}
           D == {b - x : x \in S}
<1>1. S \subseteq Nat /\ \A x \in S : x <= b
  <2>1. Writes[contract][key] \subseteq Nat
    BY StorageAssumption
  <2> QED
    BY <2>1
<1>2. D \subseteq Nat /\ D # {}
  BY <1>1
<1>3. PICK d \in D : \A e \in D : d <= e
  BY <1>2, LeastExists
<1>4. PICK x \in S : d = b - x
  BY <1>3
<1>5. \A y \in S : x >= y
  BY <1>1, <1>3, <1>4
<1>6. Blocks!Max(S) \in S
  BY <1>5 DEF Blocks!Max
<1> QED
  BY <1>1, <1>6 DEF ValueAt

LEMMA KeysType ==
    /\ Len(Keys) \in Nat /\ DOMAIN Keys = 1 .. Len(Keys)
    /\ \A i \in 1 .. Len(Keys) : Keys[i] \in SlotKeys
BY StorageAssumption, LenProperties, ElementOfSeq

(* The items of an answer are of the state of its contract, whatever keys  *)
(* they are for.                                                           *)
LEMMA AnswerGenuine ==
    ASSUME NEW b \in Nat, NEW answer \in Answers(b), answer.block = b
    PROVE  /\ answer.address \in Contracts
           /\ answer.items \in Seq(Item)
           /\ \A i \in 1 .. Len(answer.items) :
                 answer.items[i].value = ValueAt(answer.address, answer.items[i].key, b)
<1>1. PICK contract \in Contracts : answer \in AnswersOf(contract, b)
  <2>1. PICK contract \in Contracts, d \in {b - 1, b} : answer \in AnswersOf(contract, d)
    BY DEF Answers
  <2>2. d = b
    BY <2>1 DEF AnswersOf
  <2> QED
    BY <2>1, <2>2
<1> DEFINE S == {ItemOf(contract, key, b) : key \in SlotKeys}
<1>2. answer.address = contract /\ answer.items \in Lists!SeqOf(S, Len(Keys) + 1)
  BY <1>1 DEF AnswersOf
<1>3. \A x \in S : x \in Item /\ x.value = ValueAt(contract, x.key, b)
  BY ValueType DEF ItemOf, Item
<1> HIDE DEF S
<1>4. PICK m \in 0 .. Len(Keys) + 1 : answer.items \in [1 .. m -> S]
  BY <1>2 DEF Lists!SeqOf
<1>5. m \in Nat
  BY <1>4, KeysType
<1>6. answer.items \in Seq(S) /\ Len(answer.items) = m
  BY <1>4, <1>5
<1>7. \A i \in 1 .. m : answer.items[i] \in S
  BY <1>4
<1>8. answer.items \in Seq(Item)
  <2>1. answer.items \in [1 .. m -> Item]
    BY <1>3, <1>4
  <2> QED
    BY <1>5, <2>1
<1> QED
  BY <1>1, <1>2, <1>3, <1>6, <1>7, <1>8

(* An answer the host can verify is of all the keys, in their order, at    *)
(* the block asked for, and of one contract.                               *)
LEMMA CheckedComplete ==
    ASSUME NEW b \in Nat, NEW answer \in Answers(b), Checked(answer, b)
    PROVE  LET storage == Build(answer) IN
           /\ storage \in Storage /\ storage.block = b
           /\ Verified(b, storage)
           /\ VerifiedSlots(storage) = SlotsAt(storage.address, b)
           /\ \A i \in DOMAIN Keys : ValueAt(storage.address, Keys[i], b) # 0
<1> DEFINE storage == Build(answer)
           slot(i) == [key |-> Keys[i], proof |-> answer.items[i]]
<1>1. Verified(b, storage) /\ storage.block = b /\ storage # NoStorage
  BY DEF Checked, Verified
<1>2. /\ Len(answer.items) = Len(Keys) /\ answer.block = b
      /\ storage = [address |-> answer.address, block |-> answer.block,
                    slots |-> [i \in DOMAIN Keys |-> slot(i)]]
  BY <1>1 DEF Build
<1>3. /\ storage.address = answer.address
      /\ storage.slots = [i \in 1 .. Len(Keys) |-> slot(i)]
      /\ DOMAIN storage.slots = 1 .. Len(Keys)
  BY <1>2, KeysType
<1>4. /\ answer.address \in Contracts /\ answer.items \in Seq(Item)
      /\ \A i \in 1 .. Len(Keys) :
            answer.items[i].value = ValueAt(answer.address, answer.items[i].key, b)
  BY <1>2, AnswerGenuine
<1> HIDE DEF storage
<1>5. ASSUME NEW i \in 1 .. Len(Keys)
      PROVE  /\ Keys[i] \in SlotKeys /\ answer.items[i] \in Item
             /\ storage.slots[i].key = Keys[i]
             /\ storage.slots[i].proof.value = ValueAt(answer.address, Keys[i], b)
             /\ ValueAt(answer.address, Keys[i], b) # 0
  <2>1. answer.items[i] \in Item
    BY <1>2, <1>4, ElementOfSeq
  <2>2. storage.slots[i].key = Keys[i] /\ storage.slots[i].proof = answer.items[i]
    BY <1>3
  <2>3. answer.items[i].key = Keys[i] /\ answer.items[i].value # 0
    BY <1>1, <1>3, <2>2 DEF Verified
  <2> QED
    BY <1>4, <2>1, <2>2, <2>3, KeysType
<1>6. VerifiedSlots(storage) = SlotsAt(storage.address, b)
  <2>1. VerifiedSlots(storage) =
          [i \in 1 .. Len(Keys) |->
             [key |-> storage.slots[i].key, value |-> storage.slots[i].proof.value,
              contract |-> answer.address]]
    BY <1>3 DEF VerifiedSlots
  <2>2. SlotsAt(storage.address, b) =
          [i \in 1 .. Len(Keys) |->
             [key |-> Keys[i], value |-> ValueAt(answer.address, Keys[i], b),
              contract |-> answer.address]]
    BY <1>3, KeysType DEF SlotsAt
  <2> QED
    BY <1>5, <2>1, <2>2
<1>7. \A i \in DOMAIN Keys : ValueAt(storage.address, Keys[i], b) # 0
  BY <1>3, <1>5, KeysType
<1>8. storage \in Storage
  <2>1. \A i \in 1 .. Len(Keys) : slot(i) \in Slot
    BY <1>5 DEF Slot
  <2> HIDE DEF slot
  <2>2. storage.slots \in Seq(Slot)
    BY <1>3, <2>1, KeysType
  <2>3. storage = [address |-> storage.address, block |-> b, slots |-> storage.slots]
    BY <1>2
  <2> QED
    BY <1>3, <1>4, <2>2, <2>3 DEF Storage
<1> QED
  BY <1>1, <1>6, <1>7, <1>8 DEF storage

(* What the program commits is well typed.                                 *)
LEMMA SlotsType ==
    ASSUME NEW storage \in Storage
    PROVE  VerifiedSlots(storage) \in Seq(VerifiedSlot)
<1> DEFINE item(i) == [key |-> storage.slots[i].key, value |-> storage.slots[i].proof.value,
                       contract |-> storage.address]
<1>1. storage.slots \in Seq(Slot) /\ storage.address \in Contracts
  BY DEF Storage
<1>2. /\ Len(storage.slots) \in Nat /\ DOMAIN storage.slots = 1 .. Len(storage.slots)
      /\ \A i \in 1 .. Len(storage.slots) : storage.slots[i] \in Slot
  BY <1>1, LenProperties, ElementOfSeq
<1>3. \A i \in 1 .. Len(storage.slots) : item(i) \in VerifiedSlot
  BY <1>1, <1>2 DEF Slot, Item, VerifiedSlot
<1>4. VerifiedSlots(storage) = [i \in 1 .. Len(storage.slots) |-> item(i)]
  BY <1>2 DEF VerifiedSlots
<1> HIDE DEF item
<1> QED
  BY <1>2, <1>3, <1>4

-----------------------------------------------------------------------------
(* The stores along a trace                                                *)

LEMMA NatInduct ==
    ASSUME NEW S \in SUBSET Nat, 0 \in S, \A n \in S : n + 1 \in S
    PROVE  S = Nat
<1>1. SUFFICES ASSUME Nat \ S # {} PROVE FALSE
  OBVIOUS
<1>2. PICK x \in Nat \ S : \A y \in Nat \ S : x <= y
  BY <1>1, LeastExists
<1>3. x # 0 /\ x - 1 \in Nat /\ x - 1 \in S
  BY <1>2
<1> QED
  BY <1>3

LEMMA StoresDef ==
    ASSUME NEW s \in Store, NEW us \in Seq(Update)
    PROVE  LET t == StoresOf(s, us) IN
           t = [i \in 0 .. Len(us) |-> IF i = 0 THEN s ELSE Apply(us[i], t[i - 1])]
<1> DEFINE P(n) == \E t \in [0 .. n -> Store] :
                      t[0] = s /\ \A i \in 1 .. n : t[i] = Apply(us[i], t[i - 1])
           S == {n \in Nat : n <= Len(us) => P(n)}
<1>1. Len(us) \in Nat /\ \A i \in 1 .. Len(us) : us[i] \in Update
  BY LenProperties, ElementOfSeq
<1>2. 0 \in S
  <2> DEFINE t == [i \in 0 .. 0 |-> s]
  <2>1. t \in [0 .. 0 -> Store] /\ t[0] = s /\ 1 .. 0 = {}
    OBVIOUS
  <2>2. \A i \in 1 .. 0 : t[i] = Apply(us[i], t[i - 1])
    BY <2>1
  <2> HIDE DEF t
  <2>3. P(0)
    BY <2>1, <2>2
  <2> HIDE DEF P
  <2> QED
    BY <2>3
<1>3. ASSUME NEW n \in S PROVE n + 1 \in S
  <2> SUFFICES ASSUME n + 1 <= Len(us) PROVE P(n + 1)
    OBVIOUS
  <2>1. PICK t \in [0 .. n -> Store] :
            t[0] = s /\ \A i \in 1 .. n : t[i] = Apply(us[i], t[i - 1])
    BY <1>1
  <2> DEFINE v == [i \in 0 .. n + 1 |-> IF i = n + 1 THEN Apply(us[n + 1], t[n]) ELSE t[i]]
  <2>2. Apply(us[n + 1], t[n]) \in Store
    <3>1. us[n + 1].fin \in Nat /\ us[n + 1].next \in BOOLEAN
      BY <1>1 DEF Update
    <3>2. t[n] \in Store
      BY <2>1
    <3> QED
      BY <3>1, <3>2, ApplyBounds
  <2>3. v \in [0 .. n + 1 -> Store]
    BY <2>1, <2>2
  <2>4. v[0] = s /\ \A i \in 1 .. n + 1 : v[i] = Apply(us[i], v[i - 1])
    BY <2>1
  <2> QED
    BY <2>3, <2>4
<1>4. P(Len(us))
  <2> HIDE DEF P
  <2>1. S = Nat
    BY <1>2, <1>3, NatInduct
  <2> QED
    BY <1>1, <2>1
<1>5. PICK t \in [0 .. Len(us) -> Store] :
          t[0] = s /\ \A i \in 1 .. Len(us) : t[i] = Apply(us[i], t[i - 1])
  BY <1>4
<1>6. t = [i \in 0 .. Len(us) |-> IF i = 0 THEN s ELSE Apply(us[i], t[i - 1])]
  BY <1>1, <1>5
<1> QED
  BY <1>6 DEF StoresOf

LEMMA StoresSteps ==
    ASSUME NEW s \in Store, NEW us \in Seq(Update)
    PROVE  /\ StoresOf(s, us)[0] = s
           /\ \A i \in 1 .. Len(us) :
                 StoresOf(s, us)[i] = Apply(us[i], StoresOf(s, us)[i - 1])
<1> DEFINE t == StoresOf(s, us)
<1>1. t = [i \in 0 .. Len(us) |-> IF i = 0 THEN s ELSE Apply(us[i], t[i - 1])]
  BY StoresDef
<1>2. Len(us) \in Nat
  BY LenProperties
<1> HIDE DEF t
<1>3. t[0] = s /\ \A i \in 1 .. Len(us) : t[i] = Apply(us[i], t[i - 1])
  BY <1>1, <1>2
<1> QED
  BY <1>3 DEF t

(* An update stays verified as time passes.                                *)
LEMMA VerifiesLater ==
    ASSUME NEW n \in Nat, NEW u, u.sig \in Nat, NEW s, Verifies(u, n, s)
    PROVE  Verifies(u, n + 1, s)
BY DEF Verifies

(* What passes by one clock fails by another for its signature only.       *)
LEMMA SameVerdict ==
    ASSUME NEW u \in Update, NEW s \in Store, NEW n, NEW e \in Nat, Verifies(u, n, s)
    PROVE  VerifyAndApply(u, e, s) = IF u.sig <= e THEN Apply(u, s) ELSE Rejected
BY DEF Verifies, VerifyAndApply

-----------------------------------------------------------------------------
(* The calls                                                               *)

LEMMA OneCallAgrees ==
    ASSUME \A q \in Rpcs : CallAgrees(calls[q]), UNCHANGED <<now, store>>,
           calls \in [Rpcs -> CallType],
           NEW r \in Rpcs, NEW d, calls' = [calls EXCEPT ![r] = d], CallAgrees(d)
    PROVE  \A q \in Rpcs : CallAgrees(calls[q])'
<1> SUFFICES ASSUME NEW q \in Rpcs PROVE CallAgrees(calls[q])'
  OBVIOUS
<1>1. calls'[q] = IF q = r THEN d ELSE calls[q]
  OBVIOUS
<1> QED
  BY <1>1 DEF CallAgrees

LEMMA FailedAgrees ==
    ASSUME NEW c \in CallType, CallAgrees(c), c.pc # "idle"
    PROVE  CallAgrees([c EXCEPT !.pc = "failed"])
<1> DEFINE d == [c EXCEPT !.pc = "failed"]
<1>1. /\ d.pc = "failed" /\ d.op = c.op /\ d.updates = c.updates
      /\ d.verified = c.verified
  BY DEF CallType
<1> HIDE DEF d
<1>2. CallAgrees(d)
  BY <1>1 DEF CallAgrees
<1> QED
  BY <1>2 DEF d

LEMMA ContinueAgrees ==
    ASSUME ClientTypeOK, \A q \in Rpcs : CallAgrees(calls[q]), UNCHANGED <<now, store>>,
           NEW r \in Rpcs, Running(r), NEW c, NEW pc, NEW s, Continue(r, c, pc, s),
           s # Rejected => CallAgrees([c EXCEPT !.pc = pc, !.store = s])
    PROVE  \A q \in Rpcs : CallAgrees(calls[q])'
<1>1. calls \in [Rpcs -> CallType] /\ calls[r] \in CallType /\ calls[r].pc # "idle"
  BY DEF ClientTypeOK, Running
<1>2. CASE s = Rejected
  <2>1. calls' = [calls EXCEPT ![r] = [calls[r] EXCEPT !.pc = "failed"]]
    BY <1>1, <1>2 DEF Continue
  <2> QED
    BY <1>1, <2>1, FailedAgrees, OneCallAgrees
<1>3. CASE s # Rejected
  BY <1>1, <1>3, OneCallAgrees DEF Continue
<1> QED
  BY <1>2, <1>3

LEMMA FetchAgrees ==
    ASSUME ClientTypeOK, ClientInv, \A q \in Rpcs : CallAgrees(calls[q]),
           NEW r \in Rpcs, NEW k \in Int, k <= now, FetchUpdates(r, k)
    PROVE  \A q \in Rpcs : CallAgrees(calls[q])'
<1> DEFINE c == calls[r]
<1>1. /\ c \in CallType /\ c.pc = "updates" /\ c.verified = 0 /\ store \in Store
      /\ c.op = "sync" /\ c.store = StoresOf(store, c.updates)[0]
  BY DEF FetchUpdates, ClientTypeOK, ClientInv, TraceInv, CallAgrees
<1>2. c.store = store
  BY <1>1, StoresSteps DEF CallType
<1>3. calls'[r] \in CallType /\ UNCHANGED <<now, store>>
  BY FetchInv DEF ClientTypeOK, FetchUpdates
<1>4. /\ calls' = [calls EXCEPT ![r] = calls'[r]]
      /\ calls'[r].pc \in {"updates", "verify"} /\ calls'[r].op = c.op
      /\ calls'[r].verified = c.verified /\ calls'[r].store = c.store
  BY DEF FetchUpdates, ClientTypeOK, CallType
<1>5. StoresOf(store, calls'[r].updates)[0] = store
  BY <1>1, <1>3, StoresSteps DEF CallType
<1>6. CallAgrees(calls'[r])
  BY <1>1, <1>2, <1>4, <1>5 DEF CallAgrees
<1> QED
  BY <1>3, <1>4, <1>6, OneCallAgrees DEF ClientTypeOK

LEMMA VerifyAgrees ==
    ASSUME ClientTypeOK, ClientInv, \A q \in Rpcs : CallAgrees(calls[q]),
           NEW r \in Rpcs, VerifyUpdate(r)
    PROVE  \A q \in Rpcs : CallAgrees(calls[q])'
<1> DEFINE c == calls[r]
           t == StoresOf(store, c.updates)
           v == c.verified
<1>1. /\ c \in CallType /\ c.pc = "verify" /\ Running(r) /\ store \in Store
      /\ c.op = "sync" /\ c.store = t[v]
      /\ \A i \in 1 .. v : Verifies(c.updates[i], now, t[i - 1])
      /\ v \in Nat /\ c.updates \in Seq(Update) /\ v <= Len(c.updates)
  BY DEF VerifyUpdate, Running, ClientTypeOK, ClientInv, TraceInv, CallAgrees, CallType
<1>2. UNCHANGED <<now, store>>
  BY DEF VerifyUpdate
<1>3. CASE v = Len(c.updates)
  <2> DEFINE e == [c EXCEPT !.pc = "finality", !.store = c.store]
  <2>1. /\ e.pc = "finality" /\ e.op = c.op /\ e.updates = c.updates
        /\ e.verified = v /\ e.store = c.store
    BY <1>1 DEF CallType
  <2> HIDE DEF e
  <2>2. CallAgrees(e)
    BY <1>1, <2>1 DEF CallAgrees
  <2>3. Continue(r, c, "finality", c.store)
    BY <1>3 DEF VerifyUpdate
  <2> QED
    BY <1>1, <1>2, <2>2, <2>3, ContinueAgrees DEF e
<1>4. CASE v # Len(c.updates)
  <2> DEFINE u == c.updates[v + 1]
             s == VerifyAndApply(u, now, c.store)
             d == [c EXCEPT !.verified = v + 1]
             e == [d EXCEPT !.pc = "verify", !.store = s]
  <2>1. v + 1 \in 1 .. Len(c.updates)
    BY <1>1, <1>4, LenProperties
  <2>2. t[v + 1] = Apply(u, t[v])
    <3>1. t[v + 1] = Apply(u, t[(v + 1) - 1])
      BY <1>1, <2>1, StoresSteps
    <3> QED
      BY <1>1, <3>1
  <2>3. ASSUME s # Rejected PROVE CallAgrees(e)
    <3>1. s = t[v + 1] /\ Verifies(u, now, t[v])
      BY <1>1, <2>2, <2>3 DEF VerifyAndApply
    <3>2. /\ e.pc = "verify" /\ e.op = c.op /\ e.updates = c.updates
          /\ e.verified = v + 1 /\ e.store = s
      <4> HIDE DEF s
      <4> QED
        BY <1>1 DEF CallType
    <3>3. \A i \in 1 .. v + 1 : Verifies(c.updates[i], now, t[i - 1])
      <4>1. ASSUME NEW i \in 1 .. v + 1 PROVE Verifies(c.updates[i], now, t[i - 1])
        <5>1. CASE i = v + 1
          BY <1>1, <3>1, <5>1
        <5>2. CASE i # v + 1
          BY <1>1, <5>2
        <5> QED
          BY <5>1, <5>2
      <4> QED
        BY <4>1
    <3> HIDE DEF e, s, u, t, v, c
    <3> QED
      BY <1>1, <3>1, <3>2, <3>3 DEF CallAgrees, t
  <2>4. Continue(r, d, "verify", s)
    BY <1>4 DEF VerifyUpdate
  <2> HIDE DEF c, d, s
  <2> QED
    BY <1>1, <1>2, <2>3, <2>4, ContinueAgrees DEF e
<1> QED
  BY <1>3, <1>4

LEMMA SyncFinalityAgrees ==
    ASSUME ClientTypeOK, ClientInv, \A q \in Rpcs : CallAgrees(calls[q]),
           NEW r \in Rpcs, NEW k \in Int, k <= now, SyncFinality(r, k)
    PROVE  \A q \in Rpcs : CallAgrees(calls[q])'
<1> DEFINE c == calls[r]
           t == StoresOf(store, c.updates)
           u == FinalityUpdateAt(k)
           s == VerifyAndApply(u, now, c.store)
           d == [c EXCEPT !.finality = u]
           e == [d EXCEPT !.pc = "done", !.store = s]
<1>1. /\ c \in CallType /\ c.pc = "finality" /\ Running(r) /\ now \in Nat
      /\ c.op = "sync" /\ c.store = t[c.verified] /\ c.store \in Store
      /\ \A i \in 1 .. c.verified : Verifies(c.updates[i], now, t[i - 1])
  BY RunningOK DEF SyncFinality, Running, ClientTypeOK, CallAgrees
<1>2. UNCHANGED <<now, store>> /\ Continue(r, d, "done", s)
  BY DEF SyncFinality
<1>3. ASSUME s # Rejected PROVE CallAgrees(e)
  <2>1. s = Apply(u, c.store) /\ Verifies(u, now, c.store)
    BY <1>3 DEF VerifyAndApply
  <2>2. Made(u, now) /\ ~u.next
    <3>1. Made(u, k)
      BY <1>1, <2>1, FinalityUpdateMade
    <3> QED
      BY <1>1, <3>1, MadeBounds DEF FinalityUpdateAt, MakeUpdate
  <2>3. /\ e.pc = "done" /\ e.op = c.op /\ e.updates = c.updates
        /\ e.verified = c.verified /\ e.store = s /\ e.finality = u
    <3> HIDE DEF s, u
    <3> QED
      BY <1>1 DEF CallType
  <2> HIDE DEF e, s, u, t, c
  <2> QED
    BY <1>1, <2>1, <2>2, <2>3 DEF CallAgrees, t
<1> HIDE DEF c, d, s
<1> QED
  BY <1>1, <1>2, <1>3, ContinueAgrees DEF e

LEMMA OutageAgrees ==
    ASSUME ClientTypeOK, \A q \in Rpcs : CallAgrees(calls[q]), Outage
    PROVE  \A q \in Rpcs : CallAgrees(calls[q])'
<1> SUFFICES ASSUME NEW q \in Rpcs PROVE CallAgrees(calls[q])'
  OBVIOUS
<1>1. calls[q] \in CallType /\ UNCHANGED <<now, store>>
  BY DEF ClientTypeOK, Outage
<1>2. CASE Running(q)
  <2>1. calls'[q] = [calls[q] EXCEPT !.pc = "failed"]
    BY <1>2 DEF Outage
  <2>2. CallAgrees([calls[q] EXCEPT !.pc = "failed"])
    BY <1>1, <1>2, FailedAgrees DEF Running
  <2>3. CallAgrees(calls'[q])
    BY <2>1, <2>2
  <2> QED
    BY <1>1, <2>3 DEF CallAgrees
<1>3. CASE ~Running(q)
  <2>1. calls'[q] = calls[q]
    BY <1>3 DEF Outage
  <2> QED
    BY <1>1, <2>1 DEF CallAgrees
<1> QED
  BY <1>2, <1>3

LEMMA CallStepAgrees ==
    ASSUME ClientTypeOK, ClientInv, \A q \in Rpcs : CallAgrees(calls[q]),
           NEW r \in Rpcs, CallStep(r)
    PROVE  \A q \in Rpcs : CallAgrees(calls[q])'
<1>1. CASE FailCall(r)
  <2>1. /\ calls \in [Rpcs -> CallType] /\ calls[r].pc # "idle"
        /\ calls' = [calls EXCEPT ![r] = [calls[r] EXCEPT !.pc = "failed"]]
        /\ UNCHANGED <<now, store>>
    BY <1>1 DEF FailCall, ClientTypeOK, Running
  <2> QED
    BY <2>1, FailedAgrees, OneCallAgrees
<1>2. CASE VerifyUpdate(r)
  BY <1>2, VerifyAgrees
<1>3. ASSUME NEW k \in now - MaxLag .. now, FetchUpdates(r, k) \/ SyncFinality(r, k)
      PROVE  \A q \in Rpcs : CallAgrees(calls[q])'
  <2>1. k \in Int /\ k <= now
    BY ClientAssumption DEF ClientTypeOK
  <2> QED
    BY <1>3, <2>1, FetchAgrees, SyncFinalityAgrees
<1>4. ~ \E k \in now - MaxLag .. now : AdvanceFinality(r, k) \/ AdvanceCommittee(r, k)
  BY DEF AdvanceFinality, AdvanceCommittee, CallAgrees
<1> QED
  BY <1>1, <1>2, <1>3, <1>4 DEF CallStep

-----------------------------------------------------------------------------
(* The task                                                                *)

LEMMA HeadType ==
    ASSUME TypeOK, TaskInv
    PROVE  /\ head \in Nat /\ head <= Finalized(now - 1)
           /\ Start \in Store
           /\ now \in Nat /\ Finalized(now - 1) \in Nat
<1>1. head \in Nat /\ InitNow \in Nat /\ head < Finalized(InitNow - 1)
  BY ProofInputsAssumption, ReleasedAssumption DEF TypeOK
<1>2. now \in Nat
  BY ClientAssumption DEF TypeOK, ClientTypeOK
<1>3. Finalized(InitNow - 1) \in Nat /\ Finalized(now - 1) \in Nat
  BY <1>1, <1>2, FinalizedType
<1> QED
  BY <1>1, <1>2, <1>3 DEF TaskInv, Start, Store

LEMMA NoneTypes ==
    /\ NoGuest.store \in Store /\ NoGuest.applied = 0 /\ NoGuest.slots \in Seq(VerifiedSlot)
    /\ NoInputs.initial \in Store /\ NoInputs.expected \in Nat
    /\ NoInputs.updates \in Seq(Update) /\ NoInputs.finality \in Update
    /\ NoStorage \in Storage /\ NoInputs.storage = NoStorage
    /\ NoInputs = [initial |-> NoInputs.initial, expected |-> NoInputs.expected,
                   updates |-> NoInputs.updates, finality |-> NoInputs.finality,
                   storage |-> NoInputs.storage]
BY StorageAssumption DEF NoGuest, NoInputs, NoUpdate, NoStorage, Storage, Store, Update

LEMMA InitInv == Init => TypeOK /\ TaskInv
<1> SUFFICES ASSUME Init PROVE TypeOK /\ TaskInv
  OBVIOUS
<1>1. now = InitNow /\ now \in Nat /\ now \in 0 .. MaxNow /\ MaxLapses \in Nat
  BY ProofInputsAssumption, ClientAssumption DEF Init
<1>2. store \in Store /\ store.slot = 0
  BY DEF Init, Store
<1>3. Finalized(now - 1) \in Nat
  BY <1>1, FinalizedType
<1>4. ASSUME NEW r \in Rpcs
      PROVE  /\ calls[r] \in CallType /\ calls[r].pc = "idle"
             /\ TraceInv(calls[r]) /\ BoundsInv(calls[r]) /\ CallAgrees(calls[r])
  <2>1. calls[r] = IdleCall
    BY DEF Init, NoCalls
  <2> QED
    BY <2>1, IdleOK DEF CallOK, IdleCall, CallAgrees
<1>5. calls \in [Rpcs -> CallType]
  BY <1>4 DEF Init, NoCalls
<1>6. ClientTypeOK
  BY <1>1, <1>2, <1>4, <1>5 DEF ClientTypeOK, Init
<1>7. ClientInv /\ Idle
  BY <1>2, <1>3, <1>4 DEF ClientInv, Idle
<1>8. task.pc = "bootstrap" /\ task.failed = 0 /\ guest = NoGuest /\ inputs = NoInputs
      /\ MaxAttempts \in Nat \ {0}
  BY ProofInputsAssumption DEF Init
<1>9. TypeOK
  <2>1. task \in [pc : TaskPC, failed : 0 .. MaxAttempts]
    BY <1>8 DEF Init, TaskPC
  <2>2. guest \in [store : Store, applied : 0 .. Len(inputs.updates), slots : Seq(VerifiedSlot)]
    BY <1>8, NoneTypes DEF NoGuest, NoInputs
  <2> QED
    BY <1>6, <1>8, <2>1, <2>2, NoneTypes DEF TypeOK, Init
<1>10. HostAndProgramAgree /\ ProvedHeadUsable /\ ProvedSlotsComplete
  BY <1>8 DEF HostAndProgramAgree, ProvedHeadUsable, ProvedSlotsComplete
<1> QED
  BY <1>1, <1>3, <1>4, <1>7, <1>8, <1>9, <1>10 DEF TaskInv

(* A state in which nothing is verified yet.                               *)
LEMMA EarlyInv ==
    ASSUME TypeOK, TaskInv, head' = head, UNCHANGED <<now, inputs, guest>>,
           ClientTypeOK', ClientInv', \A r \in Rpcs : CallAgrees(calls[r])',
           guest = NoGuest,
           task' \in [pc : TaskPC, failed : 0 .. MaxAttempts],
           task'.pc \in {"bootstrap", "bootstrapped", "sync", "errored"},
           task'.pc # "errored" => task'.failed < MaxAttempts,
           task'.pc # "sync" => Idle',
           task'.pc \in {"bootstrapped", "sync"} => store' = Start
    PROVE  TypeOK' /\ TaskInv'
<1>1. TypeOK'
  BY DEF TypeOK
<1>2. HostAndProgramAgree' /\ ProvedHeadUsable' /\ ProvedSlotsComplete'
  BY DEF HostAndProgramAgree, ProvedHeadUsable, ProvedSlotsComplete
<1>3. Start' = Start
  BY DEF Start
<1> QED
  BY <1>1, <1>2, <1>3 DEF TaskInv

LEMMA RetryTask ==
    ASSUME TypeOK, TaskInv, task.pc # "errored", Retry
    PROVE  /\ task' \in [pc : TaskPC, failed : 0 .. MaxAttempts]
           /\ task'.pc \in {"bootstrap", "errored"}
           /\ task'.pc # "errored" => task'.failed < MaxAttempts
<1>1. task.failed \in Nat /\ MaxAttempts \in Nat /\ task.failed < MaxAttempts
  BY ProofInputsAssumption DEF TypeOK, TaskInv
<1> QED
  BY <1>1 DEF Retry, TaskPC

LEMMA GoToTask ==
    ASSUME TypeOK, TaskInv, task.pc # "errored", NEW pc \in TaskPC, GoTo(pc)
    PROVE  /\ task' \in [pc : TaskPC, failed : 0 .. MaxAttempts]
           /\ task'.pc = pc
           /\ task'.failed < MaxAttempts
BY DEF TypeOK, TaskInv, GoTo

LEMMA IdleAgrees ==
    ASSUME Idle'
    PROVE  \A r \in Rpcs : CallAgrees(calls[r])'
BY DEF Idle, CallAgrees

LEMMA StartAttemptInv ==
    ASSUME TypeOK, TaskInv, StartAttempt, head' = head
    PROVE  TypeOK' /\ TaskInv'
<1>1. ClientTypeOK /\ ClientInv /\ Idle /\ guest = NoGuest /\ task.pc = "bootstrap"
  BY DEF TypeOK, TaskInv, StartAttempt
<1>2. CASE Bootstrap(head) /\ GoTo("bootstrapped")
  <2>1. ClientTypeOK' /\ ClientInv'
    BY <1>1, <1>2, HeadType, BootstrapInv
  <2>2. Idle' /\ store' = Start /\ now' = now
    BY <1>1, <1>2 DEF Bootstrap, Idle, Start
  <2>3. /\ task' \in [pc : TaskPC, failed : 0 .. MaxAttempts]
        /\ task'.pc = "bootstrapped" /\ task'.failed < MaxAttempts
    BY <1>1, <1>2, GoToTask DEF TaskPC
  <2> QED
    BY <1>1, <2>1, <2>2, <2>3, IdleAgrees, EarlyInv DEF StartAttempt
<1>3. CASE Retry /\ UNCHANGED clientVars
  <2>1. ClientTypeOK' /\ ClientInv' /\ Idle' /\ now' = now
    BY <1>1, <1>3 DEF clientVars, ClientTypeOK, ClientInv, Idle, TraceInv, BoundsInv,
       Contiguous
  <2> QED
    BY <1>1, <1>3, <2>1, IdleAgrees, RetryTask, EarlyInv DEF StartAttempt
<1> QED
  BY <1>2, <1>3 DEF StartAttempt

LEMMA StartSyncInv ==
    ASSUME TypeOK, TaskInv, StartSync, head' = head
    PROVE  TypeOK' /\ TaskInv'
<1>1. /\ ClientTypeOK /\ ClientInv /\ Idle /\ guest = NoGuest /\ task.pc = "bootstrapped"
      /\ store = Start /\ store \in Store
  BY DEF TypeOK, TaskInv, StartSync, ClientTypeOK
<1>2. ClientTypeOK' /\ ClientInv' /\ UNCHANGED <<now, store>>
  BY <1>1, BeginInv DEF StartSync, BeginSync, Begin
<1>3. ASSUME NEW r \in Rpcs PROVE CallAgrees(calls[r])'
  <2>1. /\ calls'[r].pc = "updates" /\ calls'[r].op = "sync" /\ calls'[r].verified = 0
        /\ calls'[r].store = store /\ calls'[r].updates = <<>>
    BY DEF StartSync, BeginSync, Begin, IdleCall
  <2>2. StoresOf(store, <<>>)[0] = store
    BY <1>1, StoresSteps, EmptySeq
  <2> QED
    BY <1>2, <2>1, <2>2 DEF CallAgrees
<1>4. /\ task' \in [pc : TaskPC, failed : 0 .. MaxAttempts]
      /\ task'.pc = "sync" /\ task'.failed < MaxAttempts
  BY <1>1, GoToTask DEF TaskPC, StartSync
<1> QED
  BY <1>1, <1>2, <1>3, <1>4, EarlyInv DEF StartSync

LEMMA CallsTaskInv ==
    ASSUME TypeOK, TaskInv, Calls, head' = head
    PROVE  TypeOK' /\ TaskInv'
<1>1. ClientTypeOK /\ ClientInv /\ \A r \in Rpcs : CallAgrees(calls[r])
  BY DEF TypeOK, TaskInv
<1>2. ClientTypeOK' /\ ClientInv' /\ \A r \in Rpcs : CallAgrees(calls[r])'
  BY <1>1, OutageInv, OutageAgrees, CallStepInv, CallStepAgrees DEF Calls
<1>3. UNCHANGED <<now, store>>
  BY DEF Calls, Outage, CallStep, FailCall, FetchUpdates, VerifyUpdate, SyncFinality,
     AdvanceFinality, AdvanceCommittee
<1>4. ~ Idle
  BY DEF Calls, Outage, CallStep, FailCall, FetchUpdates, VerifyUpdate, SyncFinality,
     AdvanceFinality, AdvanceCommittee, Running, Idle
<1>5. task.pc = "sync" /\ guest = NoGuest /\ UNCHANGED <<task, inputs, guest>>
      /\ store' = Start
  BY <1>3, <1>4 DEF TaskInv, Calls
<1>6. /\ task' \in [pc : TaskPC, failed : 0 .. MaxAttempts]
      /\ task'.pc = "sync" /\ task'.failed < MaxAttempts
  BY <1>5 DEF TypeOK, TaskInv
<1> QED
  BY <1>2, <1>3, <1>5, <1>6, EarlyInv

LEMMA FailBootstrapInv ==
    ASSUME TypeOK, TaskInv, FailBootstrap, head' = head
    PROVE  TypeOK' /\ TaskInv'
<1>1. /\ Idle /\ guest = NoGuest /\ task.pc = "bootstrap"
      /\ UNCHANGED <<now, prompt, store, calls, inputs, guest>>
  BY DEF TaskInv, FailBootstrap
<1>2. lapses' \in 0 .. MaxLapses
  <2>1. lapses \in 0 .. MaxLapses /\ lapses < MaxLapses /\ lapses' = lapses + 1
    BY DEF TypeOK, ClientTypeOK, FailBootstrap
  <2>2. MaxLapses \in Nat
    BY ClientAssumption
  <2> QED
    BY <2>1, <2>2
<1>3. ClientTypeOK' /\ ClientInv' /\ Idle'
  BY <1>1, <1>2 DEF TypeOK, TaskInv, ClientTypeOK, ClientInv, Idle, TraceInv,
     BoundsInv, Contiguous
<1> QED
  BY <1>1, <1>3, IdleAgrees, RetryTask, EarlyInv DEF FailBootstrap

(* The inputs stay verified, and the calls as they are.                    *)
LEMMA TickInv ==
    ASSUME TypeOK, TaskInv, Tick, head' = head
    PROVE  TypeOK' /\ TaskInv'
<1>1. /\ ClientTypeOK /\ ClientInv /\ NextSlot /\ now \in Nat /\ now' = now + 1
      /\ UNCHANGED <<lapses, prompt, store, calls, head, task, inputs, guest>>
      /\ task.pc \notin {"proved", "rejected", "errored"}
  BY HeadType DEF TypeOK, TaskInv, Tick, NextSlot, Over
<1>2. ClientTypeOK' /\ ClientInv' /\ (Idle => Idle')
  BY <1>1, NextSlotInv
<1>3. Finalized(InitNow - 1) <= Finalized(now' - 1)
  <2>1. /\ Finalized(InitNow - 1) <= Finalized(now - 1)
        /\ Finalized(now - 1) <= Finalized(now' - 1)
    BY <1>1, NextSlotInv DEF TaskInv
  <2>2. InitNow - 1 \in Int /\ now - 1 \in Int /\ now' - 1 \in Int
    BY <1>1, ProofInputsAssumption
  <2>3. /\ Finalized(InitNow - 1) \in Nat /\ Finalized(now - 1) \in Nat
        /\ Finalized(now' - 1) \in Nat
    BY <2>2, FinalizedType
  <2> QED
    BY <2>1, <2>3
<1>4. ASSUME NEW r \in Rpcs PROVE CallAgrees(calls[r])'
  <2> DEFINE c == calls[r]
             t == StoresOf(store, c.updates)
  <2>1. CallAgrees(c) /\ TraceInv(c) /\ c \in CallType
    BY <1>1 DEF TaskInv, ClientInv, ClientTypeOK
  <2>2. ASSUME NEW i \in 1 .. c.verified, c.pc # "idle"
        PROVE  Verifies(c.updates[i], now + 1, t[i - 1])
    <3>1. c.updates[i].sig \in Nat
      <4>1. i \in 1 .. Len(c.updates)
        BY <2>1, LenProperties DEF TraceInv, CallType
      <4>2. MadeIn(c.updates[i], Period(c.updates[i].att), now)
        BY <2>1, <4>1 DEF TraceInv
      <4> QED
        BY <4>2 DEF MadeIn, Made, Update
    <3>2. Verifies(c.updates[i], now, t[i - 1])
      BY <2>1, <2>2 DEF CallAgrees
    <3> QED
      BY <1>1, <3>1, <3>2, VerifiesLater
  <2>3. ASSUME c.pc = "done"
        PROVE  /\ Made(c.finality, now + 1)
               /\ Verifies(c.finality, now + 1, t[c.verified])
    <3>1. Made(c.finality, now) /\ Verifies(c.finality, now, t[c.verified])
      BY <2>1, <2>3 DEF CallAgrees
    <3> QED
      BY <1>1, <3>1, MadeBounds, VerifiesLater DEF Made, Update
  <2> QED
    BY <1>1, <2>1, <2>2, <2>3 DEF CallAgrees
<1>5. HostVerified => HostVerified'
  <2> DEFINE last == Stores[Len(inputs.updates)]
  <2> SUFFICES ASSUME HostVerified PROVE HostVerified'
    OBVIOUS
  <2>1. Start' = Start /\ Stores' = Stores
    BY <1>1 DEF Start, Stores
  <2>2. ASSUME NEW i \in 1 .. Len(inputs.updates)
        PROVE  Verifies(inputs.updates[i], now + 1, Stores[i - 1])
    <3>1. inputs.updates[i] \in Update
      BY ElementOfSeq DEF TypeOK
    <3> QED
      BY <1>1, <3>1, VerifiesLater DEF HostVerified, Update
  <2>3. Made(inputs.finality, now + 1)
    BY <1>1, MadeBounds DEF HostVerified
  <2>4. Verifies(inputs.finality, now + 1, last)
    <3>1. Verifies(inputs.finality, now, last) /\ Made(inputs.finality, now)
      BY DEF HostVerified
    <3> QED
      BY <1>1, <3>1, VerifiesLater DEF Made, Update
  <2> QED
    BY <1>1, <2>1, <2>2, <2>3, <2>4 DEF HostVerified
<1>6. TypeOK'
  BY <1>1, <1>2 DEF TypeOK
<1>7. StorageChecked' = StorageChecked /\ Start' = Start /\ Stores' = Stores
  BY <1>1 DEF StorageChecked, Start, Stores
<1>8. HostAndProgramAgree' /\ ProvedHeadUsable' /\ ProvedSlotsComplete'
  BY <1>1 DEF HostAndProgramAgree, ProvedHeadUsable, ProvedSlotsComplete
<1> QED
  BY <1>1, <1>2, <1>3, <1>4, <1>5, <1>6, <1>7, <1>8 DEF TaskInv

LEMMA EndSyncInv ==
    ASSUME TypeOK, TaskInv, EndSync, head' = head
    PROVE  TypeOK' /\ TaskInv'
<1>1. /\ ClientTypeOK /\ ClientInv /\ guest = NoGuest /\ task.pc = "sync"
      /\ store = Start /\ UNCHANGED guest /\ store \in Store
  BY DEF TypeOK, TaskInv, EndSync, ClientTypeOK
<1>2. CASE Retry /\ UNCHANGED inputs /\ (GiveUp \/ \E r \in Rpcs : Adopt(r))
  <2>1. ClientTypeOK' /\ ClientInv' /\ Idle' /\ now' = now
    BY <1>1, <1>2, GiveUpInv, AdoptInv DEF GiveUp, Adopt
  <2> QED
    BY <1>1, <1>2, <2>1, IdleAgrees, RetryTask, EarlyInv
<1>3. ASSUME NEW r \in Rpcs, Adopt(r), calls[r].store.slot > store.slot, TakeTrace(r)
      PROVE  TypeOK' /\ TaskInv'
  <2> DEFINE c == calls[r]
             t == StoresOf(store, c.updates)
  <2>1. /\ ClientTypeOK' /\ ClientInv' /\ Idle' /\ now' = now
        /\ store' = c.store /\ c.pc = "done" /\ c \in CallType
    BY <1>1, <1>3, AdoptInv DEF Adopt, Candidates, ClientTypeOK
  <2>2. /\ task' \in [pc : TaskPC, failed : 0 .. MaxAttempts]
        /\ task'.pc = "storage" /\ task'.failed < MaxAttempts
    BY <1>1, <1>3, GoToTask DEF TaskPC, TakeTrace
  <2>3. inputs' = [initial |-> store, expected |-> c.began, updates |-> c.updates,
                   finality |-> c.finality, storage |-> NoStorage]
    BY <1>3 DEF TakeTrace
  <2>4. /\ CallAgrees(c) /\ c.verified = Len(c.updates)
    BY <2>1 DEF TaskInv, ClientInv, TraceInv
  <2>5. /\ \A i \in 1 .. Len(c.updates) : Verifies(c.updates[i], now, t[i - 1])
        /\ Made(c.finality, now) /\ ~c.finality.next
        /\ Verifies(c.finality, now, t[Len(c.updates)])
        /\ c.store = Apply(c.finality, t[Len(c.updates)])
    BY <2>1, <2>4 DEF CallAgrees
  <2>6. Stores' = t /\ Start' = Start
    BY <2>3 DEF Stores, Start
  <2>7. HostVerified'
    <3>1. /\ inputs'.initial = Start' /\ inputs'.updates = c.updates
          /\ inputs'.finality = c.finality /\ store' = c.store /\ c.store.slot > head'
      BY <1>1, <1>3, <2>1, <2>3, <2>6 DEF Start
    <3> HIDE DEF t, c
    <3> QED
      BY <2>1, <2>5, <2>6, <3>1 DEF HostVerified
  <2>8. TypeOK'
    <3>1. inputs' \in [initial : Store, expected : Nat, updates : Seq(Update),
                       finality : Update, storage : Storage]
      BY <1>1, <2>1, <2>3, NoneTypes DEF CallType
    <3>2. guest' \in [store : Store, applied : 0 .. Len(inputs'.updates), slots : Seq(VerifiedSlot)]
      <4>1. Len(inputs'.updates) \in Nat
        BY <3>1, LenProperties
      <4> QED
        BY <1>1, <4>1, NoneTypes DEF NoGuest
    <3> QED
      BY <2>1, <2>2, <3>1, <3>2 DEF TypeOK
  <2>9. HostAndProgramAgree' /\ ProvedHeadUsable' /\ ProvedSlotsComplete'
    BY <2>2 DEF HostAndProgramAgree, ProvedHeadUsable, ProvedSlotsComplete
  <2> QED
    BY <1>1, <2>1, <2>2, <2>7, <2>8, <2>9, IdleAgrees DEF TaskInv
<1> QED
  BY <1>1, <1>2, <1>3 DEF EndSync

LEMMA GetStorageInv ==
    ASSUME TypeOK, TaskInv, GetStorage, head' = head
    PROVE  TypeOK' /\ TaskInv'
<1> DEFINE block == inputs.finality.fin
<1>1. /\ ClientTypeOK /\ ClientInv /\ Idle /\ guest = NoGuest /\ task.pc = "storage"
      /\ HostVerified /\ UNCHANGED <<now, prompt, store, calls, head>>
      /\ block \in Nat
  BY DEF TypeOK, TaskInv, GetStorage, Update
<1>2. PICK up \in SUBSET Providers : \E answer \in [up -> Answers(block)] :
         LET good == {p \in up : Checked(answer[p], block)} IN
         /\ StorageLapse(up, answer, block)
         /\ \/ good = {} /\ Retry /\ UNCHANGED <<inputs, guest>>
            \/ \E p \in good : CheckSlot(Build(answer[p]))
  BY DEF GetStorage
<1>3. PICK answer \in [up -> Answers(block)] :
         /\ StorageLapse(up, answer, block)
         /\ \/ Retry /\ UNCHANGED <<inputs, guest>>
            \/ \E p \in up : Checked(answer[p], block) /\ CheckSlot(Build(answer[p]))
  BY <1>2
<1>4. ClientTypeOK' /\ ClientInv' /\ Idle'
  <2>1. lapses' \in 0 .. MaxLapses
    <3>1. lapses \in 0 .. MaxLapses /\ MaxLapses \in Nat
      BY <1>1, ClientAssumption DEF ClientTypeOK
    <3>2. lapses' = lapses \/ (lapses < MaxLapses /\ lapses' = lapses + 1)
      BY <1>3 DEF StorageLapse
    <3> QED
      BY <3>1, <3>2
  <2> QED
    BY <1>1, <2>1 DEF ClientTypeOK, ClientInv, Idle, TraceInv, BoundsInv, Contiguous
<1>5. CASE Retry /\ UNCHANGED <<inputs, guest>>
  BY <1>1, <1>4, <1>5, IdleAgrees, RetryTask, EarlyInv
<1>6. ASSUME NEW p \in up, Checked(answer[p], block), CheckSlot(Build(answer[p]))
      PROVE  TypeOK' /\ TaskInv'
  <2> DEFINE storage == Build(answer[p])
  <2>1. CASE block \in Missed
    <3>1. GoTo("errored") /\ UNCHANGED <<inputs, guest>>
      BY <1>6, <2>1 DEF CheckSlot
    <3>2. /\ task' \in [pc : TaskPC, failed : 0 .. MaxAttempts]
          /\ task'.pc = "errored"
      BY <1>1, <3>1, GoToTask DEF TaskPC
    <3> QED
      BY <1>1, <1>4, <3>1, <3>2, IdleAgrees, EarlyInv
  <2>2. CASE block \notin Missed
    <3>1. StartProgram(storage)
      BY <1>6, <2>2 DEF CheckSlot
    <3>2. /\ storage \in Storage /\ storage.block = block /\ Verified(block, storage)
          /\ VerifiedSlots(storage) = SlotsAt(storage.address, block)
          /\ \A i \in DOMAIN Keys : ValueAt(storage.address, Keys[i], block) # 0
      BY <1>1, <1>6, CheckedComplete
    <3> HIDE DEF storage
    <3>3. /\ task' \in [pc : TaskPC, failed : 0 .. MaxAttempts]
          /\ task'.pc = "program" /\ task'.failed < MaxAttempts
      BY <1>1, <3>1, GoToTask DEF TaskPC, StartProgram
    <3>4. /\ inputs' \in [initial : Store, expected : Nat, updates : Seq(Update),
                          finality : Update, storage : Storage]
          /\ inputs'.initial = inputs.initial /\ inputs'.expected = inputs.expected
          /\ inputs'.updates = inputs.updates /\ inputs'.finality = inputs.finality
          /\ inputs'.storage = storage
      BY <3>1, <3>2 DEF TypeOK, StartProgram
    <3>5. Start \in Store /\ inputs.initial = Start
      BY <1>1, HeadType DEF HostVerified
    <3>6. /\ guest' = [store |-> Start, applied |-> 0, slots |-> <<>>]
          /\ guest'.store = Start /\ guest'.applied = 0
      <4>1. guest' = [NoGuest EXCEPT !.store = [Start EXCEPT !.next = FALSE]]
        BY <3>1, <3>5 DEF StartProgram
      <4>2. [Start EXCEPT !.next = FALSE] = Start
        <5>1. Start \in [slot : Nat, next : BOOLEAN] /\ Start.next = FALSE
          BY <3>5 DEF Start, Store
        <5> QED
          BY <5>1
      <4>3. guest' = [NoGuest EXCEPT !.store = Start]
        BY <4>1, <4>2
      <4> HIDE DEF Start
      <4> QED
        BY <4>3 DEF NoGuest
    <3>7. guest' \in [store : Store, applied : 0 .. Len(inputs'.updates), slots : Seq(VerifiedSlot)]
      <4>1. Len(inputs'.updates) \in Nat
        BY <3>4, LenProperties
      <4> QED
        BY <3>5, <3>6, <4>1, NoneTypes DEF NoGuest
    <3>8. TypeOK'
      BY <1>1, <1>4, <3>3, <3>4, <3>7 DEF TypeOK
    <3>9. Stores' = Stores /\ Start' = Start /\ Stores[0] = Start
      <4>1. inputs.initial \in Store /\ inputs.updates \in Seq(Update)
        BY DEF TypeOK
      <4>2. Stores[0] = inputs.initial
        BY <4>1, StoresSteps DEF Stores
      <4> QED
        BY <1>1, <3>4, <3>5, <4>2 DEF Stores, Start
    <3>10. HostVerified'
      BY <1>1, <3>4, <3>9 DEF HostVerified
    <3>11. StorageChecked'
      BY <2>2, <3>2, <3>4 DEF StorageChecked
    <3>12. HostAndProgramAgree' /\ ProvedHeadUsable' /\ ProvedSlotsComplete'
      BY <3>3 DEF HostAndProgramAgree, ProvedHeadUsable, ProvedSlotsComplete
    <3>13. Finalized(InitNow - 1) <= Finalized(now' - 1)
      BY <1>1 DEF TaskInv
    <3> QED
      BY <1>4, <3>3, <3>6, <3>8, <3>9, <3>10, <3>11, <3>12, <3>13, IdleAgrees DEF TaskInv
  <2> QED
    BY <2>1, <2>2
<1> QED
  BY <1>3, <1>5, <1>6

(* A step of the program changes only where the task is and its own state. *)
LEMMA ProgramInv ==
    ASSUME TypeOK, TaskInv, UNCHANGED <<clientVars, head, inputs>>,
           task.pc = "program",
           task' \in [pc : TaskPC, failed : 0 .. MaxAttempts],
           task'.pc \in {"program", "proved", "rejected"},
           task'.failed < MaxAttempts,
           guest' \in [store : Store, applied : 0 .. Len(inputs.updates), slots : Seq(VerifiedSlot)],
           task'.pc = "program" => guest'.store = Stores[guest'.applied],
           HostAndProgramAgree', ProvedHeadUsable', ProvedSlotsComplete'
    PROVE  TypeOK' /\ TaskInv'
<1>1. /\ ClientTypeOK /\ ClientInv /\ Idle /\ HostVerified /\ StorageChecked
      /\ UNCHANGED <<now, lapses, prompt, store, calls>>
  BY DEF TypeOK, TaskInv, clientVars
<1>2. ClientTypeOK' /\ ClientInv' /\ Idle'
  BY <1>1 DEF ClientTypeOK, ClientInv, Idle, TraceInv, BoundsInv, Contiguous
<1>3. Stores' = Stores /\ Start' = Start
  BY DEF Stores, Start
<1>4. HostVerified' /\ StorageChecked'
  BY <1>1, <1>3 DEF HostVerified, StorageChecked
<1>5. TypeOK'
  BY <1>2 DEF TypeOK
<1>6. Finalized(InitNow - 1) <= Finalized(now' - 1)
  BY <1>1 DEF TaskInv
<1> QED
  BY <1>2, <1>3, <1>4, <1>5, <1>6, IdleAgrees DEF TaskInv

LEMMA ProgramUpdateInv ==
    ASSUME TypeOK, TaskInv, ProgramUpdate, head' = head
    PROVE  TypeOK' /\ TaskInv'
<1> DEFINE i == guest.applied
           u == inputs.updates[i + 1]
           s == VerifyAndApply(u, inputs.expected, guest.store)
<1>1. /\ task.pc = "program" /\ task.failed < MaxAttempts
      /\ task \in [pc : TaskPC, failed : 0 .. MaxAttempts]
      /\ UNCHANGED <<clientVars, head, inputs>>
      /\ HostVerified /\ guest.store = Stores[i] /\ guest.store \in Store
      /\ inputs.initial \in Store /\ inputs.updates \in Seq(Update)
      /\ inputs.expected \in Nat
  BY DEF TypeOK, TaskInv, ProgramUpdate
<1>2. i \in Nat /\ i + 1 \in 1 .. Len(inputs.updates) /\ Len(inputs.updates) \in Nat
      /\ (i + 1) - 1 = i
  BY <1>1, LenProperties DEF ProgramUpdate, TypeOK
<1>3. u \in Update
  BY <1>1, <1>2, ElementOfSeq
<1>4. Verifies(u, now, guest.store)
  <2>1. Verifies(u, now, Stores[(i + 1) - 1])
    BY <1>1, <1>2 DEF HostVerified
  <2> QED
    BY <1>1, <1>2, <2>1
<1>5. s = IF u.sig <= inputs.expected THEN Apply(u, guest.store) ELSE Rejected
  BY <1>1, <1>3, <1>4, SameVerdict
<1>6. Apply(u, guest.store) \in Store /\ Apply(u, guest.store) # Rejected
  BY <1>1, <1>3, ApplyBounds DEF Update
<1>7. CASE u.sig <= inputs.expected
  <2>1. /\ task' = task
        /\ guest' = [guest EXCEPT !.store = Apply(u, guest.store), !.applied = i + 1]
    BY <1>5, <1>6, <1>7 DEF ProgramUpdate
  <2>2. /\ guest' \in [store : Store, applied : 0 .. Len(inputs.updates), slots : Seq(VerifiedSlot)]
        /\ guest'.store = Apply(u, guest.store) /\ guest'.applied = i + 1
    <3>1. guest \in [store : Store, applied : 0 .. Len(inputs.updates), slots : Seq(VerifiedSlot)]
          /\ i + 1 \in 0 .. Len(inputs.updates)
      BY <1>2 DEF TypeOK
    <3> HIDE DEF i, u
    <3> QED
      BY <1>6, <2>1, <3>1
  <2>3. Stores[i + 1] = Apply(u, Stores[i])
    <3>1. Stores[i + 1] = Apply(u, Stores[(i + 1) - 1])
      BY <1>1, <1>2, StoresSteps DEF Stores
    <3> QED
      BY <1>2, <3>1
  <2>4. guest'.store = Stores[guest'.applied]
    BY <1>1, <2>2, <2>3
  <2>5. HostAndProgramAgree' /\ ProvedHeadUsable' /\ ProvedSlotsComplete'
    BY <1>1, <2>1 DEF HostAndProgramAgree, ProvedHeadUsable, ProvedSlotsComplete
  <2> HIDE DEF i, u, s
  <2> QED
    BY <1>1, <2>1, <2>2, <2>4, <2>5, ProgramInv
<1>8. CASE ~(u.sig <= inputs.expected)
  <2>1. GoTo("rejected") /\ UNCHANGED guest
    BY <1>5, <1>8 DEF ProgramUpdate
  <2>2. /\ task' \in [pc : TaskPC, failed : 0 .. MaxAttempts]
        /\ task'.pc = "rejected" /\ task'.failed < MaxAttempts
    BY <1>1, <2>1, GoToTask DEF TaskPC
  <2>3. SignedLater
    <3>1. u.sig > inputs.expected
      BY <1>1, <1>3, <1>8 DEF Update
    <3>2. DOMAIN inputs.updates = 1 .. Len(inputs.updates)
      BY <1>1, LenProperties
    <3> QED
      BY <1>2, <3>1, <3>2 DEF SignedLater
  <2>4. HostAndProgramAgree' /\ ProvedHeadUsable' /\ ProvedSlotsComplete'
    BY <1>1, <2>2, <2>3
       DEF HostAndProgramAgree, ProvedHeadUsable, ProvedSlotsComplete, SignedLater
  <2> HIDE DEF i, u, s
  <2> QED
    BY <1>1, <2>1, <2>2, <2>4, ProgramInv DEF TypeOK
<1> QED
  BY <1>7, <1>8

(* What the head becomes when a finality update is applied.                *)
LEMMA FinalityApplied ==
    ASSUME NEW u \in Update, ~u.next, NEW s \in Store
    PROVE  u.fin <= Apply(u, s).slot
BY DEF Apply, Update, Store

LEMMA ProgramFinalityInv ==
    ASSUME TypeOK, TaskInv, ProgramFinality, head' = head
    PROVE  TypeOK' /\ TaskInv'
<1> DEFINE u == inputs.finality
           last == guest.store
           s == VerifyAndApply(u, inputs.expected, last)
<1>1. /\ task.pc = "program" /\ task.failed < MaxAttempts
      /\ UNCHANGED <<clientVars, head, inputs>>
      /\ HostVerified /\ StorageChecked /\ last \in Store
      /\ last = Stores[Len(inputs.updates)]
      /\ u \in Update /\ inputs.expected \in Nat /\ inputs.storage \in Storage
      /\ guest \in [store : Store, applied : 0 .. Len(inputs.updates), slots : Seq(VerifiedSlot)]
  BY DEF TypeOK, TaskInv, ProgramFinality
<1>2. /\ Verifies(u, now, last) /\ store = Apply(u, last) /\ store.slot > head
      /\ ~u.next /\ Made(u, now) /\ inputs.initial.slot = head
  BY <1>1 DEF HostVerified, Start
<1>3. s = IF u.sig <= inputs.expected THEN store ELSE Rejected
  BY <1>1, <1>2, SameVerdict
<1>4. store \in Store /\ store # Rejected /\ u.fin <= store.slot
  BY <1>1, <1>2, ApplyBounds, FinalityApplied DEF Update
<1>5. /\ inputs.storage.block = u.fin /\ u.fin \notin Missed
      /\ Verified(u.fin, inputs.storage)
      /\ VerifiedSlots(inputs.storage) = SlotsAt(inputs.storage.address, u.fin)
      /\ \A i \in DOMAIN Keys : ValueAt(inputs.storage.address, Keys[i], u.fin) # 0
  BY <1>1 DEF StorageChecked
<1>6. UNCHANGED <<now, store>>
  BY <1>1 DEF clientVars
<1>7. CASE u.sig <= inputs.expected /\ store.slot = u.fin
  <2>1. /\ GoTo("proved")
        /\ guest' = [guest EXCEPT !.store = store, !.slots = VerifiedSlots(inputs.storage)]
    BY <1>2, <1>3, <1>4, <1>5, <1>7 DEF ProgramFinality
  <2>2. /\ task' \in [pc : TaskPC, failed : 0 .. MaxAttempts]
        /\ task'.pc = "proved" /\ task'.failed < MaxAttempts
    BY <1>1, <2>1, GoToTask DEF TaskPC
  <2>3. /\ guest' \in [store : Store, applied : 0 .. Len(inputs.updates), slots : Seq(VerifiedSlot)]
        /\ guest'.store = store /\ guest'.slots = SlotsAt(inputs.storage.address, u.fin)
    <3>1. VerifiedSlots(inputs.storage) \in Seq(VerifiedSlot)
      BY <1>1, SlotsType
    <3> HIDE DEF u
    <3> QED
      BY <1>1, <1>4, <1>5, <2>1, <3>1
  <2>4. HostAndProgramAgree'
    BY <1>6, <2>2, <2>3 DEF HostAndProgramAgree
  <2>5. ProvedHeadUsable'
    <3>1. u.fin <= Finalized(now - 1)
      BY <1>2, HeadType, MadeBounds
    <3>2. store.slot \in Nat /\ head \in Nat /\ Finalized(now - 1) \in Nat
      BY <1>4, HeadType DEF Store
    <3>3. store.slot \in (head + 1 .. Finalized(now - 1)) \ Missed
      BY <1>2, <1>5, <1>7, <3>1, <3>2
    <3> QED
      BY <1>6, <2>3, <3>3 DEF ProvedHeadUsable
  <2>6. ProvedSlotsComplete'
    <3>1. inputs.storage.address \in Contracts
      BY <1>1 DEF Storage
    <3>2. guest'.slots = SlotsAt(inputs.storage.address, guest'.store.slot)
      BY <1>7, <2>3
    <3>3. \A i \in DOMAIN guest'.slots : guest'.slots[i].value # 0
      BY <1>5, <2>3, KeysType DEF SlotsAt
    <3> QED
      BY <3>1, <3>2, <3>3 DEF ProvedSlotsComplete
  <2> HIDE DEF u, last, s
  <2> QED
    BY <1>1, <2>2, <2>3, <2>4, <2>5, <2>6, ProgramInv
<1>8. CASE ~(u.sig <= inputs.expected /\ store.slot = u.fin)
  <2>1. GoTo("rejected") /\ UNCHANGED guest
    BY <1>3, <1>5, <1>8 DEF ProgramFinality, Verified
  <2>2. /\ task' \in [pc : TaskPC, failed : 0 .. MaxAttempts]
        /\ task'.pc = "rejected" /\ task'.failed < MaxAttempts
    BY <1>1, <2>1, GoToTask DEF TaskPC
  <2>3. SignedLater \/ FinalityBehind
    BY <1>1, <1>4, <1>8 DEF SignedLater, FinalityBehind, Store, Update
  <2>4. HostAndProgramAgree' /\ ProvedHeadUsable' /\ ProvedSlotsComplete'
    BY <1>1, <1>6, <2>2, <2>3 DEF HostAndProgramAgree, ProvedHeadUsable,
       ProvedSlotsComplete, SignedLater, FinalityBehind
  <2> HIDE DEF u, last, s
  <2> QED
    BY <1>1, <2>1, <2>2, <2>4, ProgramInv
<1> QED
  BY <1>7, <1>8

-----------------------------------------------------------------------------
LEMMA StepInv == TypeOK /\ TaskInv /\ [Next]_vars => TypeOK' /\ TaskInv'
<1> SUFFICES ASSUME TypeOK, TaskInv, [Next]_vars PROVE TypeOK' /\ TaskInv'
  OBVIOUS
<1>1. CASE StartAttempt /\ head' = head
  BY <1>1, StartAttemptInv
<1>2. CASE StartSync /\ head' = head
  BY <1>2, StartSyncInv
<1>3. CASE Calls /\ head' = head
  BY <1>3, CallsTaskInv
<1>4. CASE EndSync /\ head' = head
  BY <1>4, EndSyncInv
<1>5. CASE GetStorage /\ head' = head
  BY <1>5, GetStorageInv
<1>6. CASE FailBootstrap /\ head' = head
  BY <1>6, FailBootstrapInv
<1>7. CASE ProgramUpdate /\ head' = head
  BY <1>7, ProgramUpdateInv
<1>8. CASE ProgramFinality /\ head' = head
  BY <1>8, ProgramFinalityInv
<1>9. CASE Tick /\ head' = head
  BY <1>9, TickInv
<1>10. CASE UNCHANGED vars
  <2>1. UNCHANGED <<now, lapses, prompt, store, calls, head, task, inputs, guest>>
    BY <1>10 DEF vars, clientVars
  <2>2. TypeOK'
    BY <2>1 DEF TypeOK, ClientTypeOK, Contiguous
  <2>3. ClientInv' /\ Idle' = Idle /\ (\A r \in Rpcs : CallAgrees(calls[r])')
    BY <2>1 DEF TaskInv, ClientInv, TraceInv, BoundsInv, Idle, CallAgrees
  <2>4. Start' = Start /\ Stores' = Stores /\ StorageChecked' = StorageChecked
    BY <2>1 DEF Start, Stores, StorageChecked
  <2>5. HostVerified' = HostVerified
    BY <2>1, <2>4 DEF HostVerified
  <2>6. /\ HostAndProgramAgree' = HostAndProgramAgree
        /\ ProvedHeadUsable' = ProvedHeadUsable
        /\ ProvedSlotsComplete' = ProvedSlotsComplete
    BY <2>1 DEF HostAndProgramAgree, ProvedHeadUsable, ProvedSlotsComplete, SignedLater,
       FinalityBehind
  <2> QED
    BY <2>1, <2>2, <2>3, <2>4, <2>5, <2>6 DEF TaskInv
<1> QED
  BY <1>1, <1>2, <1>3, <1>4, <1>5, <1>6, <1>7, <1>8, <1>9, <1>10 DEF Next, Progress

LEMMA TaskInvariant == Spec => [](TypeOK /\ TaskInv)
<1>1. Init => TypeOK /\ TaskInv
  BY InitInv
<1>2. TypeOK /\ TaskInv /\ [Next]_vars => TypeOK' /\ TaskInv'
  BY StepInv
<1> QED
  BY <1>1, <1>2, PTL DEF Spec

(* Whatever the RPCs and the providers answer, and however late: the state *)
(* of the task, the trace it has taken and the store of the program are    *)
(* well typed, and a trace that is done has no gap.                        *)
THEOREM TaskTypeCorrect == Spec => []TypeOK
<1>1. TypeOK /\ TaskInv => TypeOK
  OBVIOUS
<1> QED
  BY <1>1, TaskInvariant, PTL

(* Host and program verify the same trace (get_proof_inputs and main):     *)
(* where the program proves, it has the store of the host; where it        *)
(* rejects, an update was signed after the slot the host read first, or    *)
(* the finality update is behind the committee updates.                    *)
THEOREM ProgramAgreesWithHost == Spec => []HostAndProgramAgree
<1>1. TypeOK /\ TaskInv => HostAndProgramAgree
  BY DEF TaskInv
<1> QED
  BY <1>1, TaskInvariant, PTL

(* What is proved is a head beyond the contract's, finalized and a         *)
(* checkpoint: the next proof can start from it.                           *)
THEOREM ProvedHeadIsUsable == Spec => []ProvedHeadUsable
<1>1. TypeOK /\ TaskInv => ProvedHeadUsable
  BY DEF TaskInv
<1> QED
  BY <1>1, TaskInvariant, PTL

(* What a proof commits is true, whichever slots of whichever contract and *)
(* of whichever block the providers answer with: it is every slot of the   *)
(* request, in its order, each with its value at the new head in the one   *)
(* contract it is committed for (ContractStorageBuilder and                *)
(* verify_storage_slot_proofs).  That this contract is the requested one   *)
(* is left to the providers: the code does not compare the two.            *)
THEOREM ProvedSlotsAreComplete == Spec => []ProvedSlotsComplete
<1>1. TypeOK /\ TaskInv => ProvedSlotsComplete
  BY DEF TaskInv
<1> QED
  BY <1>1, TaskInvariant, PTL
=============================================================================
