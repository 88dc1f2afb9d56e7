-------------------------- MODULE ConsensusClient --------------------------
(***************************************************************************)
(* The consensus client (zk-api/src/consensus_client/mod.rs): a light      *)
(* client that asks several RPCs at once, waits for all of them, and keeps *)
(* the most advanced store that comes back.  LightClient uses it as the    *)
(* worker does, ProofInputs as a generation task does.                     *)
(*                                                                         *)
(* An RPC answers from the state of a node that may lag; a call that       *)
(* errors or times out has failed.  Both are lapses, of which there are    *)
(* at most MaxLapses.  The clock counts slots: the calls of one operation  *)
(* end within 12 seconds, so at most one slot begins while they run.       *)
(***************************************************************************)
EXTENDS SyncProtocol

CONSTANTS
    Rpcs,        \* endpoints of CONSENSUS_RPCS_LIST
    MaxRequest,  \* MAX_REQUEST_LIGHT_CLIENT_UPDATES
    Missed,      \* slots that are no checkpoints: not divisible by 32
    MaxLag,      \* bound on the slots a node is behind
    MaxLapses,   \* bound on late and failed answers
    MaxNow       \* bound on the clock

ASSUME ClientAssumption ==
    /\ Rpcs # {}
    /\ MaxRequest \in Nat \ {0}
    /\ Missed \cup {MaxLag, MaxLapses, MaxNow} \subseteq Nat

VARIABLES
    now,      \* expected_current_slot()
    lapses,   \* late and failed answers so far
    prompt,   \* the RPCs that have not had any
    store,    \* the client's LightClientStore
    calls     \* per RPC, the call of the operation in progress

clientVars == <<now, lapses, prompt, store, calls>>

(* A call of sync_to_chain_single_rpc or advance_single_rpc: when it began *)
(* (expected_current_slot), its copy of the store, the next period to      *)
(* fetch, the committee updates and the finality update of its trace, and  *)
(* how many of the former are verified.                                    *)
CallPC == {"idle", "updates", "verify", "finality", "committee", "done", "failed"}

NoUpdate == [fin |-> 0, att |-> 0, sig |-> 0, next |-> FALSE]

CallType == [pc : CallPC, op : {"sync", "advance"}, began : Nat, store : Store,
             fetch : Nat, updates : Seq(Update), verified : Nat,
             finality : Update]

IdleCall == [pc |-> "idle", op |-> "sync", began |-> 0,
             store |-> [slot |-> 0, next |-> FALSE],
             fetch |-> 0, updates |-> <<>>, verified |-> 0, finality |-> NoUpdate]

NoCalls == [r \in Rpcs |-> IdleCall]

(* A verified trace leaves no gap: its updates are of consecutive periods. *)
Contiguous(us) ==
    \A i \in 1 .. Len(us) - 1 : Period(us[i + 1].att) = Period(us[i].att) + 1

ClientTypeOK ==
    /\ now \in 0 .. MaxNow
    /\ lapses \in 0 .. MaxLapses
    /\ prompt \subseteq Rpcs
    /\ store \in Store
    /\ calls \in [Rpcs -> CallType]
    /\ \A r \in Rpcs : calls[r].pc = "done" => Contiguous(calls[r].updates)

-----------------------------------------------------------------------------
Idle == \A r \in Rpcs : calls[r].pc = "idle"

(* All calls of an operation start together, on copies of the store.       *)
Begin(op, pc) ==
    /\ Idle
    /\ calls' = [r \in Rpcs |->
                   [IdleCall EXCEPT !.pc = pc, !.op = op, !.began = now,
                                    !.store = store, !.fetch = Period(store.slot)]]
    /\ UNCHANGED <<now, lapses, prompt, store>>

BeginSync    == Begin("sync", "updates")
BeginAdvance == Begin("advance", "finality")

Lapse(r) ==
    /\ lapses < MaxLapses
    /\ lapses' = lapses + 1
    /\ prompt' = prompt \ {r}

(* The answer of r comes from a node whose head is at slot k.              *)
AnswersAt(r, k) ==
    /\ now <= k + MaxLag
    /\ IF k = now THEN UNCHANGED <<lapses, prompt>> ELSE Lapse(r)

Running(r) == calls[r].pc \in {"updates", "verify", "finality", "committee"}

(* Mutant: the error of a verification is dropped.                         *)
ContinueAnyway(r, c, pc, s) ==
    calls' = [calls EXCEPT ![r] = [c EXCEPT !.pc = pc, !.store = s]]

(* Call r goes on as c with store s, unless a verification failed.         *)
Continue(r, c, pc, s) ==
    calls' = [calls EXCEPT ![r] =
                IF s = Rejected THEN [@ EXCEPT !.pc = "failed"]
                                ELSE [c EXCEPT !.pc = pc, !.store = s]]

(* A node's error, an answer that never comes in time.                     *)
FailCall(r) ==
    /\ Running(r)
    /\ Lapse(r)
    /\ calls' = [calls EXCEPT ![r].pc = "failed"]
    /\ UNCHANGED <<now, store>>

(* The service's own network is down: the calls in progress fail together. *)
Outage ==
    /\ \E r \in Rpcs : Running(r)
    /\ lapses < MaxLapses
    /\ lapses' = lapses + 1
    /\ prompt' = {}
    /\ calls' = [r \in Rpcs |->
                   IF Running(r) THEN [calls[r] EXCEPT !.pc = "failed"] ELSE calls[r]]
    /\ UNCHANGED <<now, store>>

(* get_updates_single_rpc: whole batches as long as the store is at least  *)
(* MaxRequest periods behind, then one request to the end.                 *)
FetchUpdates(r, k) ==
    LET c     == calls[r]
        goal  == Period(c.began)
        batch == Sets!Min({goal - c.fetch, MaxRequest})
        more  == goal - Period(store.slot) >= MaxRequest /\ c.fetch < goal
        got(n) == c.updates \o CommitteeUpdates(c.fetch, n, k)
    IN
    /\ c.pc = "updates"
    /\ AnswersAt(r, k)
    /\ calls' = [calls EXCEPT ![r] =
                   IF more THEN [c EXCEPT !.updates = got(batch), !.fetch = @ + batch]
                           ELSE [c EXCEPT !.updates = got(MaxRequest), !.pc = "verify"]]
    /\ UNCHANGED <<now, store>>

(* Each update is verified by the clock as it is by then.                  *)
VerifyUpdate(r) ==
    LET c == calls[r] IN
    /\ c.pc = "verify"
    /\ IF c.verified = Len(c.updates)
         THEN Continue(r, c, "finality", c.store)
         ELSE Continue(r, [c EXCEPT !.verified = @ + 1], "verify",
                       VerifyAndApply(c.updates[c.verified + 1], now, c.store))
    /\ UNCHANGED <<now, lapses, prompt, store>>

(* The last answer of sync_to_chain_single_rpc.                            *)
SyncFinality(r, k) ==
    LET u == FinalityUpdateAt(k) IN
    /\ calls[r].pc = "finality" /\ calls[r].op = "sync"
    /\ AnswersAt(r, k)
    /\ Continue(r, [calls[r] EXCEPT !.finality = u], "done",
                VerifyAndApply(u, now, calls[r].store))
    /\ UNCHANGED <<now, store>>

(* advance_single_rpc: the finality update; then, if the store does not    *)
(* know the next committee, the update of its period, whose rejection is   *)
(* ignored.                                                                *)
AdvanceFinality(r, k) ==
    LET s == VerifyAndApply(FinalityUpdateAt(k), now, calls[r].store) IN
    /\ calls[r].pc = "finality" /\ calls[r].op = "advance"
    /\ AnswersAt(r, k)
    /\ Continue(r, calls[r], IF s.next THEN "done" ELSE "committee", s)
    /\ UNCHANGED <<now, store>>

AdvanceCommittee(r, k) ==
    LET old == calls[r].store
        us  == CommitteeUpdates(Period(old.slot), 1, k)
    IN
    /\ calls[r].pc = "committee"
    /\ AnswersAt(r, k)
    /\ Continue(r, calls[r], "done",
                IF Len(us) = 1 /\ Verifies(us[1], now, old)
                  THEN Apply(us[1], old) ELSE old)
    /\ UNCHANGED <<now, store>>

CallStep(r) ==
    \/ FailCall(r)
    \/ VerifyUpdate(r)
    \/ \E k \in now - MaxLag .. now :
         \/ FetchUpdates(r, k)
         \/ SyncFinality(r, k)
         \/ AdvanceFinality(r, k)
         \/ AdvanceCommittee(r, k)

-----------------------------------------------------------------------------
(* join_all has returned.                                                  *)
Joined    == \A r \in Rpcs : calls[r].pc \in {"done", "failed"}
AllFailed == \A r \in Rpcs : calls[r].pc = "failed"

(* compare_store_advancement: not Less.  Which of several equally advanced *)
(* stores is taken depends on the order of the RPCs.                       *)
AtLeast(s, t) ==
    \/ s.slot > t.slot
    \/ s.slot = t.slot /\ (s.next \/ ~t.next)

(* Mutant: any store that came back.                                       *)
AnyCandidate == {r \in Rpcs : calls[r].pc = "done"}

Candidates ==
    {r \in Rpcs :
        /\ calls[r].pc = "done"
        /\ \A q \in Rpcs : calls[q].pc = "done" => AtLeast(calls[r].store, calls[q].store)}

(* apply_store_update with the candidate                                   *)
Adopt(r) ==
    /\ Joined
    /\ r \in Candidates
    /\ store' = calls[r].store
    /\ calls' = NoCalls
    /\ UNCHANGED <<now, lapses, prompt>>

GiveUp ==
    /\ Joined /\ AllFailed
    /\ calls' = NoCalls
    /\ UNCHANGED <<now, lapses, prompt, store>>

(* bootstrap: the first RPC that has the checkpoint; the next committee is *)
(* not part of it.  Nodes keep what it needs for checkpoints only.         *)
CanBootstrap(slot) == slot \notin Missed

Bootstrap(slot) ==
    /\ CanBootstrap(slot)
    /\ store' = [slot |-> slot, next |-> FALSE]
    /\ UNCHANGED <<now, lapses, prompt, calls>>

(* A slot begins: at most one while an operation runs.                     *)
NextSlot ==
    /\ now < MaxNow
    /\ \A r \in Rpcs : calls[r].pc # "idle" => calls[r].began = now
    /\ now' = now + 1
    /\ UNCHANGED <<lapses, prompt, store, calls>>

-----------------------------------------------------------------------------
FirstSlot(p) == PeriodLength * p    \* of period p

(* An update a node with its head at slot k may have: any, and the one it  *)
(* serves for period p.                                                    *)
Made(u, k) ==
    /\ u \in Update
    /\ u.att < k /\ u.sig = u.att + 1 /\ u.fin = Finalized(u.att)

MadeIn(u, p, k) ==
    /\ Made(u, k) /\ u.next
    /\ Period(u.att) = p /\ Period(u.sig) = p

(* The update of a period that finalizes a header of it.                   *)
Complete(u, p) == Period(u.att) = p /\ Period(u.fin) = p

(* The updates of a trace, or the first n of them, are of the periods from *)
(* p on.                                                                   *)
FromPeriod(us, p) == \A i \in 1 .. Len(us) : Period(us[i].att) = p + i - 1

CompleteFrom(us, n, p) == \A i \in 1 .. n : Complete(us[i], p + i - 1)

(* Of the trace of a call: periods only grow, fetched ones are below the   *)
(* next to fetch; those verified leave no gap, as the store never gets     *)
(* past the last of them; and all are when the call goes on.               *)
TraceInv(c) ==
    LET us == c.updates IN
    /\ \A i \in 1 .. Len(us) : MadeIn(us[i], Period(us[i].att), now)
    /\ \A i, j \in 1 .. Len(us) : i < j => Period(us[i].att) < Period(us[j].att)
    /\ c.pc = "updates" => \A i \in 1 .. Len(us) : Period(us[i].att) < c.fetch
    /\ c.verified <= Len(us)
    /\ \A i \in 1 .. c.verified - 1 : Period(us[i + 1].att) = Period(us[i].att) + 1
    /\ c.pc = "updates" => c.verified = 0
    /\ c.pc = "verify" /\ c.verified > 0 =>
          Period(c.store.slot) <= Period(us[c.verified].att)
    /\ c.pc \in {"finality", "committee", "done"} => c.verified = Len(us)

(* The store of a call is between the client's and the chain.              *)
BoundsInv(c) ==
    c.pc # "idle" =>
        /\ c.began <= now
        /\ c.store.slot \in store.slot .. Finalized(now - 1)

ClientInv ==
    /\ store.slot <= Finalized(now - 1)
    /\ \A r \in Rpcs : TraceInv(calls[r]) /\ BoundsInv(calls[r])
=============================================================================
