# Verification of SP1-Helios

SP1-Helios proves storage of a source chain (Ethereum) to contracts on destination
chains. Its ZK API takes requests for proofs of storage at a finalized block, holds them
in Redis until the source chain has finalized the block, and generates proofs. This
directory models that service in TLA+, model-checks it with TLC on small instances and
proves its main safety properties with TLAPS for all values of the constants.

Paths below are relative to the repository; `zk-api/` is `src/zk-api/src/` in
PROJECT.json, `program/` is `src/program/src/`.

## The system

| Component | State | Operations | Interacts with |
|---|---|---|---|
| RedisStore (`redis_store.rs`) | none of its own; in Redis: finalized header, a state per proof id (expires after a week), one global lock, one generation lock per proof id | get, set, atomic update of header and states, SCAN by status, acquire / extend / release of locks | every worker; 10 s response timeout |
| API requests (`api.rs`, `proof_service.rs` `request_proof`) | the handler's local view | initialise a request or report its status | Redis, under the global lock; spawns tasks |
| Worker loop (`proof_service.rs` `run`) | light client, `should_advance_redis_state` | start-up, new finalized header, pickup of orphaned tasks, health check, tick | Redis, consensus client; spawns tasks |
| Generation task (`generate_and_store_proof`) | its request, a lock extension loop, cancelled when the task is dropped | gather inputs, prove, store a verdict | Redis, consensus client, execution RPCs, prover |
| ConsensusClient (`consensus_client/mod.rs`) | a `LightClientStore` | bootstrap, sync, advance, inputs of a proof | several consensus RPCs at once |
| ZK program (`program/src/main.rs`) | none: a function of its inputs | verify updates, head and storage proofs | the host, through `ProofInputs` |
| Execution RPC proxy (`rpc_proxies/`) | none | first provider with a verified proof | execution RPCs |
| Proof backend (`proof_backends/`) | none | prove | SP1 network |
| Process (`main.rs`) | none | API server first, then `run`; when `run` fails, log, flush the alerts, end | process supervisor |
| Slack alerts (`tracing/slack.rs`) | the list of handles of posting tasks | post an alert, push its handle, prune, flush | every thread that logs; Slack |
| Tracing set-up, CLI tools | none | formatting of log lines; one-shot tools | - |

Several workers may share one Redis. Within a worker, handlers, loop and tasks are tokio
futures that interleave at every await; between workers nothing but Redis is shared.

### What is hard here

- Locks have no owner: `with_global_lock` deletes the global lock whether or not the
  caller acquired it, so critical sections do overlap. What must nevertheless hold:
  nothing is generated before it is final.
- A request is decided from a header read commands earlier; the header is compared in
  one command and written in another.
- Any command may fail before or after it was executed, a process may die between any
  two, a client may disconnect and its handler be dropped. What must hold: Redis catches
  up with the chain, no request stays "Generating", waiting requests are released.
- A generation lock lives one second before its first extension and 21 s after each,
  while each command may take 10 s.
- Consensus RPCs lag, fail and contradict each other, near the end of a sync-committee
  period in particular; a client that misses a committee can verify nothing any more.
- Host and program verify the same updates twice, with different clocks and starting
  stores; the storage proof is fetched for a header chosen from one of several
  candidates, from nodes that may answer with something else than was asked for.
- A worker restarts from whatever header Redis has, which need not be a checkpoint.
- Alerts are posted by tasks of their own; the process that ends because `run` failed
  takes with it whatever has not been posted.

PROJECT.json lists these under `hazards`, each at its line and with the properties that
would catch it going wrong.

## Modules

`RedisStore` <- `ProofService` <- `MCProofService` (the instances), and
`ProofServiceProofs` <- `FinalityProofs`, `HeaderProofs`. `ProofService` instantiates
`FinalityGate` and `Follower`. `SyncProtocol` <- `ConsensusClient` <- `LightClient`,
which instantiates `Follower`. `ConsensusClient`, `StorageProofs` <- `ProofInputs` <-
`MCProofInputs`. `ConsensusClientProofs` <- `LightClientProofs`, `ProofInputsProofs`.
`LockExtension` <- `LockExtensionProofs`. `Alerts` <- `AlertsProofs`. (`A <- B`: B
extends A.)

### RedisStore

Variables `finalizedHeader`, `proofState`, `globalLock`, `genLock` are the keys of
Redis, `faults` counts faults by kind against the bound `MaxFaults`. Each command is an
operator named after its method, with an outcome: `ok`; one failure in which the command
was executed and one in which it was not (`Outcomes`); for a read, or a delete of a lock
whose result is ignored, the cases that differ (`ReadOutcomes`). Locks carry the value
"locked" whoever takes them, as in the code; `genLock` distinguishes only the one-second
lock from an extended one.

### ProofService

An action is one Redis command with the local computation up to the next one.

| Actor | Variable | Actions in order |
|---|---|---|
| handler | `handlers[h]` | RequestProof, ReadState, ReadHeader, WriteState, StartGeneration, Respond |
| loop | `loops[w]` | Start, Boot, Sync; AcquireForUpdate, ReadStoredHeader, ScanWaiting, Commit, SpawnReleased, ReleaseAfterUpdate; ScanGenerating, PickUp / NothingToPickUp; CheckHeaderHealth; AdvanceTo |
| task | `tasks[t]` | Generate, Store; beside them Extend and ReleaseGenLock of the extension loop |
| environment | `finalizedHead`, keys | Finalize, expiry of locks and states, Crash, Disconnect |

`loops[w].advance` is `should_advance_redis_state`, `loops[w].lc` the slot of the light
client. `Covered` is the finality condition of both places that test it.

Abstractions: a header is its slot, a proof state its status; one read per key stands
for the MGETs of a SCAN, whose duplicates are ignored; a command whose answer timed out
takes effect before the caller goes on, if at all; a stored finalized header without
execution part counts as a failed read; rejections of a request by its key or by
parsing, and the two GET endpoints, change nothing and are left out; a failure to sync
at start-up, and a header grown too old, are `Crash` here (both are modelled in
LightClient); `Sync` takes the stored header for a checkpoint; the end of the process is
one step with the error that causes it (the time between the two is in Alerts); panics
of a task are not modelled; `Tasks` bounds the tasks alive at once;
proving takes no time from the extension loop.

Expiry. The global lock may expire at any time; if someone is in the section it guards,
that is a `stall`. A generation lock whose extension loop is running expires only before
the first extension, which is a `stall` as well. Stalls are bounded like the other
faults. That a lock once extended does not expire under its loop is not assumed but
shown by LockExtension.

### FinalityGate

The promise to a client, without workers, locks or Redis: requests pass a gate once the
chain has finalized what they name; only those that passed get a verdict; one shown as
being generated gets one. `ProofService!Gate` maps `head` to `finalizedHead`, `status`
to `proofState` and `released` to the requests some part of the service still treats as
released (`InPipeline`). `ImplementsGate` is the whole promise, with its fairness;
`KeepsGate` its safety part, which holds through any number of faults as well.

### Follower

What the rest of the service relies on about a worker's light client and the headers it
stores: the client's header only moves forward, up to what the chain has finalized; what
is saved is that header and always newer than what was saved before; a new process goes
on from what was saved. Two modules implement it: `ProofService!Client` maps `saved` to
the header in Redis and `head` to the client of its single worker, `LightClient!Client`
maps `head` to the store of the consensus client. The first shows that locks, failed
commands and crashes keep the promise if the client does, the second that the client
does, through lagging and contradicting RPCs.

### LockExtension

One generation lock in time: acquisition, ticks of the interval, PEXPIRE sent, executed
and answered, with the constants of the code in seconds.

### SyncProtocol, ConsensusClient

`SyncProtocol` is what is outside the repository: which updates a consensus node at a
given head serves, and helios' rules for verifying and applying them. `ConsensusClient`
has the client's store and one call per RPC (`sync_to_chain_single_rpc`,
`advance_single_rpc`, `get_updates_single_rpc`); each answer comes from a node behind by
up to `MaxLag`, or the call fails; when all have returned, the most advanced store is
adopted.

A period has more than two slots (`ChainAssumption`), so that a node has an update for
every period before the one its head is in.

Abstractions: time is in slots; the calls of one operation end within 12 s, so at most
one slot begins meanwhile; bootstrap takes no time, and any RPC may serve it; nodes lag
but are honest: updates are signed by two thirds, all are finality updates, a node keeps
the oldest of equally good updates, none is ahead of the local clock; which of equally
advanced stores wins is left open; late and failed answers are bounded (`MaxLapses`), an
`Outage` that fails all calls counting once.

### LightClient

The worker loop as far as the client is concerned: checkpoint from Redis or the initial
one, sync, advance each slot, and the health check that ends the process when the stored
header is too old. If the stored header is one of `Missed` no node can serve a bootstrap
from it: `FailBoot` ends the process, `Restart` starts the next. Redis stores each
header at once (`RedisCatchesUp` of ProofService is the reason it may be assumed in the
end); a `Crash` happens while the loop sleeps, as one in the middle of an operation
leaves the same state behind; one tick per slot.

### StorageProofs, ProofInputs

`StorageProofs` has the data of a storage proof: what a node may answer to
`eth_getProof` (`Answers`: the account of any contract, at the block asked for or
another one, with any of its slots, too few or too many, in any order), what
`ContractStorageBuilder` makes of it, the verification that host and program share
(`Verified`), and what the program commits of each slot (`VerifiedSlots`). Merkle proofs
are sound: a node can prove another contract, slot or block, not a false value; a value
is named by the block that wrote it, and an empty slot has no leaf to prove. The
contract is the one the answer names: `Build` copies it (`types.rs:160`), `Verified`
looks up that account, `VerifiedSlots` commits it with each slot, and the requested one
(`Contract`) occurs in the question only, as in the code.

`ProofInputs` is a generation task with up to three attempts to gather inputs, the
storage proof from several providers, the check of the slot, then the program: each
update verified and applied, the finality update, the head, and the storage proofs.
`Missed` stands for slots not divisible by 32: no client can be bootstrapped there. The
block at a slot is numbered by the slot.

### Alerts

The end of the process. `post[a]` is the task that posts alert `a`; its handle is in
`logging` until pushed, then in `handles` (`SLACK_TASK_HANDLES`), then in `flushed`. An
`on_event` has two steps, `Log` (up to the spawn) and `Push` (under the mutex, with the
pruning); `Flush` drains the list, `Await` takes one handle after the other. `main` logs
its last error between the failure of `run` and the flush; its own future is in no
`on_event` then (`MainFree`), other threads may be.

Abstractions: an alert is an event the filter lets through, logged once; the poisoned
mutex is left out; a kill from outside loses what is being posted, and is left out too;
an error before the API server is up ends the process at once (`aborted`).

## What is checked

All bounds are the CONSTANTS of the cfg files; symmetry is used for the task slots only,
and only in a run without liveness properties.

| Run | Question | Instance |
|---|---|---|
| finality_gate | `GeneratingOnlyFinalized`, `ProcessedHeaderStored`, `ExclusiveGeneration`, `AcceptedIsStored`, `ImplementsFollower`, `KeepsGate`, `TypeOK` under every kind of fault | one worker, one handler, two tasks, one request, two slots, one fault of each kind |
| client_promise | does the service implement `FinalityGate`? | two requests, one held back by its block and one by the contract's head; no faults |
| recovery | the same, `RedisCatchesUp` and `WaitingResolves`, with failures | one request, two tasks, one failed command, one crash |
| lock_extension | `ExtendedLockHolds` with the code's 1, 10, 11 and 10 seconds | exact |
| light_client | `ImplementsFollower`, `StaysFresh`, `BecomesFresh` | two RPCs, periods of 7 slots, from the fourth period to slot 30, four lapses, one slot that is no checkpoint |
| proof_inputs | `HostAndProgramAgree`, `ProvedHeadUsable`, `ProvedSlotsComplete`, `Decides` | two consensus RPCs and two execution RPCs, two storage keys of two contracts, periods of 5 slots, three possible heads of the contract, two lapses, three attempts |
| alerts | `InSight`, `LastWords`, `OnlyDrainedPostsHold` | two alerts of the main future, three of others and the last error; pruning from three handles on |

Why these bounds suffice to be interesting: two slots are one header before and one
after a request is covered, so every decision falls either way and is overtaken by a
commit; one handler, the loop and two tasks with one fault of each kind reach every
overlap of critical sections (a refused update deletes the handler's lock, a handler
deletes the loop's). Two workers are too many states for the faults together; the proofs
below cover any number of them, and header_regress needs two. Periods of 5 and 7 slots
with a lag of 2 and requests of at most 2 periods make a sync span several batches and a
boundary, let the last update of a period finalize a header of that period or not, and
let four lapses make both RPCs miss a committee: `MaxAge` is 4, and with 3 `StaysFresh`
fails, so the bound is exact in this instance. `MaxNow` stops the clock, so that
`BecomesFresh` says: however a bounded number of lapses falls, the client is fresh in
the end, or its worker is to start from slot 24, the one that is no checkpoint. In
proof_inputs one key is empty before slot 8 and set again at the block the request
names, so that heads on either side give no proof, an old value and the new one; the
second contract has other values at the same keys; two lapses let both providers answer
wrongly or one attempt after the other fail. With six
alerts and a threshold of three the list is pruned with tasks of both kinds in it,
before and while it is flushed. The maps of PROJECT.json name the code of each
definition, and `mutants` a change of the code each property is able to detect.

CHECK_DEADLOCK is FALSE in the runs of ProofInputs, where the task ends, and in alerts,
where the process does.

### Fairness

- Loops, handlers and tasks are weakly fair: tokio schedules a ready future, and each
  command is answered, fails or times out. Failures are bounded by `MaxFaults`.
- `Start`: a process supervisor restarts a worker.
- Expiry of the locks is weakly fair, and only of those whose holder no longer counts on
  them.
- `AdvanceTo(w, finalizedHead)` is strongly fair: a light client that polls again and
  again at last learns the finalized slot. LightClient shows this of the client itself
  (`BecomesFresh`), as long as the header it starts from is a checkpoint.
- Nothing is assumed of who wins a lock, nor of clients. A steady flow of API requests
  may refuse the worker its lock for ever; therefore `RedisCatchesUp` and
  `WaitingResolves` are stated for a time from which on the API is quiet.
- LightClient and ProofInputs: the operation in progress goes on. One weak fairness
  condition for all calls leaves none out, as the operation ends only when all have.
- Alerts: threads are scheduled, the one of `main` among them. Nothing makes `run` fail,
  and nothing makes a post to Slack end: neither the client that sends it
  (`slack.rs:38`) nor `flush` (`slack.rs:161`) has a timeout. So the process need not
  end when `run` has failed; if a drained post never does, it stays up for ever, its API
  answering and its loop gone. `OnlyDrainedPostsHold` says that this is the only way:
  other threads and their posts cannot keep it up.

### Where the code does not do what it says

Five runs end in a violation, each of one property that a comment or the API's
documentation states.

- waiting_though_final: a handler read the old header; the worker's refused update
  deleted the handler's lock, its next one committed a header that covers the request;
  then the handler stores WaitingForFinality. The request waits for the next header
  (minutes) although it is final (`types.rs:54`).
- header_regress: with two workers whose critical sections overlap, an older header
  replaces a newer one, and both updates returned true (`proof_service.rs:239`).
- success_overwritten: the scan for orphaned tasks finds a request in generation; its
  task stores Success and releases the lock; the pickup acquires that lock, concludes
  "This task is orphaned" (`proof_service.rs:685`) and generates again; if the second
  attempt fails, the proof is replaced by Errored. No fault is needed.
- program_rejects: the program rejects inputs the host has verified, and the request
  ends Errored, for one of two reasons. `expected_current_slot` is read once for the
  program and again for each verification of the host: a slot that begins in between
  makes the host accept an update the program must reject. And the storage proof is
  fetched at the header of the finality update: if that answer comes from a node behind
  the one that served the committee updates, the head of the program is a newer header.
- proof_before_block: inputs are accepted as soon as the head is beyond the contract's;
  RPCs behind the header that released the request yield a proof of a block before
  `src_chain_block_number`, where the storage need not exist yet.

`HostAndProgramAgree` shows that the two reasons of program_rejects are the only ones.

Smaller observations, not stated as properties:

- `get_proof` is documented to handle "result consistency checking"
  (`execution.rs:74`), but the contract of an answer is not compared with
  `src_chain_contract_address`, neither there nor in the program: a valid proof of the
  same keys of another contract at the right block is accepted and proved. Each slot is
  committed with the contract it was proved of (`ProvedSlotsComplete`), so that the
  destination can tell; the service does not.
- The health check may run before the first header was stored, if the first update was
  refused or failed, and then ends the process although the comment at
  `proof_service.rs:872` says the header has been updated by then (the worker is started
  again).
- The one-second lock (`proof_service.rs:34`) may run out before the first extension
  when Redis is slow, after which the task works without it - this is why
  `ExclusiveGeneration` assumes `Reliable`.
- The check that a slot is divisible by 32 (`proof_service.rs:567`) is made for proofs
  only. A stored finalized header that fails it leaves every restart without a bootstrap
  (`Stuck` of LightClient).
- Answer 409 is documented as "Request already being processed" (`api.rs:269`); the
  global lock may be held for any other request or header. A missing finalized header is
  documented as 404 (`api.rs:353`) and answered with 500.
- `flush` is documented to flush "all in-flight" tasks (`slack.rs:151`); alerts logged
  by other threads once it has drained the list are not waited for (`LastWords` says
  which are). An error of start-up, before `run`, returns without a flush
  (`main.rs:14`).

## What is proved

For every value of the constants: any number of workers, handlers, tasks, requests,
slots and faults. Assumptions are the named ASSUMEs of the modules.

| Theorem | Statement | Argument |
|---|---|---|
| ProofServiceProofs `TypeCorrect` | `Spec => []TypeOK` | inductive; `DecidedViews` is needed because a handler writes the status it decided |
| FinalityProofs `FinalityGateHolds` | `Spec => []GeneratingOnlyFinalized` | `GateInv` |
| ProofServiceProofs `GenerationExclusive` | `Spec => []ExclusiveGeneration` | `LockedInv` |
| HeaderProofs `ProcessedIsStored` | `OneWorker` implies `[]ProcessedHeaderStored` | `WriterInv` |
| HeaderProofs `WorkerFollows` | `OneWorker` implies `ImplementsFollower` | `WriterInv`: each step is one of Follower or a stutter |
| ProofServiceProofs `AcceptedStays` | `Spec => []AcceptedIsStored` | `AcceptedInv` |
| FinalityProofs `ServiceKeepsGate` | `Spec => KeepsGate` | `GateInv`, `FoundInv`: each step is one of FinalityGate or a stutter |
| LightClientProofs `LightClientTypeCorrect` | `Spec => []TypeOK` | `ClientInv` |
| LightClientProofs `LightClientStaysFresh` | `Spec => []StaysFresh` | `FreshInv` |
| LightClientProofs `LightClientFollows` | `Spec => ImplementsFollower` | `FollowInv`: each step is one of Follower or a stutter |
| ProofInputsProofs `TaskTypeCorrect` | `Spec => []TypeOK` | `ClientInv` |
| ProofInputsProofs `ProgramAgreesWithHost`, `ProvedHeadIsUsable`, `ProvedSlotsAreComplete` | `Spec => []HostAndProgramAgree`, `[]ProvedHeadUsable`, `[]ProvedSlotsComplete` | `TaskInv` |
| LockExtensionProofs `TypeCorrect` | `Spec => []TypeOK` | inductive |
| LockExtensionProofs `ExtensionSafe` | `Spec => []ExtendedLockHolds` | `LockMargin` |
| AlertsProofs `AlertsTypeCorrect`, `AlertsInSight`, `AlertsDelivered` | `Spec => []TypeOK`, `[]InSight`, `[]LastWords` | `AlertsInv` |

- `GateInv`. The property speaks of statuses in Redis, but a status is written long
  after it was decided, by a handler, a commit or a task. So the invariant says that
  every header anybody holds is finalized (`HeadersFinalized`), and that whoever is
  about to make a request "generating", to start a task on it or to store its verdict
  has a request the chain's head covers (`HandlersGated`, `LoopsGated`, `TasksGated`).
  Covering is monotone in the slot (`CoveredMonotone`, from `BlockAssumption`). The
  global lock plays no part in the argument, which is what one wants, given that it does
  not exclude.
- `LockedInv` holds as long as the behaviour is `Reliable`: a task that exists has its
  lock and is the only one of its request. The counters of faults never decrease, so a
  state that is reliable was reached through reliable states only (`ReliableSoFar`).
- `WriterInv`. With one worker nobody else writes the header between its comparison and
  its commit: what the loop found in Redis remains true at each point of an update. With
  two workers it does not, and a header may be replaced by an older one
  (header_regress).
- `WorkerFollows` goes action by action: a commit is a `Save` because the stored header
  is still older (`WriterInv`), a crash or a failed health check is a `Restart`, `Sync`
  and `AdvanceTo` are `Advance`, and whatever else happens leaves the client where it
  stands. That the light client really behaves as `Sync` and `AdvanceTo` say is checked
  on LightClient.
- `AcceptedInv`. A handler may answer with a status it read several commands ago; as
  long as no state has expired (`faults["ttl"] = 0`) no command deletes one.
- `ServiceKeepsGate`. What the gate calls released is spread over the service: a status,
  a task, a handler between its write and its spawn, what a loop is to spawn or has
  found in generation (`InPipeline`). Step by step: only a write of "generating" adds to
  it, by a handler or by a commit, and those are `Release`, as `GateInv` has the head
  cover what is written; a task stores a verdict only on a request that is in it
  (`Conclude`); a crash, a disconnect or the end of a task only takes from it, and what
  it takes is not shown as being generated (`Retire`), as the status itself keeps a
  request in it. `FoundInv` says that what a scan has found is dealt with before the
  loop goes on: without it a scan could begin with what an earlier one, for waiting
  requests, had left. No lock plays a part here either.
- `ClientInv`. The trace of a call grows by consecutive periods (`TraceInv`) because
  every batch starts where the last one ended, and a node that serves an update for a
  period serves one for each period before (`AttestedBefore`); the store of a call is
  between the client's and what the chain has finalized (`BoundsInv`), because applying
  an update never takes a store back and no update finalizes more than the chain.
  `FollowInv` adds that there are no calls outside an operation and that what is stored
  was finalized; a client that starts again from it is `Restart`, an adopted store
  `Advance`.
- `FreshInv` says of a store that it keeps up (`KeepsUp`): it is as new as what a prompt
  answer could bring when the operation began, and it can verify a prompt answer two
  slots later, because it knows the next committee or no period begins until then.
  A prompt RPC's call never fails and ends with such a store (`PromptSyncInv`,
  `PromptAdvanceInv`); any other call ends with one that is no newer or keeps up too
  (`DoneInv`), so whichever store wins keeps up (`AdoptFresh`), and so does the one a
  process sleeps with. The difficult slots are those around the start of a period: there
  the update of the new period may be missing or finalize a header of the old one
  (`Complete`, `Served`), and the argument is that a store without the next committee
  then has most of a period ahead of it. It needs `FreshAssumption`: the service starts
  later than a finality lag after genesis, a period (8192 slots) is longer than the
  finality lag and that of the nodes together, and the maximal age (111 slots) is at
  least the finality lag and two slots. The last is what the check of the age demands: a
  header finalized when the last operation's slot began is Lag + 1 slots old by then,
  and one slot may have begun since.
- `TaskInv`. The store of a call is what the updates it has verified make of the store
  it began with (`CallAgrees`, over `StoresOf`, the stores the updates make one after
  the other); the inputs are those of the call that was adopted (`HostVerified`); the
  program runs through the same stores (`guest.store = Stores[guest.applied]`). So the
  program can reject an update only for the one thing it reads differently, the clock
  (`SignedLater`), and the finality update only for being behind the stores the updates
  made (`FinalityBehind`). `StorageChecked` is what the host has checked of the storage
  before the program does so again. It rests on `CheckedComplete`: of the answers a node
  may give, to any number of keys and of any contract, only those pass `Build` and
  `Verified` whose items are of the requested keys in their order, at the block asked
  for and of one contract, since a position must hold a proof of its own key. Which
  contract, `ProvedSlotsAreComplete` leaves open, as the code does.
- `AlertsInv` says where the alerts due before the end are at each point of `main`: in
  the list until it is drained, then among the drained handles, then posted.
- `LockMargin`. The lock outlives the next tick by the buffer, and a command in flight
  has used up no more than its age. It needs the timeout to be at most the interval and
  less than the buffer, which the code's constants satisfy by one second.

## What is only model-checked

- Liveness: the fairness of `ImplementsGate`, `RedisCatchesUp`, `WaitingResolves`,
  `BecomesFresh`, `Decides`, `OnlyDrainedPostsHold`. The prover has neither fairness nor
  ENABLED.

What a recursive definition computes is proved where it is needed without the library's
induction theorems, which take an operator: `LeastExists` (every set of numbers has a
least one) comes from the well-foundedness of `<`, and induction over the updates of a
trace from that.

## What is not modelled

- The proof backend: one call to an external prover that succeeds or fails (the two
  verdicts of `Generate`), with no retry or state of its own.
- Encodings and hashing: proof ids (a request is its id), Merkle tries (`Verified` is
  what their verification concludes), sync committee hashes.
- Tracing set-up and the format of log lines and alerts: nothing reads them.
- The two GET endpoints, the health check of the API and the parsing of requests: they
  change nothing.
- The CLI tools: each asks once, prints or writes one file, and ends.
- `set_finalized_header` and the commented-out code: never called.

## Plan

Built so far, in this order: RedisStore and ProofService (the core), FinalityGate,
LockExtension, the proofs of the core's safety, ConsensusClient with LightClient and
ProofInputs, Follower and its two implementations, StorageProofs, Alerts; then the
proofs about the client and the inputs of a proof, and of the gate. Next:

1. Two workers with faults on a reduced instance, and ProofService with several tasks of
   one request after a stall.
