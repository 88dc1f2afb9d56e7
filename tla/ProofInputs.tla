----------------------------- MODULE ProofInputs -----------------------------
(***************************************************************************)
(* How a generation task gathers the inputs of a proof (proof_service.rs:  *)
(* get_proof_inputs) and what the ZK program makes of them                 *)
(* (program/src/main.rs).  Host and program verify the same updates twice, *)
(* with different clocks and different starting stores, and the storage    *)
(* proof is of a header that is chosen once by each.                       *)
(*                                                                         *)
(* The execution block at a slot has the number of the slot.               *)
(***************************************************************************)
EXTENDS ConsensusClient, StorageProofs

CONSTANTS
    Providers,    \* SOURCE_EXECUTION_RPC_URL
    Heads,        \* slots of dst_chain_contract_from_header
    Block,        \* src_chain_block_number
    InitNow,      \* slot at which the task starts
    MaxAttempts   \* MAX_GET_PROOF_INPUTS_ATTEMPTS

ASSUME ProofInputsAssumption ==
    /\ Heads \cup {Block, InitNow} \subseteq Nat
    /\ MaxAttempts \in Nat \ {0}
    /\ Providers # {}
    /\ InitNow <= MaxNow

(* The worker has released the request.                                    *)
ASSUME ReleasedAssumption ==
    /\ Block <= Finalized(InitNow - 1)
    /\ \A h \in Heads : h < Finalized(InitNow - 1)

VARIABLES
    head,    \* the slot the proof starts from
    task,    \* where generate_and_store_proof is, and the attempts failed
    inputs,  \* ProofInputs
    guest    \* the store of the program, the updates it has applied, the
             \* storage slots it has committed

vars == <<clientVars, head, task, inputs, guest>>

TaskPC == {"bootstrap", "bootstrapped", "sync", "storage", "program",
           "proved", "rejected", "errored"}

NoInputs == [initial |-> [slot |-> 0, next |-> FALSE], expected |-> 0,
             updates |-> <<>>, finality |-> NoUpdate, storage |-> NoStorage]

NoGuest == [store |-> [slot |-> 0, next |-> FALSE], applied |-> 0, slots |-> <<>>]

TypeOK ==
    /\ ClientTypeOK
    /\ head \in Heads
    /\ task \in [pc : TaskPC, failed : 0 .. MaxAttempts]
    /\ inputs \in [initial : Store, expected : Nat, updates : Seq(Update),
                   finality : Update, storage : Storage]
    /\ guest \in [store : Store, applied : 0 .. Len(inputs.updates), slots : Seq(VerifiedSlot)]

Init ==
    /\ now = InitNow
    /\ lapses = 0
    /\ prompt = Rpcs
    /\ store = [slot |-> 0, next |-> FALSE]
    /\ calls = NoCalls
    /\ head \in Heads
    /\ task = [pc |-> "bootstrap", failed |-> 0]
    /\ inputs = NoInputs
    /\ guest = NoGuest

GoTo(pc) == task' = [task EXCEPT !.pc = pc]

-----------------------------------------------------------------------------
(* Mutant: the attempts are not counted.                                   *)
RetryForever == GoTo("bootstrap")

(* An attempt has failed: the next starts 12 seconds later, if any is left.*)
Retry ==
    task' = [pc     |-> IF task.failed + 1 < MaxAttempts THEN "bootstrap" ELSE "errored",
             failed |-> task.failed + 1]

(* bootstrap: only a checkpoint can be bootstrapped from.                  *)
StartAttempt ==
    /\ task.pc = "bootstrap"
    /\ \/ Bootstrap(head) /\ GoTo("bootstrapped")
       \/ ~CanBootstrap(head) /\ Retry /\ UNCHANGED clientVars
    /\ UNCHANGED <<inputs, guest>>

StartSync ==
    /\ task.pc = "bootstrapped"
    /\ BeginSync
    /\ GoTo("sync")
    /\ UNCHANGED <<inputs, guest>>

Calls ==
    /\ Outage \/ \E r \in Rpcs : CallStep(r)
    /\ UNCHANGED <<task, inputs, guest>>

TakeTrace(r) ==
    /\ inputs' = [initial |-> store, expected |-> calls[r].began,
                  updates |-> calls[r].updates, finality |-> calls[r].finality,
                  storage |-> NoStorage]
    /\ GoTo("storage")

(* Mutant: the head need not have advanced.                                *)
AcceptAnyHead ==
    /\ task.pc = "sync"
    /\ \/ GiveUp /\ Retry /\ UNCHANGED inputs
       \/ \E r \in Rpcs : Adopt(r) /\ TakeTrace(r)
    /\ UNCHANGED guest

(* sync_to_chain has ended: the trace of the most advanced RPC is taken,   *)
(* if its head is beyond the contract's.                                   *)
EndSync ==
    /\ task.pc = "sync"
    /\ \/ GiveUp /\ Retry /\ UNCHANGED inputs
       \/ \E r \in Rpcs :
            /\ Adopt(r)
            /\ IF calls[r].store.slot > store.slot
                 THEN TakeTrace(r)
                 ELSE Retry /\ UNCHANGED inputs
    /\ UNCHANGED guest

(* get_proof_and_check: an answer in time that the host itself can verify. *)
Checked(answer, block) ==
    LET storage == Build(answer) IN storage # NoStorage /\ Verified(block, storage)

(* Any answer but the one asked for is a lapse.                            *)
StorageLapse(up, answer, block) ==
    IF up = Providers /\ \A p \in up : answer[p] = ProofAt(Contract, block)
      THEN UNCHANGED lapses
      ELSE lapses < MaxLapses /\ lapses' = lapses + 1

StartProgram(storage) ==
    /\ inputs' = [inputs EXCEPT !.storage = storage]
    /\ guest' = [NoGuest EXCEPT !.store = [inputs.initial EXCEPT !.next = FALSE]]
    /\ GoTo("program")

(* Mutant: any slot will do.                                               *)
AnySlot(storage) == StartProgram(storage)

(* The slot of the finality update must be a checkpoint.                   *)
CheckSlot(storage) ==
    IF inputs.finality.fin \in Missed
      THEN GoTo("errored") /\ UNCHANGED <<inputs, guest>>
      ELSE StartProgram(storage)

(* The storage proof, at the block of the finality update: up answer in    *)
(* time, and multiplex takes the first answer that checks.                 *)
GetStorage ==
    LET block == inputs.finality.fin IN
    /\ task.pc = "storage"
    /\ \E up \in SUBSET Providers : \E answer \in [up -> Answers(block)] :
         LET good == {p \in up : Checked(answer[p], block)} IN
         /\ StorageLapse(up, answer, block)
         /\ \/ good = {} /\ Retry /\ UNCHANGED <<inputs, guest>>
            \/ \E p \in good : CheckSlot(Build(answer[p]))
    /\ UNCHANGED <<now, prompt, store, calls>>

(* No RPC has the checkpoint, or not in time.                              *)
FailBootstrap ==
    /\ task.pc = "bootstrap"
    /\ lapses < MaxLapses
    /\ lapses' = lapses + 1
    /\ Retry
    /\ UNCHANGED <<now, prompt, store, calls, inputs, guest>>

-----------------------------------------------------------------------------
(* The program                                                             *)

ProgramUpdate ==
    /\ task.pc = "program"
    /\ guest.applied < Len(inputs.updates)
    /\ LET s == VerifyAndApply(inputs.updates[guest.applied + 1],
                               inputs.expected, guest.store)
       IN  IF s = Rejected
             THEN GoTo("rejected") /\ UNCHANGED guest
             ELSE /\ guest' = [guest EXCEPT !.store = s, !.applied = @ + 1]
                  /\ UNCHANGED task
    /\ UNCHANGED <<clientVars, inputs>>

(* The finality update; then the head must have advanced, and the storage  *)
(* proofs must be of the state of that head.                               *)
ProgramFinality ==
    LET s == VerifyAndApply(inputs.finality, inputs.expected, guest.store) IN
    /\ task.pc = "program"
    /\ guest.applied = Len(inputs.updates)
    /\ IF s # Rejected /\ s.slot > inputs.initial.slot /\ Verified(s.slot, inputs.storage)
         THEN /\ GoTo("proved")
              /\ guest' = [guest EXCEPT !.store = s, !.slots = VerifiedSlots(inputs.storage)]
         ELSE GoTo("rejected") /\ UNCHANGED guest
    /\ UNCHANGED <<clientVars, inputs>>

-----------------------------------------------------------------------------
Over == task.pc \in {"proved", "rejected", "errored"}

Tick ==
    /\ ~Over
    /\ NextSlot
    /\ UNCHANGED <<task, inputs, guest>>

Progress ==
    StartAttempt \/ StartSync \/ Calls \/ EndSync \/ GetStorage \/ FailBootstrap
        \/ ProgramUpdate \/ ProgramFinality

Next == (Progress \/ Tick) /\ UNCHANGED head

Spec == Init /\ [][Next]_vars

(* Calls answer, fail or time out, and the task goes on.                   *)
FairSpec == Spec /\ WF_vars(Progress /\ UNCHANGED head)

-----------------------------------------------------------------------------
(* An update signed after the slot the host had read first.                *)
SignedLater ==
    \/ inputs.finality.sig > inputs.expected
    \/ \E i \in DOMAIN inputs.updates : inputs.updates[i].sig > inputs.expected

(* A finality update older than the last committee update.                 *)
FinalityBehind == inputs.finality.fin < store.slot

(* Of inputs the host has verified, the program makes the same store as    *)
(* the host, or it rejects them for one of two reasons: the clock moved    *)
(* while they were gathered, or the storage proof is of another header     *)
(* than the head.                                                          *)
HostAndProgramAgree ==
    /\ task.pc = "proved" => guest.store = store
    /\ task.pc = "rejected" => SignedLater \/ FinalityBehind

(* A proof moves the contract forward, to a header the chain has finalized *)
(* and from which the next proof can start: get_proof_inputs bootstraps    *)
(* from the contract's head.                                               *)
ProvedHeadUsable ==
    task.pc = "proved" =>
        guest.store.slot \in (head + 1 .. Finalized(now - 1)) \ Missed

(* A proof commits every requested slot, in the order of the request, each *)
(* with its value at the new head in one and the same contract, the one it *)
(* is committed for, and none that is empty there.  Neither short nor      *)
(* reordered answers nor ones of another block get through                 *)
(* (ContractStorageBuilder, verify_storage_slot_proofs).  An answer for    *)
(* another contract does: nothing compares its address with the request's, *)
(* and the destination has to look at the committed contract.              *)
ProvedSlotsComplete ==
    task.pc = "proved" =>
        /\ \E contract \in Contracts : guest.slots = SlotsAt(contract, guest.store.slot)
        /\ \A i \in DOMAIN guest.slots : guest.slots[i].value # 0

(* Every request is decided, whatever fails for however long.              *)
Decides == <>Over

(* The program accepts what the host has verified.                         *)
AcceptedByProgram == task.pc # "rejected"

(* The proof is of a block at which the storage must be present.           *)
ProvedBlockIsRequested == task.pc = "proved" => guest.store.slot >= Block

-----------------------------------------------------------------------------
(* The stores that the updates of a trace make of s, one after the other.  *)
StoresOf(s, us) ==
    LET t[i \in 0 .. Len(us)] == IF i = 0 THEN s ELSE Apply(us[i], t[i - 1]) IN t

(* What keeps HostAndProgramAgree: the store of a call is what the updates *)
(* it has verified make of the client's; the inputs are those of the call  *)
(* that was adopted; and the program is on the way the host went.          *)
CallAgrees(c) ==
    LET t == StoresOf(store, c.updates) IN
    c.pc # "idle" =>
        /\ c.op = "sync" /\ c.pc # "committee"
        /\ \A i \in 1 .. c.verified : Verifies(c.updates[i], now, t[i - 1])
        /\ c.pc \in {"updates", "verify", "finality"} => c.store = t[c.verified]
        /\ c.pc = "done" =>
              /\ Made(c.finality, now) /\ ~c.finality.next
              /\ Verifies(c.finality, now, t[c.verified])
              /\ c.store = Apply(c.finality, t[c.verified])

Start == [slot |-> head, next |-> FALSE]

Stores == StoresOf(inputs.initial, inputs.updates)

HostVerified ==
    LET last == Stores[Len(inputs.updates)] IN
    /\ inputs.initial = Start
    /\ \A i \in 1 .. Len(inputs.updates) : Verifies(inputs.updates[i], now, Stores[i - 1])
    /\ Made(inputs.finality, now) /\ ~inputs.finality.next
    /\ Verifies(inputs.finality, now, last)
    /\ store = Apply(inputs.finality, last)
    /\ store.slot > head

(* What keeps ProvedSlotsComplete and ProvedHeadUsable.                    *)
StorageChecked ==
    LET storage == inputs.storage IN
    /\ storage.block = inputs.finality.fin
    /\ storage.block \notin Missed
    /\ Verified(storage.block, storage)
    /\ VerifiedSlots(storage) = SlotsAt(storage.address, storage.block)
    /\ \A i \in DOMAIN Keys : ValueAt(storage.address, Keys[i], storage.block) # 0

TaskInv ==
    /\ ClientInv
    /\ Finalized(InitNow - 1) <= Finalized(now - 1)
    /\ task.pc # "errored" => task.failed < MaxAttempts
    /\ task.pc # "sync" => Idle
    /\ task.pc \in {"bootstrapped", "sync"} => store = Start
    /\ \A r \in Rpcs : CallAgrees(calls[r])
    /\ task.pc \in {"storage", "program", "proved", "rejected"} => HostVerified
    /\ task.pc \in {"program", "proved", "rejected"} => StorageChecked
    /\ task.pc \notin {"program", "proved", "rejected"} => guest = NoGuest
    /\ task.pc = "program" => guest.store = Stores[guest.applied]
    /\ HostAndProgramAgree
    /\ ProvedHeadUsable
    /\ ProvedSlotsComplete
=============================================================================
