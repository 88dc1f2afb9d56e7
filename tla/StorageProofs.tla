---------------------------- MODULE StorageProofs ----------------------------
(***************************************************************************)
(* Storage proofs (EIP-1186): what an execution node answers, how the host *)
(* turns an answer into an input of the program (types.rs:                 *)
(* ContractStorageBuilder), and the verification that the host             *)
(* (zk-api/src/lib.rs) and the program (program/src/main.rs) both do.      *)
(*                                                                         *)
(* Merkle proofs are sound: a node may answer with a proof of something    *)
(* else, not with a false proof.  A state root stands for its block, the   *)
(* storage root of an account for the values of its slots at that block.   *)
(***************************************************************************)
EXTENDS Naturals, Sequences

Blocks == INSTANCE FiniteSetsExt
Lists == INSTANCE SequencesExt

CONSTANTS
    Contract,  \* src_chain_contract_address
    Keys,      \* src_chain_storage_slots, in the order of the request
    Writes     \* per contract of the chain and per key, the blocks that set its slot

Contracts == DOMAIN Writes
SlotKeys  == DOMAIN Writes[Contract]

ASSUME StorageAssumption ==
    /\ Contract \in Contracts
    /\ Writes \in [Contracts -> [SlotKeys -> SUBSET (Nat \ {0})]]
    /\ Keys \in Seq(SlotKeys)

(* A value is named by the block that wrote it; 0 is that of an empty slot.*)
ValueAt(contract, key, block) ==
    Blocks!Max({0} \cup {w \in Writes[contract][key] : w <= block})

Item         == [key : SlotKeys, value : Nat]
Slot         == [key : SlotKeys, proof : Item]
Storage      == [address : Contracts, block : Nat, slots : Seq(Slot)]
VerifiedSlot == [key : SlotKeys, value : Nat, contract : Contracts]

NoStorage == [address |-> Contract, block |-> 0, slots |-> <<>>]

ItemOf(contract, key, block) == [key |-> key, value |-> ValueAt(contract, key, block)]

(* eth_getProof as asked for.                                              *)
ProofAt(contract, block) ==
    [address |-> contract, block |-> block,
     items   |-> [i \in DOMAIN Keys |-> ItemOf(contract, Keys[i], block)]]

(* What a node may answer: the account of any contract, at the block or at *)
(* the one before, which stands for every other, with any of its slots in  *)
(* any order, up to one more than asked for.  An answer whose parts do not *)
(* belong together verifies nowhere, like no answer.                       *)
AnswersOf(contract, block) ==
    [address : {contract}, block : {block},
     items   : Lists!SeqOf({ItemOf(contract, key, block) : key \in SlotKeys}, Len(Keys) + 1)]

Answers(block) ==
    UNION {AnswersOf(contract, b) : contract \in Contracts, b \in {block - 1, block}}

-----------------------------------------------------------------------------
(* Mutant: zip without the comparison of the lengths.                      *)
BuildZipped(answer) ==
    [address |-> answer.address,
     block   |-> answer.block,
     slots   |-> [i \in DOMAIN Keys \cap DOMAIN answer.items |->
                    [key |-> Keys[i], proof |-> answer.items[i]]]]

(* ContractStorageBuilder::build: the i-th item is taken for the i-th key, *)
(* whatever key the node names, and the contract is the one the node names;*)
(* an answer of another length is refused.                                 *)
Build(answer) ==
    IF Len(answer.items) # Len(Keys) THEN NoStorage
    ELSE [address |-> answer.address,
          block   |-> answer.block,
          slots   |-> [i \in DOMAIN Keys |->
                         [key |-> Keys[i], proof |-> answer.items[i]]]]

(* verify_storage_slot_proofs against the state of a block: the account    *)
(* the storage names is proved there, whichever it is, each proof is one   *)
(* for its key under the account's storage root, and a slot that is empty  *)
(* has no leaf whose value could be proved.                                *)
Verified(block, storage) ==
    /\ storage.block = block
    /\ \A i \in DOMAIN storage.slots :
          /\ storage.slots[i].proof.key = storage.slots[i].key
          /\ storage.slots[i].proof.value # 0

(* Mutant: each slot is committed as one of the contract of the request.   *)
SlotsOfRequest(storage) ==
    [i \in DOMAIN storage.slots |->
       [key |-> storage.slots[i].key, value |-> storage.slots[i].proof.value,
        contract |-> Contract]]

(* What is committed of each slot names the contract that was proved.      *)
VerifiedSlots(storage) ==
    [i \in DOMAIN storage.slots |->
       [key |-> storage.slots[i].key, value |-> storage.slots[i].proof.value,
        contract |-> storage.address]]

(* The slots of the request, as those of a contract at a block.            *)
SlotsAt(contract, block) ==
    [i \in DOMAIN Keys |->
       [key |-> Keys[i], value |-> ValueAt(contract, Keys[i], block),
        contract |-> contract]]
=============================================================================
