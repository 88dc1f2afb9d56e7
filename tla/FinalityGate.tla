---------------------------- MODULE FinalityGate ----------------------------
(***************************************************************************)
(* What the ZK API promises its clients, without workers, locks or Redis:  *)
(* a request passes a gate once the source chain has finalized what it     *)
(* names; only a request that has passed the gate is ever given a verdict; *)
(* and one shown as being generated is given one, whatever happens.        *)
(***************************************************************************)
EXTENDS Integers

CONSTANTS Requests, MaxSlot, InitSlot, BlockAt, ReqBlock, ReqHead

VARIABLES
    head,      \* finalized slot of the source chain
    status,    \* what a client that asks is told
    released   \* the requests that have passed the gate

gateVars == <<head, status, released>>

Verdict == {"success", "errored"}
Passes(r) == BlockAt[head] >= ReqBlock[r] /\ head > ReqHead[r]

Init ==
    /\ head = InitSlot
    /\ status = [r \in Requests |-> "absent"]
    /\ released = {}

FinalizeSlot ==
    /\ head' \in (head + 1) .. MaxSlot
    /\ UNCHANGED <<status, released>>

(* A request is admitted to wait at the gate, again after an error.        *)
Admit(r) ==
    /\ status' = [status EXCEPT ![r] = "waiting"]
    /\ released' \in SUBSET released
    /\ UNCHANGED head

(* Requests pass the gate: their statuses change in one step.              *)
Release(S) ==
    /\ S # {}
    /\ \A r \in S : Passes(r)
    /\ released' = released \cup S
    /\ status' = [r \in Requests |-> IF r \in S THEN "generating" ELSE status[r]]
    /\ UNCHANGED head

(* A later verdict may replace an earlier one.                             *)
Conclude(r) ==
    /\ r \in released
    /\ \E v \in Verdict : status' = [status EXCEPT ![r] = v]
    /\ UNCHANGED <<head, released>>

(* A stored state expires.                                                 *)
Forget(r) ==
    /\ status' = [status EXCEPT ![r] = "absent"]
    /\ released' \in SUBSET released
    /\ UNCHANGED head

(* Nothing is left of a request in the service but what clients see.       *)
Retire ==
    /\ released' \in SUBSET released
    /\ \A r \in Requests \ released' : status[r] # "generating"
    /\ UNCHANGED <<head, status>>

Next ==
    \/ FinalizeSlot
    \/ Retire
    \/ \E S \in SUBSET Requests : Release(S)
    \/ \E r \in Requests : Admit(r) \/ Conclude(r) \/ Forget(r)

Fairness ==
    \A r \in Requests :
        WF_gateVars(status[r] = "generating" /\ Conclude(r))

Steps == Init /\ [][Next]_gateVars

Spec == Steps /\ Fairness
=============================================================================
