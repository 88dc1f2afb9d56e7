---------------------------- MODULE SyncProtocol ----------------------------
(***************************************************************************)
(* What consensus nodes and helios_consensus_core do, as far as the        *)
(* service depends on it: which updates a node serves, when an update is   *)
(* accepted and what it does to a store.  All of it is outside src/.       *)
(*                                                                         *)
(* A header is its slot.  A store is the slot of its finalized header and  *)
(* whether it knows the sync committee of the next period; the committee   *)
(* of its own period it always knows.  Signatures and Merkle branches are  *)
(* valid and every update has its two thirds: nodes lag, they do not lie.  *)
(***************************************************************************)
EXTENDS Integers, Sequences, FiniteSets

CONSTANTS
    PeriodLength,  \* slots in a sync committee period
    Lag            \* slots from a finalized header to the one attesting it

ASSUME ChainAssumption ==
    /\ PeriodLength \in Nat /\ PeriodLength > 2
    /\ Lag \in Nat \ {0}

Sets == INSTANCE FiniteSetsExt

Period(slot) == slot \div PeriodLength    \* calc_sync_period

(* The newest header finalized when the header at slot att was made.       *)
Finalized(att) == IF att < Lag THEN 0 ELSE att - Lag

Store  == [slot : Nat, next : BOOLEAN]
Update == [fin : Nat, att : Nat, sig : Nat, next : BOOLEAN]

MakeUpdate(att, next) ==
    [fin |-> Finalized(att), att |-> att, sig |-> att + 1, next |-> next]

-----------------------------------------------------------------------------
(* A node whose head is at slot k.                                         *)

FinalityUpdateAt(k) == MakeUpdate(k - 1, FALSE)

(* Where the update it holds for period p may be attested: signed in p as  *)
(* well, and finalizing a header of p if there is one that does.           *)
Attested(p, k) ==
    LET known  == {a \in 1 .. k - 1 : Period(a) = p /\ Period(a + 1) = p}
        better == {a \in known : Period(Finalized(a)) = p}
    IN  IF better # {} THEN better ELSE known

(* Of updates with the same support a node keeps the oldest.               *)
UpdateOf(p, k) == MakeUpdate(Sets!Min(Attested(p, k)), TRUE)

(* Its answer to a request for the updates of n periods from p on.         *)
CommitteeUpdates(p, n, k) ==
    LET len == Cardinality({q \in p .. p + n - 1 : Attested(q, k) # {}})
    IN  [i \in 1 .. len |-> UpdateOf(p + i - 1, k)]

-----------------------------------------------------------------------------
(* verify_update and verify_finality_update, at the expected current slot. *)
BringsCommittee(u, store) ==
    ~store.next /\ u.next /\ Period(u.att) = Period(store.slot)

Verifies(u, expected, store) ==
    /\ u.sig <= expected
    /\ \/ Period(u.sig) = Period(store.slot)
       \/ store.next /\ Period(u.sig) = Period(store.slot) + 1
    /\ u.att > store.slot \/ BringsCommittee(u, store)

(* apply_update and apply_finality_update                                  *)
Apply(u, store) ==
    LET good == \/ u.fin > store.slot
                \/ ~store.next /\ u.next /\ Period(u.fin) = Period(u.att)
    IN IF ~good THEN store
       ELSE [slot |-> IF u.fin > store.slot THEN u.fin ELSE store.slot,
             next |-> IF ~store.next \/ Period(u.fin) = Period(store.slot) + 1
                        THEN u.next ELSE store.next]

(* verify and apply: the resulting store, or Rejected.                     *)
Rejected == [slot |-> -1, next |-> FALSE]

VerifyAndApply(u, expected, store) ==
    IF Verifies(u, expected, store) THEN Apply(u, store) ELSE Rejected
=============================================================================
