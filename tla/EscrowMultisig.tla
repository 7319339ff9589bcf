---------------------------- MODULE EscrowMultisig ----------------------------
(***************************************************************************)
(* The m-of-n escrow src/escrow_multisig/lib.rs, for one token: enough of  *)
(* the signers together release the whole balance to the recipient, as     *)
(* often as tokens come in.                                                *)
(***************************************************************************)
EXTENDS Soroban, Sequences, Functions, FiniteSets

CONSTANTS MaxSigners    \* bound on the signers that are listed

\* history is who authorised the last release, and what was ever paid to whom.
TypeOK ==
    /\ store.recipient \in Somebody
    /\ store.signers \in Seq(Addresses) /\ store.threshold \in Nat
    /\ history.by \subseteq Addresses /\ history.in \in Nat
    /\ held \in Nat

Init ==
    /\ Deployed("multisig")
    /\ store = [signers |-> <<>>, threshold |-> 0, recipient |-> Nobody]
    /\ history = [by |-> {}, out |-> 0, in |-> 0]
    /\ held = 0

Lists == UNION {[1..n -> Addresses] : n \in 0..MaxSigners}

\* The list is not checked for duplicates.
Initialize(signers, threshold, recipient) ==
    /\ Call("multisig")
    /\ store.recipient = Nobody
    /\ threshold \in 1..Len(signers)
    /\ store' = [signers |-> signers, threshold |-> threshold,
                 recipient |-> recipient]
    /\ UNCHANGED <<held, history>>

\* The list is strictly sorted, which an injective list stands for.
Release(list) ==
    /\ Call("multisig")
    /\ store.recipient # Nobody
    /\ Len(list) >= store.threshold
    /\ IsInjective(list)
    /\ Range(list) \subseteq Range(store.signers)
    /\ held > 0
    /\ held' = 0
    /\ history' = [history EXCEPT !.by = Range(list), !.out = @ + held]
    /\ UNCHANGED store

Deposit ==
    /\ Call("multisig")
    /\ history.in < MaxAmount
    /\ held' = held + 1
    /\ history' = [history EXCEPT !.in = @ + 1]
    /\ UNCHANGED store

Next ==
    \/ \E list \in Lists, n \in 1..MaxSigners, to \in Addresses :
          Initialize(list, n, to)
    \/ \E list \in Lists : Release(list)
    \/ Deposit

Spec == Init /\ [][Next]_vars

------------------------------------------------------------------------------
(* Properties *)

\* No token leaves without as many different signers as the threshold asks
\* for, however the caller lists them and however often tokens come in.
ReleasedByQuorum ==
    /\ history.out > 0 => Cardinality(history.by) >= store.threshold
    /\ held + history.out = history.in
==============================================================================
