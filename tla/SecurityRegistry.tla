--------------------------- MODULE SecurityRegistry ---------------------------
(***************************************************************************)
(* The registry src/security_registry/lib.rs whose pause flags the other   *)
(* contracts ask for, and the two-step transfer of its super admin.        *)
(***************************************************************************)
EXTENDS Soroban

Flags == [deposits : BOOLEAN, withdrawals : BOOLEAN, swaps : BOOLEAN]

NoProposal == [by |-> Nobody, to |-> Nobody]

\* history is the last proposal that was not withdrawn.
TypeOK ==
    /\ store \in [superAdmin : Somebody, pendingAdmin : Somebody,
                  isPaused : BOOLEAN, pauseFlags : Flags,
                  contractPaused : SUBSET Addresses]
    /\ history \in [by : Somebody, to : Somebody]

Init ==
    /\ Deployed("registry")
    /\ store = [superAdmin |-> Nobody, pendingAdmin |-> Nobody,
                isPaused |-> FALSE,
                pauseFlags |-> [f \in {"deposits", "withdrawals", "swaps"} |-> FALSE],
                contractPaused |-> {}]
    /\ history = NoProposal
    /\ held = 0

\* A call that the super admin must make.
AdminCall(admin) == Call("registry") /\ admin \in Addresses /\ store.superAdmin = admin

Initialize(admin) ==
    /\ Call("registry")
    /\ store.superAdmin = Nobody
    /\ store' = [store EXCEPT !.superAdmin = admin, !.isPaused = FALSE]
    /\ UNCHANGED <<held, history>>

ProposeAdmin(current, proposed) ==
    /\ AdminCall(current)
    /\ proposed # current
    /\ store' = [store EXCEPT !.pendingAdmin = proposed]
    /\ history' = [by |-> current, to |-> proposed]
    /\ UNCHANGED held

AcceptAdmin(proposed) ==
    /\ Call("registry")
    /\ store.pendingAdmin = proposed
    /\ store' = [store EXCEPT !.superAdmin = proposed, !.pendingAdmin = Nobody]
    /\ UNCHANGED <<held, history>>

CancelAdminProposal(current) ==
    /\ AdminCall(current)
    /\ store.pendingAdmin # Nobody
    /\ store' = [store EXCEPT !.pendingAdmin = Nobody]
    /\ history' = NoProposal
    /\ UNCHANGED held

SetPause(admin, on) ==                                   \* pause, unpause
    /\ AdminCall(admin)
    /\ store' = [store EXCEPT !.isPaused = on]
    /\ UNCHANGED <<held, history>>

SetPauseFlags(admin, flags) ==
    /\ AdminCall(admin)
    /\ store' = [store EXCEPT !.pauseFlags = flags]
    /\ UNCHANGED <<held, history>>

\* pause_contract, unpause_contract
SetContractPaused(admin, id, on) ==
    /\ AdminCall(admin)
    /\ store' = [store EXCEPT !.contractPaused = IF on THEN @ \cup {id} ELSE @ \ {id}]
    /\ UNCHANGED <<held, history>>

Next ==
    \E a, b \in Addresses, on \in BOOLEAN :
        \/ Initialize(a) \/ ProposeAdmin(a, b)
        \/ AcceptAdmin(a) \/ CancelAdminProposal(a)
        \/ SetPause(a, on) \/ SetContractPaused(a, b, on)
        \/ \E flags \in Flags : SetPauseFlags(a, flags)

Spec == Init /\ [][Next]_vars

------------------------------------------------------------------------------
(* Properties *)

\* Every transfer is agreed by both sides: the super admin changes only to the
\* address that the present super admin last proposed and did not withdraw.
BothSidesAgreeStep ==
    store.superAdmin # Nobody /\ store'.superAdmin # store.superAdmin =>
       history = [by |-> store.superAdmin, to |-> store'.superAdmin]
BothSidesAgree == [][BothSidesAgreeStep]_vars
==============================================================================
