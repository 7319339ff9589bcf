-------------------------------- MODULE Proxy --------------------------------
(***************************************************************************)
(* The upgradeable proxy src/proxy/lib.rs.  The admin swaps the            *)
(* implementation that calls are forwarded to after a time lock; the       *)
(* proxy's own code is replaced after a time lock and enough approvals.    *)
(* The code that replaces it is taken to be this contract again.           *)
(***************************************************************************)
EXTENDS Soroban, FiniteSets

CONSTANTS
    Codes,          \* implementations and wasm hashes
    Broken,         \* one with another interface, and the all-zero hash
    MaxApprovers,   \* MAX_APPROVERS
    MaxRequired,    \* bound on the approvals that are required
    MaxApprovals    \* bound on the approvals that are counted

DefaultRequired == 2

\* history.code is the code that runs, .requested the code last requested,
\* .approvals and .approvedBy the approvals since and who gave them.
TypeOK ==
    /\ store \in [admin : Somebody, implementation : Codes \cup {Nobody},
                  pendingImplementation : Codes \cup {Nobody},
                  implementationUnlocksAt : Nat,
                  pendingWasm : Codes \cup {Nobody}, unlocksAt : Nat,
                  approvers : SUBSET Addresses, count : Nat, required : Nat]
    /\ Cardinality(store.approvers) <= MaxApprovers
    /\ now \in Nat

Init ==
    /\ Deployed("proxy")
    /\ store = [admin |-> Nobody, implementation |-> Nobody,
                pendingImplementation |-> Nobody, implementationUnlocksAt |-> 0,
                pendingWasm |-> Nobody, unlocksAt |-> 0,
                approvers |-> {}, count |-> 0, required |-> DefaultRequired]
    /\ history = [code |-> Nobody, requested |-> Nobody,
                  approvals |-> 0, approvedBy |-> {}]
    /\ held = 0

Initialized == store.admin # Nobody

Initialize(admin, implementation) ==
    /\ Call("proxy")
    /\ ~Initialized
    /\ implementation # Broken
    /\ store' = [store EXCEPT !.admin = admin,
                              !.implementation = implementation]
    /\ UNCHANGED <<held, history>>

------------------------------------------------------------------------------
(* The implementation *)

\* mutant: an earlier request's unlock time is kept
RequestImplementationUpgrade_KeepsUnlock(new) ==
    /\ Call("proxy")
    /\ Initialized
    /\ store' = [store EXCEPT !.pendingImplementation = new,
          !.implementationUnlocksAt = IF @ = 0 THEN now + Delay ELSE @]
    /\ UNCHANGED <<held, history>>

RequestImplementationUpgrade(new) ==
    /\ Call("proxy")
    /\ Initialized
    /\ store' = [store EXCEPT !.pendingImplementation = new,
                              !.implementationUnlocksAt = now + Delay]
    /\ UNCHANGED <<held, history>>

Upgrade(new) ==
    /\ Call("proxy")
    /\ Initialized
    /\ store.pendingImplementation = new
    /\ now >= store.implementationUnlocksAt
    /\ new # Broken
    /\ store' = [store EXCEPT !.implementation = new,
                              !.pendingImplementation = Nobody,
                              !.implementationUnlocksAt = 0]
    /\ UNCHANGED <<held, history>>

TransferAdmin(new) ==
    /\ Call("proxy")
    /\ Initialized
    /\ store' = [store EXCEPT !.admin = new]
    /\ UNCHANGED <<held, history>>

------------------------------------------------------------------------------
(* The proxy's own code *)

AddApprover(a) ==
    /\ Call("proxy")
    /\ Initialized
    /\ Cardinality(store.approvers) < MaxApprovers
    /\ a \notin store.approvers
    /\ store' = [store EXCEPT !.approvers = @ \cup {a}]
    /\ UNCHANGED <<held, history>>

RemoveApprover(a) ==
    /\ Call("proxy")
    /\ Initialized
    /\ a \in store.approvers
    /\ store' = [store EXCEPT !.approvers = @ \ {a}]
    /\ UNCHANGED <<held, history>>

SetRequiredApprovals(n) ==
    /\ Call("proxy")
    /\ Initialized
    /\ store' = [store EXCEPT !.required = n]
    /\ UNCHANGED <<held, history>>

RequestUpgrade(hash) ==
    /\ Call("proxy")
    /\ Initialized
    /\ hash # Broken
    /\ store' = [store EXCEPT !.pendingWasm = hash, !.unlocksAt = now + Delay,
                              !.count = 0]
    /\ history' = [history EXCEPT !.requested = hash, !.approvals = 0,
                                  !.approvedBy = {}]
    /\ UNCHANGED held

ApproveUpgrade(a) ==
    /\ Call("proxy")
    /\ store.pendingWasm # Nobody
    /\ a \in store.approvers
    /\ store.count < MaxApprovals
    /\ store' = [store EXCEPT !.count = @ + 1]
    /\ history' = [history EXCEPT !.approvals = @ + 1, !.approvedBy = @ \cup {a}]
    /\ UNCHANGED held

ExecuteUpgrade ==
    /\ Call("proxy")
    /\ store.pendingWasm # Nobody
    /\ now >= store.unlocksAt
    /\ store.count >= store.required
    /\ history' = [history EXCEPT !.code = store.pendingWasm]
    /\ store' = [store EXCEPT !.pendingWasm = Nobody, !.unlocksAt = 0,
                              !.count = 0]
    /\ UNCHANGED held

CancelUpgrade ==
    /\ Call("proxy")
    /\ store.pendingWasm # Nobody
    /\ store' = [store EXCEPT !.pendingWasm = Nobody, !.unlocksAt = 0,
                              !.count = 0]
    /\ UNCHANGED <<held, history>>

Next ==
    \/ \E a \in Addresses, c \in Codes : Initialize(a, c)
    \/ \E c \in Codes : \/ RequestImplementationUpgrade(c) \/ Upgrade(c)
                        \/ RequestUpgrade(c)
    \/ \E a \in Addresses : \/ TransferAdmin(a) \/ AddApprover(a)
                            \/ RemoveApprover(a) \/ ApproveUpgrade(a)
    \/ \E n \in 1..MaxRequired : SetRequiredApprovals(n)
    \/ ExecuteUpgrade \/ CancelUpgrade
    \/ TimePasses

Spec == Init /\ [][Next]_vars

------------------------------------------------------------------------------
(* Properties *)

\* Neither the implementation nor the proxy's code changes, whatever the order
\* of requests, replacements, cancellations and changes of admin, except to
\* what stood requested for the whole delay.
Swap == INSTANCE TimelockedChange WITH
    None <- Nobody, value <- store.implementation,
    proposed <- store.pendingImplementation,
    notBefore <- store.implementationUnlocksAt, clock <- now
ImplementationIsTimelocked == Swap!Spec

CodeChange == INSTANCE TimelockedChange WITH
    None <- Nobody, value <- history.code, proposed <- store.pendingWasm,
    notBefore <- store.unlocksAt, clock <- now

\* The proxy's code is replaced only by code for which the required number of
\* approvals came in: none given to an earlier request counts.
CodeIsApprovedStep ==
    history'.code # history.code =>
       /\ history.requested = history'.code
       /\ history.approvals >= store.required
CodeIsApproved == [][CodeIsApprovedStep]_vars

\* "2-of-N multi-sig" (lib.rs:29): that many different approvers have approved.
ApproversAreDistinctStep ==
    history'.code # history.code =>
       Cardinality(history.approvedBy) >= store.required
ApproversAreDistinct == [][ApproversAreDistinctStep]_vars
==============================================================================
