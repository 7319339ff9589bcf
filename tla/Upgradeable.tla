----------------------------- MODULE Upgradeable -----------------------------
(***************************************************************************)
(* The upgradeable contract src/upgradeable/lib.rs: an administrator       *)
(* proposes new code, others approve, and the approval that reaches the    *)
(* quorum executes the upgrade.  The new code is taken to be this contract *)
(* again.                                                                  *)
(***************************************************************************)
EXTENDS Soroban, FiniteSets, Functions

CONSTANTS
    AdminCount,     \* 5 in the code
    Quorum,         \* 3 in the code
    Schemas         \* schema versions; 0 asks for nothing

NoProposal == [count |-> 0, executed |-> FALSE, required |-> 0, new |-> 0]

\* history is who has approved the proposal, since it was made.
TypeOK ==
    /\ store \in [admins : [1..AdminCount -> Somebody], version : Nat,
                  schema : Nat, approval : SUBSET Addresses,
                  proposal : [count : Nat, executed : BOOLEAN,
                              required : Schemas, new : Schemas],
                  registry : BOOLEAN]
    /\ history \in SUBSET Addresses

Init ==
    /\ Deployed("upgradeable")
    /\ store = [admins |-> [i \in 1..AdminCount |-> Nobody], version |-> 0,
                schema |-> 1, approval |-> {}, proposal |-> NoProposal,
                registry |-> FALSE]
    /\ history = {}
    /\ held = 0

Initialized == store.version > 0
Admins == Range(store.admins)
Pending == store.proposal # NoProposal /\ ~store.proposal.executed

\* The list is not checked for duplicates.
Initialize(list) ==
    /\ Call("upgradeable")
    /\ ~Initialized
    /\ store' = [store EXCEPT !.admins = list, !.version = 1, !.schema = 1]
    /\ UNCHANGED <<held, history>>

SetSecurityRegistry ==
    /\ Call("upgradeable")
    /\ ~store.registry
    /\ store' = [store EXCEPT !.registry = TRUE]
    /\ UNCHANGED <<held, history>>

\* Refused while any proposal is stored, an executed one too.
ProposeUpgrade(admin, required, new) ==
    /\ Call("upgradeable")
    /\ Initialized /\ admin \in Admins
    /\ store.proposal = NoProposal
    /\ store' = [store EXCEPT !.approval = @ \cup {admin},
          !.proposal = [count |-> 1, executed |-> FALSE,
                        required |-> required, new |-> new]]
    /\ history' = {admin}
    /\ UNCHANGED held

\* mutant: an administrator may approve twice
ApproveUpgrade_Again(admin, paused) ==
    LET p == [store.proposal EXCEPT !.count = @ + 1] IN
    /\ Call("upgradeable")
    /\ Initialized /\ admin \in Admins
    /\ Pending
    /\ history' = history \cup {admin}
    /\ UNCHANGED held
    /\ IF p.count < Quorum
       THEN store' = [store EXCEPT !.approval = @ \cup {admin}, !.proposal = p]
       ELSE store' = [store EXCEPT !.version = @ + 1, !.proposal.executed = TRUE]

\* execute_upgrade: what the approval that reaches the quorum does
Execute(p, paused) ==
    /\ ~(store.registry /\ paused)
    /\ p.required \in {0, store.schema}
    /\ store' = [store EXCEPT
          !.version = @ + 1,
          !.proposal = [p EXCEPT !.executed = TRUE],
          !.schema = IF p.new > @ THEN p.new ELSE @,
          !.approval = @ \ Admins]

ApproveUpgrade(admin, paused) ==
    LET p == [store.proposal EXCEPT !.count = @ + 1] IN
    /\ Call("upgradeable")
    /\ Initialized /\ admin \in Admins
    /\ Pending
    /\ admin \notin store.approval
    /\ history' = history \cup {admin}
    /\ UNCHANGED held
    /\ \/ /\ p.count < Quorum
          /\ store' = [store EXCEPT !.approval = @ \cup {admin}, !.proposal = p]
       \/ p.count >= Quorum /\ Execute(p, paused)

\* Only the present administrators' approvals are cleared.
CancelUpgrade(admin) ==
    /\ Call("upgradeable")
    /\ Initialized /\ admin \in Admins
    /\ Pending
    /\ store' = [store EXCEPT !.proposal = NoProposal, !.approval = @ \ Admins]
    /\ UNCHANGED <<held, history>>

\* One administrator suffices; an approval of the old one stays counted.
ReplaceAdmin(proposer, old, new) ==
    LET first == CHOOSE i \in 1..AdminCount : /\ store.admins[i] = old
                    /\ \A j \in 1..(i - 1) : store.admins[j] # old
    IN  /\ Call("upgradeable")
        /\ Initialized /\ {proposer, old} \subseteq Admins
        /\ new \notin Admins
        /\ store' = [store EXCEPT !.admins[first] = new]
        /\ UNCHANGED <<held, history>>

Next ==
    \/ \E list \in [1..AdminCount -> Addresses] : Initialize(list)
    \/ SetSecurityRegistry
    \/ \E a \in Addresses :
          \/ \E required, new \in Schemas : ProposeUpgrade(a, required, new)
          \/ \E paused \in BOOLEAN : ApproveUpgrade(a, paused)
          \/ CancelUpgrade(a)
          \/ \E old, new \in Addresses : ReplaceAdmin(a, old, new)

Spec == Init /\ [][Next]_vars

------------------------------------------------------------------------------
(* Properties *)

\* Whatever the order of proposals, cancellations and replacements of
\* administrators, new code has the approval of a quorum of different
\* addresses that were administrators when they approved, all given to this very
\* proposal.  ReplaceAdmin needs one administrator, where lib.rs:431 says three.
UpgradedByQuorumStep ==
    store.version > 0 /\ store'.version # store.version =>
       Cardinality(history') >= Quorum
UpgradedByQuorum == [][UpgradedByQuorumStep]_vars

------------------------------------------------------------------------------
(* What a comment says and the code does not do *)

\* "Requires 3 out of 5 approvals to execute" (lib.rs:431): the proposer's own suffices.
ReplacedByQuorumStep ==
    store.version > 0 /\ store'.admins # store.admins => Cardinality(history) >= Quorum
ReplacedByQuorum == [][ReplacedByQuorumStep]_vars
==============================================================================
