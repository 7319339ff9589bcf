-------------------------- MODULE MCContracts_proofs --------------------------
(* Theorems about the contracts, for every set of addresses and for all delays, *)
(* limits and bounds that satisfy the assumptions of MCContracts.  A contract's *)
(* inductive invariant comes first, then that its deployment and its calls keep *)
(* it; the theorems at the end put the contracts together.                      *)
EXTENDS MCContracts, Sequences, FiniteSetTheorems, TLAPS, WellFoundedInduction

------------------------------------------------------------------------------
(* The timelocked escrow *)

\* A pending change is the last proposal of the key designated now.
PendingIsLastProposal ==
    pending # NoPending =>
        /\ proposal.by = recoveryKey /\ recoveryKey # Nobody
        /\ keySince <= proposal.at
        /\ pending.effectiveAt = proposal.at + Delay
        /\ pending.newBeneficiary \in Addresses

\* Nothing is paid before the escrow is settled, a cancelled escrow is settled,
\* and what is not initialised is neither settled nor has a recovery key; what
\* is has a beneficiary.
PaidWhenSettled ==
    /\ ~refundClaimed => received = [a \in Addresses |-> 0]
    /\ cancelled => refundClaimed
    /\ refundClaimed => Initialized
    /\ recoveryKey # Nobody => Initialized
    /\ Initialized => recipient \in Addresses

KeySetInThePast == keySince <= now

EscrowInv == TypeOK /\ PendingIsLastProposal /\ PaidWhenSettled /\ KeySetInThePast
            /\ OnePayee

------------------------------------------------------------------------------
(* Paying out when nothing was paid before leaves one address paid. *)
LEMMA PayOutPaysOne ==
    ASSUME TypeOK, NEW to \in Addresses, PayOut(to),
           received = [a \in Addresses |-> 0]
    PROVE  /\ balance' \in Nat
           /\ received' \in [Addresses -> Nat]
           /\ OnePayee'
<1>1. /\ balance' = 0
      /\ received' = [received EXCEPT ![to] = @ + balance]
      /\ balance \in Nat
  BY DEF PayOut, TypeOK
<1>2. \A a \in Addresses : received'[a] = IF a = to THEN balance ELSE 0
  BY <1>1
<1> QED BY <1>1, <1>2 DEF OnePayee

LEMMA EscrowInit == Init => EscrowInv
<1> SUFFICES ASSUME Init PROVE EscrowInv
  OBVIOUS
<1> USE DEF Init
<1>1. TypeOK
  BY DEF TypeOK, Somebody, NoPending
<1>2. PendingIsLastProposal /\ PaidWhenSettled /\ KeySetInThePast
  BY DEF PendingIsLastProposal, PaidWhenSettled, KeySetInThePast, Initialized
<1>3. OnePayee
  BY DEF OnePayee
<1> QED BY <1>1, <1>2, <1>3 DEF EscrowInv

(* Every step keeps the invariant. *)
LEMMA EscrowStep == EscrowInv /\ [Next]_vars => EscrowInv'
<1> SUFFICES ASSUME EscrowInv, [Next]_vars PROVE EscrowInv'
  OBVIOUS
<1> USE EscrowAssumption
<1>t. TypeOK /\ PendingIsLastProposal /\ PaidWhenSettled /\ KeySetInThePast
        /\ OnePayee
  BY DEF EscrowInv
<1>1. ASSUME NEW from \in Addresses, NEW to \in Addresses,
             NEW unlock \in 0..MaxTime, Initialize(from, to, 1, unlock)
      PROVE  EscrowInv'
  <2>0. unlock \in Nat /\ balance + 1 \in Nat
    BY <1>t DEF TypeOK
  <2>1. TypeOK'
    BY <1>t, <1>1, <2>0
    DEF TypeOK, Initialize, Somebody, environment, ghosts
  <2>2. /\ received' = [a \in Addresses |-> 0]
        /\ pending = NoPending
    BY <1>t, <1>1 DEF Initialize, PaidWhenSettled, PendingIsLastProposal
  <2>3. Initialized'
    BY <1>1 DEF Initialize, Initialized
  <2> QED
    BY <1>t, <1>1, <2>1, <2>2, <2>3
    DEF Initialize, EscrowInv, PaidWhenSettled, PendingIsLastProposal,
        KeySetInThePast, OnePayee, environment, ghosts
<1>2. ASSUME NEW to \in Addresses, PayOut(to), refundClaimed' = TRUE,
             cancelled' \in BOOLEAN, ~refundClaimed, Initialized,
             UNCHANGED <<details, pending, environment, ghosts>>
      PROVE  EscrowInv'
  <2>1. /\ balance' \in Nat
        /\ received' \in [Addresses -> Nat]
        /\ OnePayee'
    BY <1>t, <1>2, PayOutPaysOne DEF PaidWhenSettled
  <2>2. TypeOK'
    BY <1>t, <1>2, <2>1 DEF TypeOK, details, environment, ghosts
  <2> QED
    BY <1>t, <1>2, <2>1, <2>2
    DEF EscrowInv, PaidWhenSettled, PendingIsLastProposal, KeySetInThePast,
        details, environment, ghosts, Initialized
<1>3. CASE CancelEscrow
  <2>1. sender \in Addresses
    BY <1>t, <1>3 DEF CancelEscrow, Active, Initialized, TypeOK, Somebody
  <2> QED BY <1>2, <1>3, <2>1 DEF CancelEscrow, Active
<1>4. CASE Claim
  <2>1. recipient \in Addresses
    BY <1>t, <1>4 DEF Claim, Active, PaidWhenSettled
  <2> QED BY <1>t, <1>2, <1>4, <2>1 DEF Claim, Active, TypeOK
<1>5. CASE Refund
  <2>1. sender \in Addresses
    BY <1>t, <1>5 DEF Refund, Initialized, TypeOK, Somebody
  <2> QED BY <1>t, <1>2, <1>5, <2>1 DEF Refund, TypeOK
<1>6. ASSUME NEW key \in Somebody, SetRecoveryKey(key)
      PROVE  EscrowInv'
  <2>1. TypeOK'
    BY <1>t, <1>6
    DEF TypeOK, SetRecoveryKey, Somebody, NoPending, settlement, environment
  <2> QED
    BY <1>t, <1>6, <2>1
    DEF SetRecoveryKey, Active, EscrowInv, PaidWhenSettled, PendingIsLastProposal,
        KeySetInThePast, OnePayee, Initialized, settlement, environment, TypeOK
<1>7. ASSUME NEW new \in Addresses, UpdateBeneficiary(new)
      PROVE  EscrowInv'
  <2>1. TypeOK'
    BY <1>t, <1>7
    DEF TypeOK, UpdateBeneficiary, Somebody, details, settlement, environment
  <2>2. PendingIsLastProposal'
    BY <1>t, <1>7
    DEF PendingIsLastProposal, UpdateBeneficiary, KeySetInThePast, details
  <2> QED
    BY <1>t, <1>7, <2>1, <2>2
    DEF UpdateBeneficiary, EscrowInv, PaidWhenSettled, KeySetInThePast, OnePayee,
        Initialized, details, settlement, environment
<1>8. CASE ExecuteBeneficiaryUpdate
  <2>1. TypeOK'
    BY <1>t, <1>8
    DEF TypeOK, ExecuteBeneficiaryUpdate, PendingIsLastProposal, Somebody,
        NoPending, settlement, environment, ghosts
  <2> QED
    BY <1>t, <1>8, <2>1
    DEF ExecuteBeneficiaryUpdate, EscrowInv, PaidWhenSettled, KeySetInThePast,
        PendingIsLastProposal, OnePayee, Initialized, settlement, environment,
        ghosts
<1>9. CASE CancelBeneficiaryUpdate
  <2>1. TypeOK'
    BY <1>t, <1>9
    DEF TypeOK, CancelBeneficiaryUpdate, Somebody, NoPending, details,
        settlement, environment, ghosts
  <2> QED
    BY <1>t, <1>9, <2>1
    DEF CancelBeneficiaryUpdate, EscrowInv, PaidWhenSettled, KeySetInThePast,
        PendingIsLastProposal, OnePayee, Initialized, details, settlement,
        environment, ghosts
<1>10. CASE MarkConditionsMet \/ SetSecurityRegistry \/ SetPaused \/ Deposit
              \/ TimePasses
  <2>1. UNCHANGED <<sender, recipient, unlockTime, recoveryKey, pending,
                    settlement, ghosts>>
    BY <1>10
    DEF MarkConditionsMet, SetSecurityRegistry, SetPaused, Deposit,
        TimePasses, details, environment
  <2>2. /\ now' \in Nat /\ now' >= now
        /\ balance' \in Nat
    BY <1>t, <1>10
    DEF TypeOK, MarkConditionsMet, SetSecurityRegistry, SetPaused, Deposit,
        TimePasses, environment
  <2>3. /\ conditionsMet' \in BOOLEAN /\ registry' \in BOOLEAN
        /\ paused' \in BOOLEAN
    BY <1>t, <1>10, Zenon
    DEF TypeOK, MarkConditionsMet, SetSecurityRegistry, SetPaused, Deposit,
        TimePasses, details, environment
  <2>4. TypeOK'
    BY <1>t, <2>1, <2>2, <2>3 DEF TypeOK, settlement, ghosts
  <2> QED
    BY <1>t, <2>1, <2>2, <2>4
    DEF EscrowInv, PaidWhenSettled, KeySetInThePast, PendingIsLastProposal,
        OnePayee, Initialized, settlement, ghosts, TypeOK
<1>11. CASE UNCHANGED vars
  BY <1>t, <1>11
  DEF EscrowInv, TypeOK, PaidWhenSettled, KeySetInThePast, PendingIsLastProposal,
      OnePayee, Initialized, vars, details, settlement, environment, ghosts
<1> QED
  BY <1>1, <1>3, <1>4, <1>5, <1>6, <1>7, <1>8, <1>9, <1>10, <1>11 DEF Next

LEMMA EscrowInvariance == Spec => []EscrowInv
<1> QED BY EscrowInit, EscrowStep, PTL DEF Spec

------------------------------------------------------------------------------
(* Every field always holds a value of its type. *)
THEOREM EscrowTyped == Spec => []TypeOK
<1>1. EscrowInv => TypeOK
  BY DEF EscrowInv
<1> QED BY EscrowInvariance, <1>1, PTL

(* Claim, refund and cancellation exclude each other: at most one address is *)
(* ever paid from the escrow, whatever the order of calls.                   *)
THEOREM SinglePayee == Spec => []OnePayee
<1>1. EscrowInv => OnePayee
  BY DEF EscrowInv
<1> QED BY EscrowInvariance, <1>1, PTL

(* No call changes the beneficiary, the recovery key or what was paid once   *)
(* the escrow is settled or cancelled.                                       *)
THEOREM Frozen == Spec => SettledIsFrozen
<1>1. EscrowInv /\ [Next]_vars =>
        [refundClaimed \/ cancelled =>
            UNCHANGED <<recipient, recoveryKey, received>>]_vars
  <2> SUFFICES ASSUME EscrowInv, Next, refundClaimed \/ cancelled
               PROVE  UNCHANGED <<recipient, recoveryKey, received>>
    OBVIOUS
  <2>1. refundClaimed /\ Initialized
    BY DEF EscrowInv, PaidWhenSettled
  <2> QED
    BY <2>1
    DEF Next, Initialize, MarkConditionsMet, CancelEscrow, Claim, Refund,
        SetRecoveryKey, UpdateBeneficiary, ExecuteBeneficiaryUpdate,
        CancelBeneficiaryUpdate, SetSecurityRegistry, SetPaused, Deposit,
        TimePasses, Active, details, settlement
<1> QED BY EscrowInvariance, <1>1, PTL DEF Spec, SettledIsFrozen

(* The beneficiary changes only after a proposal of the recovery key that is *)
(* still designated has stood for the whole delay.                           *)
THEOREM Waited == Spec => ChangeHasWaited
<1> DEFINE HasWaited ==
      Initialized /\ recipient' # recipient =>
          /\ proposal.by = recoveryKey /\ keySince <= proposal.at
          /\ now >= proposal.at + Delay
<1>1. EscrowInv /\ [Next]_vars => [HasWaited]_vars
  <2> SUFFICES ASSUME EscrowInv, Next, Initialized, recipient' # recipient
               PROVE  /\ proposal.by = recoveryKey /\ keySince <= proposal.at
                      /\ now >= proposal.at + Delay
    OBVIOUS
  <2>1. ExecuteBeneficiaryUpdate
    BY DEF Next, Initialize, MarkConditionsMet, CancelEscrow, Claim, Refund,
        SetRecoveryKey, UpdateBeneficiary, CancelBeneficiaryUpdate,
        SetSecurityRegistry, SetPaused, Deposit, TimePasses, details
  <2> QED
    BY <2>1 DEF ExecuteBeneficiaryUpdate, EscrowInv, PendingIsLastProposal
<1> QED BY EscrowInvariance, <1>1, PTL DEF Spec, ChangeHasWaited

------------------------------------------------------------------------------
(* The proxy *)

\* What is counted is what was approved of the request that is pending, and there is
\* no implementation before there is an admin.
ProxySafe ==
    /\ Proxy!TypeOK
    /\ history \in [code : Codes \cup {Nobody}, requested : Codes \cup {Nobody},
                    approvals : Nat, approvedBy : SUBSET Addresses]
    /\ IsFiniteSet(store.approvers)
    /\ store.admin = Nobody => store.implementation = Nobody
    /\ store.pendingWasm # Nobody =>
           history.requested = store.pendingWasm /\ history.approvals = store.count

LEMMA ProxyCardinality == \A S : Proxy!Cardinality(S) = Cardinality(S)
  BY DEF Proxy!Cardinality, Cardinality

LEMMA ProxyInit == Proxy!Init => ProxySafe
<1>1. IsFiniteSet({}) /\ Cardinality({}) = 0
  BY FS_EmptySet
<1> SUFFICES ASSUME Proxy!Init PROVE ProxySafe
  OBVIOUS
<1>2. Proxy!TypeOK /\ store.approvers = {} /\ store.implementation = Nobody
  BY <1>1, ProxyAssumption, ProxyCardinality
  DEF Proxy!Init, Proxy!TypeOK, Proxy!Deployed, Proxy!DefaultRequired, Proxy!Somebody
<1>3. store.pendingWasm = Nobody
  BY DEF Proxy!Init
<1>4. history \in [code : Codes \cup {Nobody}, requested : Codes \cup {Nobody},
                  approvals : Nat, approvedBy : SUBSET Addresses]
  BY DEF Proxy!Init
<1> QED BY <1>1, <1>2, <1>3, <1>4 DEF ProxySafe

LEMMA ProxyStep ==
    ASSUME ProxySafe, Proxy!Next
    PROVE  ProxySafe'
<1> USE EscrowAssumption, ProxyAssumption DEF Proxy!Somebody
<1>a. /\ store \in [admin : Somebody, implementation : Codes \cup {Nobody},
                    pendingImplementation : Codes \cup {Nobody},
                    implementationUnlocksAt : Nat,
                    pendingWasm : Codes \cup {Nobody}, unlocksAt : Nat,
                    approvers : SUBSET Addresses, count : Nat, required : Nat]
      /\ now \in Nat
  BY DEF ProxySafe, Proxy!TypeOK, Somebody
<1>1. ASSUME NEW a \in Addresses, NEW c \in Codes, Proxy!Initialize(a, c)
      PROVE  ProxySafe'
  BY <1>1, <1>a DEF ProxySafe, Proxy!TypeOK, Proxy!Initialize, Proxy!Call, Proxy!Initialized
<1>2. ASSUME NEW c \in Codes, Proxy!RequestImplementationUpgrade(c)
      PROVE  ProxySafe'
  <2>1. /\ store' = [[store EXCEPT !.pendingImplementation = c]
                        EXCEPT !.implementationUnlocksAt = now + UpgradeDelay]
        /\ now + UpgradeDelay \in Nat
    BY <1>2, <1>a DEF Proxy!RequestImplementationUpgrade
  <2> QED
    BY <1>2, <1>a, <2>1 DEF ProxySafe, Proxy!TypeOK, Proxy!RequestImplementationUpgrade, Proxy!Call, Proxy!Initialized
<1>3. ASSUME NEW c \in Codes, Proxy!Upgrade(c)
      PROVE  ProxySafe'
  BY <1>3, <1>a DEF ProxySafe, Proxy!TypeOK, Proxy!Upgrade, Proxy!Call, Proxy!Initialized
<1>4. ASSUME NEW c \in Codes, Proxy!RequestUpgrade(c)
      PROVE  ProxySafe'
  <2>1. now + UpgradeDelay \in Nat
    BY <1>a
  <2>2. store' = [admin |-> store.admin, implementation |-> store.implementation,
                  pendingImplementation |-> store.pendingImplementation,
                  implementationUnlocksAt |-> store.implementationUnlocksAt,
                  pendingWasm |-> c, unlocksAt |-> now + UpgradeDelay,
                  approvers |-> store.approvers, count |-> 0, required |-> store.required]
    BY <1>4, <1>a DEF Proxy!RequestUpgrade
  <2>3. history' = [code |-> history.code, requested |-> c, approvals |-> 0,
                    approvedBy |-> {}]
    BY <1>4 DEF Proxy!RequestUpgrade, ProxySafe
  <2> QED
    BY <1>4, <1>a, <2>1, <2>2, <2>3 DEF ProxySafe, Proxy!TypeOK, Proxy!RequestUpgrade, Proxy!Call
<1>5. ASSUME NEW a \in Addresses, Proxy!TransferAdmin(a)
      PROVE  ProxySafe'
  BY <1>5, <1>a DEF ProxySafe, Proxy!TypeOK, Proxy!TransferAdmin, Proxy!Call, Proxy!Initialized
<1>6. ASSUME NEW a \in Addresses, Proxy!AddApprover(a)
      PROVE  ProxySafe'
  <2>1. /\ IsFiniteSet(store.approvers \cup {a})
        /\ Cardinality(store.approvers \cup {a}) <= MaxApprovers
    <3>1. IsFiniteSet(store.approvers) /\ Cardinality(store.approvers) < MaxApprovers
          /\ a \notin store.approvers
      BY <1>6, ProxyCardinality DEF ProxySafe, Proxy!TypeOK, Proxy!AddApprover
    <3>2. Cardinality(store.approvers) \in Nat
      BY <3>1, FS_CardinalityType
    <3>3. /\ IsFiniteSet(store.approvers \cup {a})
          /\ Cardinality(store.approvers \cup {a}) = Cardinality(store.approvers) + 1
      BY <3>1, FS_AddElement
    <3> QED BY <3>1, <3>2, <3>3, ProxyAssumption
  <2>2. /\ store' = [store EXCEPT !.approvers = store.approvers \cup {a}]
        /\ store.approvers \cup {a} \in SUBSET Addresses
    BY <1>6, <1>a DEF Proxy!AddApprover
  <2>3. UNCHANGED <<history, now>>
    BY <1>6 DEF Proxy!AddApprover, Proxy!Call
  <2>4. store' \in [admin : Somebody, implementation : Codes \cup {Nobody},
                    pendingImplementation : Codes \cup {Nobody},
                    implementationUnlocksAt : Nat,
                    pendingWasm : Codes \cup {Nobody}, unlocksAt : Nat,
                    approvers : SUBSET Addresses, count : Nat, required : Nat]
    BY <1>a, <2>2
  <2>5. /\ store'.approvers = store.approvers \cup {a}
        /\ store'.admin = store.admin /\ store'.implementation = store.implementation
        /\ store'.pendingWasm = store.pendingWasm /\ store'.count = store.count
    BY <1>a, <2>2
  <2> QED
    BY <1>a, <2>1, <2>3, <2>4, <2>5, ProxyCardinality DEF ProxySafe, Proxy!TypeOK
<1>7. ASSUME NEW a \in Addresses, Proxy!RemoveApprover(a)
      PROVE  ProxySafe'
  <2>1. /\ IsFiniteSet(store.approvers \ {a})
        /\ Cardinality(store.approvers \ {a}) <= MaxApprovers
    <3>1. IsFiniteSet(store.approvers) /\ Cardinality(store.approvers) <= MaxApprovers
          /\ a \in store.approvers
      BY <1>7, ProxyCardinality DEF ProxySafe, Proxy!TypeOK, Proxy!RemoveApprover
    <3>2. Cardinality(store.approvers) \in Nat
      BY <3>1, FS_CardinalityType
    <3>3. /\ IsFiniteSet(store.approvers \ {a})
          /\ Cardinality(store.approvers \ {a}) = Cardinality(store.approvers) - 1
      BY <3>1, FS_RemoveElement
    <3> QED BY <3>1, <3>2, <3>3, ProxyAssumption
  <2>2. /\ store' = [store EXCEPT !.approvers = store.approvers \ {a}]
        /\ store.approvers \ {a} \in SUBSET Addresses
    BY <1>7, <1>a DEF Proxy!RemoveApprover
  <2>3. UNCHANGED <<history, now>>
    BY <1>7 DEF Proxy!RemoveApprover, Proxy!Call
  <2>4. store' \in [admin : Somebody, implementation : Codes \cup {Nobody},
                    pendingImplementation : Codes \cup {Nobody},
                    implementationUnlocksAt : Nat,
                    pendingWasm : Codes \cup {Nobody}, unlocksAt : Nat,
                    approvers : SUBSET Addresses, count : Nat, required : Nat]
    BY <1>a, <2>2
  <2>5. /\ store'.approvers = store.approvers \ {a}
        /\ store'.admin = store.admin /\ store'.implementation = store.implementation
        /\ store'.pendingWasm = store.pendingWasm /\ store'.count = store.count
    BY <1>a, <2>2
  <2> QED
    BY <1>a, <2>1, <2>3, <2>4, <2>5, ProxyCardinality DEF ProxySafe, Proxy!TypeOK
<1>8. ASSUME NEW a \in Addresses, Proxy!ApproveUpgrade(a)
      PROVE  ProxySafe'
  <2>1. store' = [store EXCEPT !.count = @ + 1] /\ store.count + 1 \in Nat
    BY <1>8, <1>a DEF Proxy!ApproveUpgrade
  <2>2. history' = [code |-> history.code, requested |-> history.requested,
                    approvals |-> history.approvals + 1,
                    approvedBy |-> history.approvedBy \cup {a}]
    BY <1>8 DEF Proxy!ApproveUpgrade, ProxySafe
  <2>3. now' = now
    BY <1>8 DEF Proxy!ApproveUpgrade, Proxy!Call
  <2>4. /\ Proxy!TypeOK' /\ IsFiniteSet(store'.approvers)
        /\ store'.pendingWasm = store.pendingWasm /\ store'.count = store.count + 1
        /\ store'.admin = store.admin /\ store'.implementation = store.implementation
    BY <1>a, <2>1, <2>3 DEF ProxySafe, Proxy!TypeOK
  <2> QED
    BY <1>8, <2>2, <2>4 DEF ProxySafe, Proxy!ApproveUpgrade
<1>9. ASSUME NEW n \in 1 .. MaxRequired, Proxy!SetRequiredApprovals(n)
      PROVE  ProxySafe'
  BY <1>9, <1>a DEF ProxySafe, Proxy!TypeOK, Proxy!SetRequiredApprovals, Proxy!Call
<1>10. CASE Proxy!ExecuteUpgrade
  BY <1>10, <1>a DEF ProxySafe, Proxy!TypeOK, Proxy!ExecuteUpgrade, Proxy!Call
<1>11. CASE Proxy!CancelUpgrade
  BY <1>11, <1>a DEF ProxySafe, Proxy!TypeOK, Proxy!CancelUpgrade, Proxy!Call
<1>12. CASE Proxy!TimePasses
  BY <1>12, <1>a DEF ProxySafe, Proxy!TypeOK, Proxy!TimePasses
<1> QED
  BY <1>1, <1>2, <1>3, <1>4, <1>5, <1>6, <1>7, <1>8, <1>9, <1>10, <1>11, <1>12
  DEF Proxy!Next

\* New code of the proxy has the approvals that its request requires.
LEMMA ProxyCode ==
    ASSUME ProxySafe, Proxy!Next
    PROVE  Proxy!CodeIsApprovedStep
<1>1. /\ store \in [admin : Somebody, implementation : Codes \cup {Nobody},
                    pendingImplementation : Codes \cup {Nobody},
                    implementationUnlocksAt : Nat,
                    pendingWasm : Codes \cup {Nobody}, unlocksAt : Nat,
                    approvers : SUBSET Addresses, count : Nat, required : Nat]
      /\ history \in [code : Codes \cup {Nobody}, requested : Codes \cup {Nobody},
                      approvals : Nat, approvedBy : SUBSET Addresses]
      /\ store.pendingWasm # Nobody =>
             history.requested = store.pendingWasm /\ history.approvals = store.count
  BY DEF ProxySafe, Proxy!TypeOK, Proxy!Somebody, Somebody
<1>2. ASSUME history'.code # history.code
      PROVE  Proxy!ExecuteUpgrade
  <2>1. history' # history
    BY <1>2
  <2>2. ASSUME NEW c \in Codes, Proxy!RequestUpgrade(c)
        PROVE  FALSE
    BY <1>1, <1>2, <2>2 DEF Proxy!RequestUpgrade
  <2>3. ASSUME NEW a \in Addresses, Proxy!ApproveUpgrade(a)
        PROVE  FALSE
    BY <1>1, <1>2, <2>3 DEF Proxy!ApproveUpgrade
  <2> QED
    BY <2>1, <2>2, <2>3
    DEF Proxy!Next, Proxy!Initialize, Proxy!RequestImplementationUpgrade, Proxy!Upgrade,
        Proxy!TransferAdmin, Proxy!AddApprover, Proxy!RemoveApprover,
        Proxy!SetRequiredApprovals, Proxy!CancelUpgrade, Proxy!TimePasses
<1> QED BY <1>1, <1>2 DEF Proxy!CodeIsApprovedStep, Proxy!ExecuteUpgrade

\* The proxy keeps both of its time locks: each of its calls is a step of the abstract
\* time lock or does not concern it.
LEMMA ProxyLocks ==
    ASSUME ProxySafe, Proxy!Next, contract = "proxy", contract' = "proxy"
    PROVE  /\ [ImplementationLock!Next]_ImplementationLock!vars
           /\ [CodeLock!Next]_CodeLock!vars
<1> USE ProxyAssumption DEF InProxy, ProxyTime
<1> DEFINE Idle == UNCHANGED <<store.implementation, store.pendingImplementation,
                               store.implementationUnlocksAt, now>>
           CodeIdle == UNCHANGED <<history.code, store.pendingWasm, store.unlocksAt, now>>
<1>a. /\ store \in [admin : Somebody, implementation : Codes \cup {Nobody},
                    pendingImplementation : Codes \cup {Nobody},
                    implementationUnlocksAt : Nat,
                    pendingWasm : Codes \cup {Nobody}, unlocksAt : Nat,
                    approvers : SUBSET Addresses, count : Nat, required : Nat]
      /\ history \in [code : Codes \cup {Nobody}, requested : Codes \cup {Nobody},
                      approvals : Nat, approvedBy : SUBSET Addresses]
      /\ store.admin = Nobody => store.implementation = Nobody
      /\ now \in Nat
  BY DEF ProxySafe, Proxy!TypeOK, Proxy!Somebody, Somebody
<1>b. Idle => UNCHANGED ImplementationLock!vars
  BY DEF ImplementationLock!vars
<1>c. CodeIdle => UNCHANGED CodeLock!vars
  BY DEF CodeLock!vars
<1>1. ASSUME NEW a \in Addresses, NEW c \in Codes, Proxy!Initialize(a, c)
      PROVE  ImplementationLock!Appoint /\ CodeIdle
  BY <1>1, <1>a
  DEF Proxy!Initialize, Proxy!Call, Proxy!Initialized, ImplementationLock!Appoint
<1>2. ASSUME NEW c \in Codes, Proxy!RequestImplementationUpgrade(c)
      PROVE  ImplementationLock!Propose /\ CodeIdle
  BY <1>2, <1>a
  DEF Proxy!RequestImplementationUpgrade, Proxy!Call, ImplementationLock!Propose
<1>3. ASSUME NEW c \in Codes, Proxy!Upgrade(c)
      PROVE  ImplementationLock!Apply /\ CodeIdle
  BY <1>3, <1>a DEF Proxy!Upgrade, Proxy!Call, ImplementationLock!Apply
<1>4. ASSUME NEW c \in Codes, Proxy!RequestUpgrade(c)
      PROVE  Idle /\ CodeLock!Propose
  BY <1>4, <1>a DEF Proxy!RequestUpgrade, Proxy!Call, CodeLock!Propose
<1>5. ASSUME NEW a \in Addresses,
             Proxy!TransferAdmin(a) \/ Proxy!AddApprover(a) \/ Proxy!RemoveApprover(a)
      PROVE  Idle /\ CodeIdle
  BY <1>5, <1>a
  DEF Proxy!TransferAdmin, Proxy!AddApprover, Proxy!RemoveApprover, Proxy!Call
<1>6. ASSUME NEW a \in Addresses, Proxy!ApproveUpgrade(a)
      PROVE  Idle /\ CodeIdle
  BY <1>6, <1>a DEF Proxy!ApproveUpgrade, Proxy!Call
<1>7. ASSUME NEW n \in 1 .. MaxRequired, Proxy!SetRequiredApprovals(n)
      PROVE  Idle /\ CodeIdle
  BY <1>7, <1>a DEF Proxy!SetRequiredApprovals, Proxy!Call
<1>8. CASE Proxy!ExecuteUpgrade
  <2>1. Idle /\ CodeLock!Apply
    BY <1>8, <1>a DEF Proxy!ExecuteUpgrade, Proxy!Call, CodeLock!Apply
  <2> QED BY <1>b, <2>1 DEF CodeLock!Next
<1>9. CASE Proxy!CancelUpgrade
  <2>1. Idle /\ CodeLock!Withdraw
    BY <1>9, <1>a DEF Proxy!CancelUpgrade, Proxy!Call, CodeLock!Withdraw
  <2> QED BY <1>b, <2>1 DEF CodeLock!Next
<1>10. CASE Proxy!TimePasses
  <2>1. ImplementationLock!Tick /\ CodeLock!Tick
    BY <1>10, <1>a DEF Proxy!TimePasses, ImplementationLock!Tick, CodeLock!Tick
  <2> QED BY <2>1 DEF ImplementationLock!Next, CodeLock!Next
<1> HIDE DEF Idle, CodeIdle
<1> QED
  BY <1>b, <1>c, <1>1, <1>2, <1>3, <1>4, <1>5, <1>6, <1>7, <1>8, <1>9, <1>10
  DEF Proxy!Next, ImplementationLock!Next, CodeLock!Next

------------------------------------------------------------------------------
(* The upgradeable contract *)

UpgradeableStore ==
    [admins : [1 .. AdminCount -> Somebody], version : Nat, schema : Nat,
     approval : SUBSET Addresses,
     proposal : [count : Nat, executed : BOOLEAN, required : Schemas, new : Schemas],
     registry : BOOLEAN]

\* The count of a pending proposal is of different administrators, each of whose
\* approvals is still marked.
UpgradeableSafe ==
    /\ Upgradeable!TypeOK
    /\ Upgradeable!Pending =>
           /\ history \subseteq store.approval
           /\ IsFiniteSet(history) /\ Cardinality(history) = store.proposal.count

LEMMA UpgradeableCardinality == \A S : Upgradeable!Cardinality(S) = Cardinality(S)
  BY DEF Upgradeable!Cardinality, Cardinality

LEMMA UpgradeableTyped == Upgradeable!TypeOK =>
    store \in UpgradeableStore /\ history \in SUBSET Addresses
  BY DEF Upgradeable!TypeOK, UpgradeableStore, Upgradeable!Somebody, Somebody

LEMMA UpgradeableInit == Upgradeable!Init => UpgradeableSafe
  BY UpgradeableAssumption
  DEF Upgradeable!Init, UpgradeableSafe, Upgradeable!TypeOK, Upgradeable!Pending,
      Upgradeable!NoProposal, Upgradeable!Somebody

\* One more administrator approves the pending proposal.
LEMMA ApprovalCounts ==
    ASSUME UpgradeableSafe, NEW a \in Addresses, Upgradeable!Pending, a \notin store.approval
    PROVE  /\ IsFiniteSet(history \cup {a})
           /\ Cardinality(history \cup {a}) = store.proposal.count + 1
<1>1. a \notin history /\ IsFiniteSet(history) /\ Cardinality(history) = store.proposal.count
  BY DEF UpgradeableSafe
<1> QED BY <1>1, FS_AddElement

\* What the approval that reaches the quorum does to the proposal.
LEMMA ExecutedProposal ==
    ASSUME store \in UpgradeableStore, NEW on \in BOOLEAN,
           NEW p \in [count : Nat, executed : BOOLEAN, required : Schemas, new : Schemas],
           Upgradeable!Execute(p, on)
    PROVE  /\ store' \in UpgradeableStore
           /\ store'.proposal.executed = TRUE
<1> USE UpgradeableAssumption
<1> DEFINE done == [p EXCEPT !.executed = TRUE]
           schema == IF p.new > store.schema THEN p.new ELSE store.schema
           rest == store.approval \ Upgradeable!Admins
<1>1. /\ done \in [count : Nat, executed : BOOLEAN, required : Schemas, new : Schemas]
      /\ done.executed = TRUE
  OBVIOUS
<1>2. schema \in Nat
  BY DEF UpgradeableStore
<1>3. rest \in SUBSET Addresses
  BY DEF UpgradeableStore
<1>4. store' = [store EXCEPT !.version = @ + 1, !.proposal = done, !.schema = schema,
                             !.approval = rest]
  BY DEF Upgradeable!Execute
<1> HIDE DEF done, schema, rest
<1>5. store' = [admins |-> store.admins, version |-> store.version + 1,
                schema |-> schema, approval |-> rest, proposal |-> done,
                registry |-> store.registry]
  BY <1>4 DEF UpgradeableStore
<1> QED BY <1>1, <1>2, <1>3, <1>5 DEF UpgradeableStore

LEMMA UpgradeableStep ==
    ASSUME UpgradeableSafe, Upgradeable!Next
    PROVE  UpgradeableSafe' /\ Upgradeable!UpgradedByQuorumStep
<1> USE EscrowAssumption, UpgradeableAssumption
<1> DEFINE Proposals == [count : Nat, executed : BOOLEAN, required : Schemas, new : Schemas]
<1>a. store \in UpgradeableStore /\ history \in SUBSET Addresses
  BY UpgradeableTyped DEF UpgradeableSafe
<1>b. ASSUME store' \in UpgradeableStore, history' = history,
             store'.version = store.version \/ store.version = 0,
             Upgradeable!Pending' => /\ store'.proposal = store.proposal
                                     /\ store.approval \subseteq store'.approval
      PROVE  UpgradeableSafe' /\ Upgradeable!UpgradedByQuorumStep
  BY <1>a, <1>b
  DEF UpgradeableSafe, Upgradeable!TypeOK, Upgradeable!Pending, UpgradeableStore,
      Upgradeable!UpgradedByQuorumStep, Upgradeable!Somebody, Somebody
<1>1. ASSUME NEW list \in [1 .. AdminCount -> Addresses], Upgradeable!Initialize(list)
      PROVE  UpgradeableSafe' /\ Upgradeable!UpgradedByQuorumStep
  <2>1. /\ store' = [store EXCEPT !.admins = list, !.version = 1, !.schema = 1]
        /\ list \in [1 .. AdminCount -> Somebody] /\ store.version = 0
    BY <1>1, <1>a
    DEF Upgradeable!Initialize, Upgradeable!Initialized, UpgradeableStore, Somebody
  <2>2. store' \in UpgradeableStore
    BY <1>a, <2>1 DEF UpgradeableStore
  <2>3. store'.proposal = store.proposal /\ store'.approval = store.approval
    BY <1>a, <2>1 DEF UpgradeableStore
  <2> QED BY <1>1, <1>b, <2>1, <2>2, <2>3 DEF Upgradeable!Initialize
<1>2. CASE Upgradeable!SetSecurityRegistry
  <2>1. /\ store' \in UpgradeableStore /\ store'.version = store.version
        /\ store'.proposal = store.proposal /\ store'.approval = store.approval
    BY <1>2, <1>a DEF Upgradeable!SetSecurityRegistry, UpgradeableStore
  <2> QED BY <1>2, <1>b, <2>1 DEF Upgradeable!SetSecurityRegistry
<1>3. ASSUME NEW a \in Addresses, NEW required \in Schemas, NEW new \in Schemas,
             Upgradeable!ProposeUpgrade(a, required, new)
      PROVE  UpgradeableSafe' /\ Upgradeable!UpgradedByQuorumStep
  <2> DEFINE p == [count |-> 1, executed |-> FALSE, required |-> required, new |-> new]
             marked == store.approval \cup {a}
  <2>1. p \in Proposals /\ p.count = 1 /\ marked \in SUBSET Addresses /\ a \in marked
    BY <1>a DEF UpgradeableStore
  <2>2. store' = [store EXCEPT !.approval = marked, !.proposal = p] /\ history' = {a}
    BY <1>3 DEF Upgradeable!ProposeUpgrade
  <2>3. IsFiniteSet({a}) /\ Cardinality({a}) = 1
    BY FS_Singleton
  <2> HIDE DEF p, marked
  <2>4. /\ store' \in UpgradeableStore /\ store'.version = store.version
        /\ store'.proposal = p /\ store'.approval = marked
    BY <1>a, <2>1, <2>2 DEF UpgradeableStore
  <2> QED
    BY <2>1, <2>2, <2>3, <2>4
    DEF UpgradeableSafe, Upgradeable!TypeOK, UpgradeableStore,
        Upgradeable!UpgradedByQuorumStep, Upgradeable!Somebody, Somebody
<1>4. ASSUME NEW a \in Addresses, NEW on \in BOOLEAN,
             Upgradeable!ApproveUpgrade(a, on)
      PROVE  UpgradeableSafe' /\ Upgradeable!UpgradedByQuorumStep
  <2> DEFINE p == [store.proposal EXCEPT !.count = @ + 1]
             marked == store.approval \cup {a}
  <2>1. /\ Upgradeable!Pending /\ a \notin store.approval /\ history' = history \cup {a}
        /\ \/ p.count < Quorum /\ store' = [store EXCEPT !.approval = marked, !.proposal = p]
           \/ p.count >= Quorum /\ Upgradeable!Execute(p, on)
    BY <1>4 DEF Upgradeable!ApproveUpgrade
  <2>2. IsFiniteSet(history') /\ Cardinality(history') = store.proposal.count + 1
    BY <2>1, ApprovalCounts
  <2>3. /\ p \in Proposals /\ p.count = store.proposal.count + 1
        /\ marked \in SUBSET Addresses /\ history' \in SUBSET Addresses
    <3>1. PICK q \in Proposals : q = store.proposal
      BY <1>a DEF UpgradeableStore
    <3>2. [q EXCEPT !.count = q.count + 1] \in Proposals
      OBVIOUS
    <3>3. marked \in SUBSET Addresses /\ history' \in SUBSET Addresses
      BY <1>a, <2>1 DEF UpgradeableStore
    <3>4. p = [q EXCEPT !.count = q.count + 1] /\ q.count \in Nat
      BY <3>1
    <3> HIDE DEF p
    <3> QED BY <3>1, <3>2, <3>3, <3>4
  <2>4. history \subseteq store.approval
    BY <2>1 DEF UpgradeableSafe
  <2>5. history' \subseteq marked
    BY <2>1, <2>4
  <2> HIDE DEF p, marked
  <2>6. CASE p.count < Quorum /\ store' = [store EXCEPT !.approval = marked, !.proposal = p]
    <3>1. /\ store' \in UpgradeableStore /\ store'.version = store.version
          /\ store'.proposal = p /\ store'.approval = marked
      BY <1>a, <2>3, <2>6 DEF UpgradeableStore
    <3> QED
      BY <2>2, <2>3, <2>5, <3>1
      DEF UpgradeableSafe, Upgradeable!TypeOK, UpgradeableStore,
          Upgradeable!UpgradedByQuorumStep, Upgradeable!Somebody, Somebody
  <2>7. CASE p.count >= Quorum /\ Upgradeable!Execute(p, on)
    <3>1. store' \in UpgradeableStore /\ store'.proposal.executed = TRUE
      BY <1>a, <2>3, <2>7, ExecutedProposal
    <3>2. ~Upgradeable!Pending'
      BY <3>1 DEF Upgradeable!Pending
    <3>3. Cardinality(history') >= Quorum
      BY <2>2, <2>3, <2>7
    <3> QED
      BY <2>3, <3>1, <3>2, <3>3, UpgradeableCardinality
      DEF UpgradeableSafe, Upgradeable!TypeOK, UpgradeableStore,
          Upgradeable!UpgradedByQuorumStep, Upgradeable!Somebody, Somebody
  <2> QED BY <2>1, <2>6, <2>7
<1>5. ASSUME NEW a \in Addresses, Upgradeable!CancelUpgrade(a)
      PROVE  UpgradeableSafe' /\ Upgradeable!UpgradedByQuorumStep
  <2> DEFINE rest == store.approval \ Upgradeable!Admins
  <2>1. /\ store' = [store EXCEPT !.proposal = Upgradeable!NoProposal, !.approval = rest]
        /\ rest \in SUBSET Addresses /\ Upgradeable!NoProposal \in Proposals
    BY <1>5, <1>a DEF Upgradeable!CancelUpgrade, Upgradeable!NoProposal, UpgradeableStore
  <2> HIDE DEF rest
  <2>2. /\ store' \in UpgradeableStore /\ store'.version = store.version
        /\ store'.proposal = Upgradeable!NoProposal
    BY <1>a, <2>1 DEF UpgradeableStore
  <2>3. ~Upgradeable!Pending'
    BY <2>2 DEF Upgradeable!Pending
  <2> QED BY <1>5, <1>b, <2>2, <2>3 DEF Upgradeable!CancelUpgrade
<1>6. ASSUME NEW a \in Addresses, NEW old \in Addresses, NEW new \in Addresses,
             Upgradeable!ReplaceAdmin(a, old, new)
      PROVE  UpgradeableSafe' /\ Upgradeable!UpgradedByQuorumStep
  <2>1. PICK i : store' = [store EXCEPT !.admins[i] = new]
    BY <1>6 DEF Upgradeable!ReplaceAdmin
  <2>2. store' = [store EXCEPT !.admins = [store.admins EXCEPT ![i] = new]]
    BY <2>1
  <2>3. [store.admins EXCEPT ![i] = new] \in [1 .. AdminCount -> Somebody]
    BY <1>a DEF UpgradeableStore, Somebody
  <2>4. /\ store' \in UpgradeableStore /\ store'.version = store.version
        /\ store'.proposal = store.proposal /\ store'.approval = store.approval
    BY <1>a, <2>2, <2>3 DEF UpgradeableStore
  <2> QED BY <1>6, <1>b, <2>4 DEF Upgradeable!ReplaceAdmin
<1> QED
  BY <1>1, <1>2, <1>3, <1>4, <1>5, <1>6 DEF Upgradeable!Next

------------------------------------------------------------------------------
(* The security registry *)

RegistryStore ==
    [superAdmin : Somebody, pendingAdmin : Somebody, isPaused : BOOLEAN,
     pauseFlags : Registry!Flags, contractPaused : SUBSET Addresses]

\* A pending admin was proposed last, and by the super admin of now.
RegistrySafe ==
    /\ Registry!TypeOK
    /\ store.pendingAdmin # Nobody =>
           /\ store.superAdmin # Nobody
           /\ history = [by |-> store.superAdmin, to |-> store.pendingAdmin]

LEMMA RegistryTyped == Registry!TypeOK <=>
    store \in RegistryStore /\ history \in [by : Somebody, to : Somebody]
  BY DEF Registry!TypeOK, RegistryStore, Registry!Somebody, Somebody

LEMMA RegistryInit == Registry!Init => RegistrySafe
<1> SUFFICES ASSUME Registry!Init PROVE RegistrySafe
  OBVIOUS
<1>1. [f \in {"deposits", "withdrawals", "swaps"} |-> FALSE] \in Registry!Flags
  BY DEF Registry!Flags
<1> QED
  BY <1>1 DEF Registry!Init, RegistrySafe, Registry!TypeOK, Registry!NoProposal, Registry!Somebody

LEMMA RegistryStep ==
    ASSUME RegistrySafe, Registry!Next
    PROVE  RegistrySafe' /\ Registry!BothSidesAgreeStep
<1> USE EscrowAssumption
<1> DEFINE Kept == RegistrySafe' /\ Registry!BothSidesAgreeStep
<1>a. /\ store \in RegistryStore /\ history \in [by : Somebody, to : Somebody]
      /\ store.pendingAdmin # Nobody =>
             /\ store.superAdmin # Nobody
             /\ history = [by |-> store.superAdmin, to |-> store.pendingAdmin]
  BY RegistryTyped DEF RegistrySafe
<1>b. ASSUME store' \in RegistryStore, history' \in [by : Somebody, to : Somebody],
             store'.pendingAdmin # Nobody =>
                 /\ store'.superAdmin # Nobody
                 /\ history' = [by |-> store'.superAdmin, to |-> store'.pendingAdmin],
             \/ store'.superAdmin = store.superAdmin
             \/ store.superAdmin = Nobody
             \/ history = [by |-> store.superAdmin, to |-> store'.superAdmin]
      PROVE  Kept
  BY <1>b
  DEF RegistrySafe, Registry!TypeOK, RegistryStore, Registry!Somebody, Somebody,
      Registry!BothSidesAgreeStep
<1> HIDE DEF Kept
<1>1. ASSUME NEW a \in Addresses, Registry!Initialize(a)
      PROVE  Kept
  <2>1. /\ store' \in RegistryStore /\ store'.pendingAdmin = store.pendingAdmin
        /\ store.superAdmin = Nobody /\ history' = history
    BY <1>1, <1>a DEF Registry!Initialize, RegistryStore, Somebody
  <2> QED BY <1>a, <1>b, <2>1
<1>2. ASSUME NEW a \in Addresses, NEW b \in Addresses, Registry!ProposeAdmin(a, b)
      PROVE  Kept
  <2>1. /\ store' \in RegistryStore /\ store'.pendingAdmin = b
        /\ store'.superAdmin = a /\ store.superAdmin = a
        /\ history' = [by |-> a, to |-> b]
    BY <1>2, <1>a DEF Registry!ProposeAdmin, Registry!AdminCall, RegistryStore, Somebody
  <2>2. history' \in [by : Somebody, to : Somebody] /\ a # Nobody
    BY <2>1 DEF Somebody
  <2> QED BY <1>b, <2>1, <2>2
<1>3. ASSUME NEW a \in Addresses, Registry!AcceptAdmin(a)
      PROVE  Kept
  <2>1. /\ store' \in RegistryStore /\ store'.pendingAdmin = Nobody
        /\ store'.superAdmin = a /\ store.pendingAdmin = a /\ history' = history
    BY <1>3, <1>a DEF Registry!AcceptAdmin, RegistryStore, Somebody
  <2> QED BY <1>a, <1>b, <2>1
<1>4. ASSUME NEW a \in Addresses, Registry!CancelAdminProposal(a)
      PROVE  Kept
  <2>1. /\ store' \in RegistryStore /\ store'.pendingAdmin = Nobody
        /\ store'.superAdmin = store.superAdmin
        /\ history' \in [by : Somebody, to : Somebody]
    BY <1>4, <1>a
    DEF Registry!CancelAdminProposal, Registry!NoProposal, RegistryStore, Somebody
  <2> QED BY <1>b, <2>1
<1>5. ASSUME NEW a \in Addresses, NEW on \in BOOLEAN, Registry!SetPause(a, on)
      PROVE  Kept
  <2>1. /\ store' \in RegistryStore /\ store'.pendingAdmin = store.pendingAdmin
        /\ store'.superAdmin = store.superAdmin /\ history' = history
    BY <1>5, <1>a DEF Registry!SetPause, RegistryStore
  <2> QED BY <1>a, <1>b, <2>1
<1>6. ASSUME NEW a \in Addresses, NEW flags \in Registry!Flags,
             Registry!SetPauseFlags(a, flags)
      PROVE  Kept
  <2>1. /\ store' \in RegistryStore /\ store'.pendingAdmin = store.pendingAdmin
        /\ store'.superAdmin = store.superAdmin /\ history' = history
    BY <1>6, <1>a DEF Registry!SetPauseFlags, RegistryStore
  <2> QED BY <1>a, <1>b, <2>1
<1>7. ASSUME NEW a \in Addresses, NEW id \in Addresses, NEW on \in BOOLEAN,
             Registry!SetContractPaused(a, id, on)
      PROVE  Kept
  <2>1. PICK ids \in SUBSET Addresses : store' = [store EXCEPT !.contractPaused = ids]
    BY <1>7, <1>a DEF Registry!SetContractPaused, RegistryStore
  <2>2. /\ store' \in RegistryStore /\ store'.pendingAdmin = store.pendingAdmin
        /\ store'.superAdmin = store.superAdmin
    BY <1>a, <2>1 DEF RegistryStore
  <2> QED BY <1>7, <1>a, <1>b, <2>2 DEF Registry!SetContractPaused
<1> QED
  BY <1>1, <1>2, <1>3, <1>4, <1>5, <1>6, <1>7 DEF Registry!Next, Kept

------------------------------------------------------------------------------
(* The m-of-n escrow *)

LEMMA MultisigCardinality == \A S : Multisig!Cardinality(S) = Cardinality(S)
  BY DEF Multisig!Cardinality, Cardinality

\* A list without repetitions names as many signers as it is long.
LEMMA ListedOnce ==
    ASSUME NEW n \in Nat, NEW list \in [1 .. n -> Addresses], Multisig!IsInjective(list)
    PROVE  /\ IsFiniteSet(Multisig!Range(list))
           /\ Cardinality(Multisig!Range(list)) = n
<1> DEFINE range == {list[i] : i \in 1 .. n}
<1>1. Multisig!Range(list) = range
  BY DEF Multisig!Range
<1>2. \A i, j \in 1 .. n : list[i] = list[j] => i = j
  BY DEF Multisig!IsInjective
<1>3. list \in Bijection(1 .. n, range)
  <2>1. list \in [1 .. n -> range]
    OBVIOUS
  <2>2. \A r \in range : \E i \in 1 .. n : list[i] = r
    OBVIOUS
  <2>3. IsInjective(list)
    BY <1>2 DEF IsInjective
  <2> QED BY <2>1, <2>2, <2>3, Zenon DEF Bijection, Injection, Surjection
<1>4. ExistsBijection(1 .. n, range)
  BY <1>3 DEF ExistsBijection
<1>5. IsFiniteSet(range)
  <2>1. IsFiniteSet(1 .. n)
    BY FS_Interval
  <2> QED BY <1>4, <2>1, FS_Bijection
<1>6. Cardinality(range) = n
  BY <1>4, FS_CountingElements
<1> QED BY <1>1, <1>5, <1>6

\* Nothing leaves before there is a recipient, and with it a threshold.
MultisigSafe ==
    /\ Multisig!TypeOK /\ Multisig!ReleasedByQuorum
    /\ store \in [signers : Seq(Addresses), threshold : Nat, recipient : Somebody]
    /\ history \in [by : SUBSET Addresses, out : Nat, in : Nat]
    /\ store.recipient = Nobody => history.out = 0

LEMMA MultisigInit == Multisig!Init => MultisigSafe
<1> SUFFICES ASSUME Multisig!Init PROVE MultisigSafe
  OBVIOUS
<1>1. <<>> \in Seq(Addresses)
  OBVIOUS
<1> QED
  BY <1>1
  DEF Multisig!Init, MultisigSafe, Multisig!TypeOK, Multisig!ReleasedByQuorum,
      Multisig!Somebody, Somebody

LEMMA MultisigStep ==
    ASSUME MultisigSafe, Multisig!Next
    PROVE  MultisigSafe'
<1> USE EscrowAssumption
<1>a. /\ store \in [signers : Seq(Addresses), threshold : Nat, recipient : Somebody]
      /\ history \in [by : SUBSET Addresses, out : Nat, in : Nat]
      /\ held \in Nat /\ held + history.out = history.in
      /\ store.recipient = Nobody => history.out = 0
      /\ history.out > 0 => Cardinality(history.by) >= store.threshold
  BY MultisigCardinality DEF MultisigSafe, Multisig!TypeOK, Multisig!ReleasedByQuorum
<1>b. ASSUME store' \in [signers : Seq(Addresses), threshold : Nat, recipient : Somebody],
             history' \in [by : SUBSET Addresses, out : Nat, in : Nat],
             held' \in Nat, held' + history'.out = history'.in,
             store'.recipient = Nobody => history'.out = 0,
             history'.out > 0 => Cardinality(history'.by) >= store'.threshold
      PROVE  MultisigSafe'
  BY <1>b, MultisigCardinality
  DEF MultisigSafe, Multisig!TypeOK, Multisig!ReleasedByQuorum, Multisig!Somebody, Somebody
<1>1. ASSUME NEW list \in Multisig!Lists, NEW n \in 1 .. MaxSigners, NEW to \in Addresses,
             Multisig!Initialize(list, n, to)
      PROVE  MultisigSafe'
  <2>1. list \in Seq(Addresses)
    BY DEF Multisig!Lists
  <2>2. /\ store' = [signers |-> list, threshold |-> n, recipient |-> to]
        /\ store.recipient = Nobody /\ UNCHANGED <<held, history>>
    BY <1>1 DEF Multisig!Initialize
  <2>3. n \in Nat /\ history.out = 0
    BY <1>a, <2>2
  <2> QED BY <1>a, <1>b, <2>1, <2>2, <2>3 DEF Somebody
<1>2. ASSUME NEW list \in Multisig!Lists, Multisig!Release(list)
      PROVE  MultisigSafe'
  <2>1. PICK n \in Nat : list \in [1 .. n -> Addresses]
    BY DEF Multisig!Lists
  <2>2. /\ store.recipient # Nobody /\ Len(list) >= store.threshold
        /\ Multisig!IsInjective(list)
        /\ held' = 0 /\ store' = store
        /\ history' = [history EXCEPT !.by = Multisig!Range(list), !.out = @ + held]
    BY <1>2 DEF Multisig!Release
  <2>3. Cardinality(Multisig!Range(list)) = n
    BY <2>1, <2>2, ListedOnce
  <2>4. Len(list) = n
    BY <2>1
  <2>5. Multisig!Range(list) \in SUBSET Addresses
    BY <2>1 DEF Multisig!Range
  <2>6. history' = [by |-> Multisig!Range(list), out |-> history.out + held,
                    in |-> history.in]
    BY <1>a, <2>2
  <2> QED BY <1>a, <1>b, <2>2, <2>3, <2>4, <2>5, <2>6
<1>3. CASE Multisig!Deposit
  <2>1. /\ held' = held + 1 /\ store' = store
        /\ history' = [by |-> history.by, out |-> history.out, in |-> history.in + 1]
    BY <1>3, <1>a DEF Multisig!Deposit
  <2> QED BY <1>a, <1>b, <2>1
<1> QED BY <1>1, <1>2, <1>3 DEF Multisig!Next

------------------------------------------------------------------------------
(* The NFTs *)

NftToken == [owner : Somebody, mutable : BOOLEAN, edits : 0 .. MaxEdits]

NftStore ==
    [admin : Somebody, counter : 0 .. MaxTokens, token : [1 .. MaxTokens -> NftToken],
     approval : [1 .. MaxTokens -> [Addresses -> Somebody]],
     operators : SUBSET (Addresses \X Addresses)]

\* The tokens that exist or have existed are those counted.
NftSafe ==
    /\ store \in NftStore
    /\ history = 1 .. store.counter
    /\ \A t \in 1 .. MaxTokens : store.token[t].owner # Nobody => t \in history
    /\ NFT!ApprovalsEndWithOwnership

LEMMA NftTyped == NftSafe => NFT!TypeOK
  BY NftAssumption
  DEF NftSafe, NftStore, NftToken, NFT!TypeOK, NFT!TokenIds, NFT!Somebody, Somebody

LEMMA NftInit == NFT!Init => NftSafe
<1> SUFFICES ASSUME NFT!Init PROVE NftSafe
  OBVIOUS
<1> USE NftAssumption
<1> DEFINE tokens == [t \in NFT!TokenIds |-> NFT!NoToken]
           approvals == [t \in NFT!TokenIds |-> [a \in Addresses |-> Nobody]]
<1>1. /\ tokens \in [1 .. MaxTokens -> NftToken]
      /\ \A t \in 1 .. MaxTokens : tokens[t].owner = Nobody
  BY DEF NFT!TokenIds, NFT!NoToken, NftToken, Somebody
<1>2. /\ approvals \in [1 .. MaxTokens -> [Addresses -> Somebody]]
      /\ \A t \in 1 .. MaxTokens, a \in Addresses : approvals[t][a] = Nobody
  BY DEF NFT!TokenIds, Somebody
<1>3. /\ store = [admin |-> Nobody, counter |-> 0, token |-> tokens,
                  approval |-> approvals, operators |-> {}]
      /\ history = {}
  BY DEF NFT!Init
<1> HIDE DEF tokens, approvals
<1>4. store \in NftStore /\ history = 1 .. store.counter
  BY <1>1, <1>2, <1>3 DEF NftStore, Somebody
<1>5. NFT!ApprovalsEndWithOwnership
  BY <1>2, <1>3 DEF NFT!ApprovalsEndWithOwnership, NFT!TokenIds
<1> QED BY <1>1, <1>3, <1>4, <1>5 DEF NftSafe

\* The edit of a set of tokens changes how often they were edited, nothing else.
LEMMA NftEdit ==
    ASSUME NftSafe, NEW tokens \in SUBSET (1 .. MaxTokens), NFT!Edit(tokens)
    PROVE  NftSafe' /\ NFT!ImmutableStaysStep
<1> USE NftAssumption DEF NFT!TokenIds
<1> DEFINE new == [t \in 1 .. MaxTokens |->
                      IF t \in tokens THEN [store.token[t] EXCEPT !.edits = @ + 1]
                      ELSE store.token[t]]
<1>a. /\ store \in NftStore /\ history = 1 .. store.counter
      /\ \A t \in 1 .. MaxTokens : store.token[t].owner # Nobody => t \in history
      /\ \A t \in 1 .. MaxTokens, a \in Addresses :
             store.approval[t][a] # Nobody => a = store.token[t].owner
      /\ \A t \in 1 .. MaxTokens : store.token[t] \in NftToken
  BY DEF NftSafe, NftStore, NFT!ApprovalsEndWithOwnership, NFT!OwnerOf
<1>1. /\ \A t \in tokens : store.token[t].owner # Nobody /\ store.token[t].mutable
                               /\ store.token[t].edits < MaxEdits
      /\ history' = history
      /\ store' = [store EXCEPT !.token = new]
  BY DEF NFT!Edit, NFT!Exists
<1>2. \A t \in 1 .. MaxTokens :
          /\ new[t] \in NftToken /\ new[t].owner = store.token[t].owner
          /\ new[t].mutable = store.token[t].mutable
          /\ t \notin tokens => new[t] = store.token[t]
  BY <1>a, <1>1 DEF NftToken
<1>3. new \in [1 .. MaxTokens -> NftToken]
  BY <1>2
<1> HIDE DEF new
<1>4. /\ store' \in NftStore /\ store'.counter = store.counter
      /\ store'.token = new /\ store'.approval = store.approval
  BY <1>a, <1>1, <1>3 DEF NftStore
<1>5. NftSafe'
  BY <1>a, <1>1, <1>2, <1>4
  DEF NftSafe, NFT!ApprovalsEndWithOwnership, NFT!OwnerOf
<1>6. NFT!ImmutableStaysStep
  BY <1>1, <1>2, <1>4 DEF NFT!ImmutableStaysStep, NFT!Exists
<1> QED BY <1>5, <1>6

LEMMA NftStep ==
    ASSUME NftSafe, NFT!Next
    PROVE  NftSafe' /\ NFT!ImmutableStaysStep
<1> USE EscrowAssumption, NftAssumption DEF NFT!TokenIds
<1> DEFINE Kept == NftSafe' /\ NFT!ImmutableStaysStep
<1>a. /\ store \in NftStore /\ history = 1 .. store.counter
      /\ \A t \in 1 .. MaxTokens : store.token[t].owner # Nobody => t \in history
      /\ \A t \in 1 .. MaxTokens, a \in Addresses :
             store.approval[t][a] # Nobody => a = store.token[t].owner
      /\ \A t \in 1 .. MaxTokens : store.token[t] \in NftToken
      /\ \A t \in 1 .. MaxTokens : store.approval[t] \in [Addresses -> Somebody]
  BY DEF NftSafe, NftStore, NFT!ApprovalsEndWithOwnership, NFT!OwnerOf
<1>b. ASSUME store' \in NftStore, store'.token = store.token,
             store'.counter = store.counter, history' = history,
             \A t \in 1 .. MaxTokens, a \in Addresses :
                 store'.approval[t][a] # Nobody => a = store.token[t].owner
      PROVE  Kept
  BY <1>a, <1>b
  DEF NftSafe, NFT!ApprovalsEndWithOwnership, NFT!OwnerOf, NFT!ImmutableStaysStep, NFT!Exists
\* One token is given away or burnt: its approval ends.
<1>c. ASSUME NEW t \in 1 .. MaxTokens, NEW r \in NftToken, NEW from \in Addresses,
             from = store.token[t].owner,
             r.owner # Nobody => r.edits = store.token[t].edits
                                     /\ r.mutable = store.token[t].mutable,
             store' = [store EXCEPT !.token = [store.token EXCEPT ![t] = r],
                 !.approval = [store.approval EXCEPT
                                 ![t] = [store.approval[t] EXCEPT ![from] = Nobody]]],
             history' = history
      PROVE  Kept
  <2> DEFINE token == [store.token EXCEPT ![t] = r]
             none == [store.approval[t] EXCEPT ![from] = Nobody]
             approval == [store.approval EXCEPT ![t] = none]
  <2>1. /\ token \in [1 .. MaxTokens -> NftToken] /\ token[t] = r
        /\ \A u \in 1 .. MaxTokens : u # t => token[u] = store.token[u]
    BY <1>a DEF NftStore
  <2>2. /\ none \in [Addresses -> Somebody]
        /\ \A a \in Addresses : none[a] = Nobody
    BY <1>a, <1>c DEF Somebody
  <2>3. /\ approval \in [1 .. MaxTokens -> [Addresses -> Somebody]] /\ approval[t] = none
        /\ \A u \in 1 .. MaxTokens : u # t => approval[u] = store.approval[u]
    <3> HIDE DEF none
    <3> QED BY <1>a, <2>2 DEF NftStore
  <2> HIDE DEF token, none, approval
  <2>4. store' = [store EXCEPT !.token = token, !.approval = approval]
    BY <1>c DEF token, none, approval
  <2>5. /\ store' \in NftStore /\ store'.counter = store.counter
        /\ store'.token = token /\ store'.approval = approval
    BY <1>a, <2>1, <2>3, <2>4 DEF NftStore
  <2>6. t \in history
    BY <1>a, <1>c
  <2>7. NftSafe'
    BY <1>a, <1>c, <2>1, <2>2, <2>3, <2>5, <2>6
    DEF NftSafe, NFT!ApprovalsEndWithOwnership, NFT!OwnerOf
  <2>8. NFT!ImmutableStaysStep
    BY <1>c, <2>1, <2>5 DEF NFT!ImmutableStaysStep, NFT!Exists
  <2> QED BY <2>7, <2>8
<1> HIDE DEF Kept
<1>1. ASSUME NEW a \in Addresses, NFT!Initialize(a)
      PROVE  Kept
  <2>1. /\ store' \in NftStore /\ store'.token = store.token
        /\ store'.counter = store.counter /\ history' = history
        /\ store'.approval = store.approval
    BY <1>1, <1>a DEF NFT!Initialize, NftStore, Somebody
  <2> QED BY <1>a, <1>b, <2>1
<1>2. ASSUME NEW to \in Addresses, NEW mutable \in BOOLEAN, NFT!Mint(to, mutable)
      PROVE  Kept
  <2> DEFINE t == store.counter + 1
             r == [owner |-> to, mutable |-> mutable, edits |-> 0]
             token == [store.token EXCEPT ![t] = r]
  <2>1. /\ store.counter < MaxTokens
        /\ store' = [store EXCEPT !.token = token, !.counter = t]
        /\ history' = history \cup {t}
    BY <1>2 DEF NFT!Mint
  <2>2. t \in 1 .. MaxTokens /\ t \notin history /\ history \cup {t} = 1 .. t
    BY <1>a, <2>1 DEF NftStore
  <2>3. r \in NftToken
    BY DEF NftToken, Somebody
  <2> HIDE DEF t, r
  <2>4. /\ token \in [1 .. MaxTokens -> NftToken] /\ token[t] = r
        /\ \A u \in 1 .. MaxTokens : u # t => token[u] = store.token[u]
    BY <1>a, <2>2, <2>3 DEF NftStore
  <2> HIDE DEF token
  <2>5. /\ store' \in NftStore /\ store'.counter = t
        /\ store'.token = token /\ store'.approval = store.approval
    <3> DEFINE minted == [store EXCEPT !.token = token]
    <3>1. /\ minted \in NftStore /\ minted.token = token
          /\ minted.approval = store.approval
      BY <1>a, <2>4 DEF NftStore
    <3>2. store' = [minted EXCEPT !.counter = t] /\ t \in 0 .. MaxTokens
      BY <2>1, <2>2
    <3> HIDE DEF minted
    <3> QED BY <3>1, <3>2 DEF NftStore
  <2>6. \A a \in Addresses : store.approval[t][a] = Nobody
    BY <1>a, <2>2
  <2>7. NftSafe'
    BY <1>a, <2>1, <2>2, <2>4, <2>5, <2>6
    DEF NftSafe, NFT!ApprovalsEndWithOwnership, NFT!OwnerOf
  <2>8. NFT!ImmutableStaysStep
    BY <1>a, <2>2, <2>4, <2>5 DEF NFT!ImmutableStaysStep, NFT!Exists
  <2> QED BY <2>7, <2>8 DEF Kept
<1>3. ASSUME NEW tokens \in SUBSET (1 .. MaxTokens), NFT!Edit(tokens)
      PROVE  Kept
  BY <1>3, NftEdit DEF Kept
<1>4. ASSUME NEW a \in Addresses, NEW t \in 1 .. MaxTokens,
             NFT!UpdateMetadata(a, t) \/ NFT!SetAttrs(a, t)
      PROVE  Kept
  BY <1>3, <1>4 DEF NFT!UpdateMetadata, NFT!SetAttrs
<1>5. ASSUME NEW from \in Addresses, NEW to \in Addresses, NEW t \in 1 .. MaxTokens,
             NFT!Transfer(from, to, t)
      PROVE  Kept
  <2> DEFINE r == [store.token[t] EXCEPT !.owner = to]
  <2>1. /\ r \in NftToken /\ r.edits = store.token[t].edits
        /\ r.mutable = store.token[t].mutable
    BY <1>a DEF NftToken, Somebody
  <2>2. /\ from = store.token[t].owner /\ history' = history
        /\ store' = [store EXCEPT !.token = [store.token EXCEPT ![t] = r],
              !.approval = [store.approval EXCEPT
                              ![t] = [store.approval[t] EXCEPT ![from] = Nobody]]]
    BY <1>5 DEF NFT!Transfer, NFT!OwnerOf
  <2> HIDE DEF r
  <2> QED BY <1>c, <2>1, <2>2
<1>6. ASSUME NEW a \in Addresses, NEW t \in 1 .. MaxTokens, NFT!Burn(a, t)
      PROVE  Kept
  <2>1. PICK from \in Addresses : from = store.token[t].owner
    BY <1>6, <1>a DEF NFT!Burn, NFT!Exists, NftToken, Somebody
  <2>2. NFT!NoToken \in NftToken /\ NFT!NoToken.owner = Nobody
    BY DEF NFT!NoToken, NftToken, Somebody
  <2>3. /\ history' = history
        /\ store' = [store EXCEPT !.token = [store.token EXCEPT ![t] = NFT!NoToken],
              !.approval = [store.approval EXCEPT
                              ![t] = [store.approval[t] EXCEPT ![from] = Nobody]]]
    BY <1>6, <2>1 DEF NFT!Burn, NFT!OwnerOf
  <2> QED BY <1>c, <2>1, <2>2, <2>3
<1>7. ASSUME NEW owner \in Addresses, NEW approved \in Addresses, NEW t \in 1 .. MaxTokens,
             NFT!Approve(owner, approved, t)
      PROVE  Kept
  <2> DEFINE given == [store.approval[t] EXCEPT ![owner] = approved]
             approval == [store.approval EXCEPT ![t] = given]
  <2>1. /\ owner = store.token[t].owner /\ history' = history
        /\ store' = [store EXCEPT !.approval = approval]
    BY <1>7 DEF NFT!Approve, NFT!OwnerOf
  <2>2. /\ given \in [Addresses -> Somebody]
        /\ \A a \in Addresses : given[a] # Nobody => a = owner
    BY <1>a, <2>1 DEF Somebody
  <2> HIDE DEF given
  <2>3. /\ approval \in [1 .. MaxTokens -> [Addresses -> Somebody]] /\ approval[t] = given
        /\ \A u \in 1 .. MaxTokens : u # t => approval[u] = store.approval[u]
    BY <1>a, <2>2 DEF NftStore
  <2> HIDE DEF approval
  <2>4. /\ store' \in NftStore /\ store'.counter = store.counter
        /\ store'.token = store.token /\ store'.approval = approval
    BY <1>a, <2>1, <2>3 DEF NftStore
  <2> QED BY <1>a, <1>b, <2>1, <2>2, <2>3, <2>4
<1>8. ASSUME NEW a \in Addresses, NEW b \in Addresses, NEW approved \in BOOLEAN,
             NFT!SetApprovalForAll(a, b, approved)
      PROVE  Kept
  <2>1. PICK others \in SUBSET (Addresses \X Addresses) :
            store' = [store EXCEPT !.operators = others]
    <3> DEFINE others == store.operators \ {<<a, b>>}
               set == others \cup (IF approved THEN {<<a, b>>} ELSE {})
    <3>1. store' = [store EXCEPT !.operators = set]
      BY <1>8 DEF NFT!SetApprovalForAll
    <3>2. set \in SUBSET (Addresses \X Addresses)
      BY <1>a DEF NftStore
    <3> HIDE DEF set
    <3> QED BY <3>1, <3>2
  <2>2. /\ store' \in NftStore /\ store'.token = store.token
        /\ store'.counter = store.counter /\ store'.approval = store.approval
    BY <1>a, <2>1 DEF NftStore
  <2> QED BY <1>8, <1>a, <1>b, <2>2 DEF NFT!SetApprovalForAll
<1> QED
  BY <1>1, <1>2, <1>3, <1>4, <1>5, <1>6, <1>7, <1>8
  DEF NFT!Next, NFT!BatchUpdateMetadataUris, Kept

------------------------------------------------------------------------------
(* The pausing circuit breaker *)

BreakerFields ==
    {"admin", "tier", "isPaused", "unlocksAt", "pendingTier", "timelock", "bots",
     "referencePrice", "threshold", "window", "baseline", "multiplier", "cooldownUntil"}

\* The unpause that can be executed is the one that was initiated last and was not
\* cancelled, which takes an admin.
BreakerSafe ==
    /\ DOMAIN store = BreakerFields
    /\ store.unlocksAt = history
    /\ store.admin = Nobody => history = 0
    /\ store.cooldownUntil \in Nat /\ now \in Nat

LEMMA BreakerInit == Breaker!Init => BreakerSafe
  BY DEF Breaker!Init, Breaker!Deployed, BreakerSafe, BreakerFields

LEMMA BreakerStep ==
    ASSUME BreakerSafe, Breaker!Next
    PROVE  /\ BreakerSafe'
           /\ Breaker!ReopensInTimeStep /\ Breaker!CooldownHoldsStep
<1> USE PauseAssumption DEF BreakerFields
<1> DEFINE Kept == /\ BreakerSafe'
                   /\ Breaker!ReopensInTimeStep /\ Breaker!CooldownHoldsStep
<1>a. /\ DOMAIN store = BreakerFields /\ store.unlocksAt = history
      /\ store.admin = Nobody => history = 0
      /\ store.cooldownUntil \in Nat /\ now \in Nat
  BY DEF BreakerSafe
\* A call that neither opens the protocol nor ends a cooldown.
<1>b. ASSUME DOMAIN store' = BreakerFields, store'.unlocksAt = history',
             store'.admin = Nobody => history' = 0,
             store'.cooldownUntil \in Nat, store'.cooldownUntil >= store.cooldownUntil,
             now' \in Nat,
             store.admin # Nobody /\ store.tier # "None" /\ store'.tier = "None" =>
                 history > 0 /\ now >= history
      PROVE  Kept
  <2>1. BreakerSafe' /\ Breaker!ReopensInTimeStep
    BY <1>b DEF BreakerSafe, Breaker!ReopensInTimeStep
  <2>2. now' < store.cooldownUntil => Breaker!PauseTier' = "All"
    BY <1>a, <1>b DEF Breaker!PauseTier, Breaker!IsInCooldown
  <2>3. Breaker!CooldownHoldsStep
    BY <1>b, <2>2 DEF Breaker!CooldownHoldsStep
  <2> QED BY <2>1, <2>3
<1> SUFFICES Kept
  OBVIOUS
<1> HIDE DEF Kept
<1>1. ASSUME NEW a \in Addresses, NEW s \in 0 .. LongestTimelock,
             Breaker!Initialize(a, s) \/ Breaker!AddBot(a) \/ Breaker!RemoveBot(a)
      PROVE  Kept
  <2>1. CASE Breaker!Initialize(a, s)
    <3>1. /\ DOMAIN store' = BreakerFields /\ store.admin = Nobody /\ store'.admin = a
          /\ store'.unlocksAt = 0 /\ store'.cooldownUntil = store.cooldownUntil
          /\ UNCHANGED <<now, history>>
      BY <1>a, <2>1 DEF Breaker!Initialize, Breaker!Call
    <3> QED BY <1>a, <1>b, <3>1, UsersAssumption
  <2>2. CASE Breaker!AddBot(a) \/ Breaker!RemoveBot(a)
    <3>1. /\ DOMAIN store' = BreakerFields /\ store'.tier = store.tier
          /\ store'.unlocksAt = store.unlocksAt /\ store'.admin = store.admin
          /\ store'.cooldownUntil = store.cooldownUntil
          /\ UNCHANGED <<now, history>>
      BY <1>a, <2>2 DEF Breaker!AddBot, Breaker!RemoveBot, Breaker!AdminCall, Breaker!Call
    <3> QED BY <1>a, <1>b, <3>1
  <2> QED BY <1>1, <2>1, <2>2
<1>2. ASSUME NEW a \in Addresses, NEW tier \in Breaker!Tiers, Breaker!Trip(a, tier)
      PROVE  Kept
  <2>1. /\ DOMAIN store' = BreakerFields /\ store'.tier # "None"
        /\ store'.unlocksAt = store.unlocksAt /\ store'.admin = store.admin
        /\ store'.cooldownUntil = store.cooldownUntil
        /\ UNCHANGED <<now, history>>
    BY <1>a, <1>2 DEF Breaker!Trip, Breaker!Tripped, Breaker!Call
  <2> QED BY <1>a, <1>b, <2>1
<1>3. ASSUME NEW volatile \in BOOLEAN, Breaker!CheckPrice(volatile)
      PROVE  Kept
  <2>1. /\ DOMAIN store' = BreakerFields
        /\ store'.tier = store.tier \/ store'.tier # "None"
        /\ store'.unlocksAt = store.unlocksAt /\ store'.admin = store.admin
        /\ store'.cooldownUntil = store.cooldownUntil
        /\ UNCHANGED <<now, history>>
    BY <1>a, <1>3 DEF Breaker!CheckPrice, Breaker!Tripped, Breaker!AdminCall, Breaker!Call
  <2> QED BY <1>a, <1>b, <2>1
<1>4. ASSUME NEW n \in Volumes, Breaker!RecordVolume(n)
      PROVE  Kept
  <2> DEFINE recent == SelectSeq(store.window, LAMBDA e : now - e.at < VolumeWindow)
             window == Append(recent, [at |-> now, amount |-> n])
             total == Breaker!Volume(window)
             recorded == [store EXCEPT !.window = window]
             tripped == IF total > recorded.threshold
                        THEN Breaker!Tripped(recorded, "All") ELSE recorded
  <2>1. /\ store' = Breaker!CooledDown(tripped, total)
        /\ UNCHANGED <<now, history>>
    BY <1>4 DEF Breaker!RecordVolume, Breaker!Call
  <2> HIDE DEF total
  <2> HIDE DEF window
  <2>2. /\ DOMAIN recorded = BreakerFields /\ recorded.tier = store.tier
        /\ recorded.unlocksAt = store.unlocksAt /\ recorded.admin = store.admin
        /\ recorded.cooldownUntil = store.cooldownUntil
    BY <1>a
  <2> HIDE DEF recorded
  <2>3. /\ DOMAIN tripped = BreakerFields
        /\ tripped.tier = store.tier \/ tripped.tier # "None"
        /\ tripped.unlocksAt = store.unlocksAt /\ tripped.admin = store.admin
        /\ tripped.cooldownUntil = store.cooldownUntil
    BY <2>2 DEF Breaker!Tripped
  <2> HIDE DEF tripped
  <2>4. /\ DOMAIN store' = BreakerFields /\ store'.tier = tripped.tier
        /\ store'.unlocksAt = store.unlocksAt /\ store'.admin = store.admin
        /\ store'.cooldownUntil \in Nat
        /\ store'.cooldownUntil >= store.cooldownUntil
    BY <1>a, <2>1, <2>3 DEF Breaker!CooledDown
  <2> QED BY <1>a, <1>b, <2>1, <2>3, <2>4
<1>5. ASSUME NEW tier \in Breaker!Tiers, Breaker!InitiateUnpause(tier)
      PROVE  Kept
  <2>1. /\ DOMAIN store' = BreakerFields /\ store'.tier = store.tier
        /\ store'.unlocksAt = history' /\ store'.admin # Nobody
        /\ store'.cooldownUntil = store.cooldownUntil
        /\ UNCHANGED now
    BY <1>a, <1>5 DEF Breaker!InitiateUnpause, Breaker!AdminCall, Breaker!Call
  <2> QED BY <1>a, <1>b, <2>1
<1>6. CASE Breaker!ExecuteUnpause
  <2>1. /\ DOMAIN store' = BreakerFields
        /\ history > 0 /\ now >= history
        /\ store'.unlocksAt = history' /\ history' = 0
        /\ store'.cooldownUntil = store.cooldownUntil
        /\ UNCHANGED now
    BY <1>a, <1>6 DEF Breaker!ExecuteUnpause, Breaker!Call
  <2> QED BY <1>a, <1>b, <2>1
<1>7. CASE Breaker!CancelUnpause
  <2>1. /\ DOMAIN store' = BreakerFields /\ store'.tier = store.tier
        /\ store'.unlocksAt = history' /\ history' = 0
        /\ store'.cooldownUntil = store.cooldownUntil
        /\ UNCHANGED now
    BY <1>a, <1>7 DEF Breaker!CancelUnpause, Breaker!AdminCall, Breaker!Call
  <2> QED BY <1>a, <1>b, <2>1
<1>8. CASE Breaker!Unpause
  <2>1. /\ DOMAIN store' = BreakerFields
        /\ store'.unlocksAt = history' /\ history' = 0 /\ store'.cooldownUntil = 0
        /\ UNCHANGED now
    BY <1>a, <1>8 DEF Breaker!Unpause, Breaker!AdminCall, Breaker!Call
  <2> QED
    BY <1>a, <1>8, <2>1
    DEF Kept, BreakerSafe, Breaker!ReopensInTimeStep, Breaker!CooldownHoldsStep
<1>9. CASE Breaker!Configure
  <2>1. /\ DOMAIN store' = BreakerFields /\ store'.tier = store.tier
        /\ store'.unlocksAt = store.unlocksAt /\ store'.admin = store.admin
        /\ store'.cooldownUntil = store.cooldownUntil
        /\ UNCHANGED <<now, history>>
    BY <1>a, <1>9
    DEF Breaker!Configure, Breaker!Set, Breaker!AdminCall, Breaker!Call
  <2> QED BY <1>a, <1>b, <2>1
<1>10. CASE Breaker!TimePasses
  BY <1>a, <1>b, <1>10 DEF Breaker!TimePasses
<1> QED
  BY <1>1, <1>2, <1>3, <1>4, <1>5, <1>6, <1>7, <1>8, <1>9, <1>10
  DEF Breaker!Next

------------------------------------------------------------------------------
(* The bridge *)

\* What the contract remembers of the relayer's messages is all of it.
BridgeSafe ==
    /\ DOMAIN store = {"admin", "ratio", "window", "processedAt", "lastActivity",
                       "locked", "minted", "updated", "emergency"}
    /\ history = [active |-> store.lastActivity, at |-> store.processedAt]

LEMMA BridgeInit == Bridge!Init => BridgeSafe
  BY DEF Bridge!Init, BridgeSafe

LEMMA BridgeStep ==
    ASSUME BridgeSafe, Bridge!Next
    PROVE  /\ BridgeSafe'
           /\ Bridge!NotReplayedStep /\ Bridge!EmergencyAfterSilenceStep
<1> DEFINE Kept == BridgeSafe' /\ Bridge!EmergencyAfterSilenceStep
<1>1. Bridge!NotReplayedStep
  BY DEF BridgeSafe, Bridge!NotReplayedStep, Bridge!ProcessMessage, Bridge!Fresh
<1> SUFFICES Kept
  BY <1>1
<1>2. ASSUME NEW a \in Addresses, NEW r \in Ratios, Bridge!Initialize(a, r)
      PROVE  Kept
  BY <1>2 DEF BridgeSafe, Bridge!Initialize, Bridge!EmergencyAfterSilenceStep
<1>3. ASSUME NEW n \in ReplayWindows, Bridge!SetReplayWindow(n)
      PROVE  Kept
  BY <1>3 DEF BridgeSafe, Bridge!SetReplayWindow, Bridge!EmergencyAfterSilenceStep
<1>4. ASSUME NEW m \in Messages, NEW n \in {-BridgeAmount, BridgeAmount},
             Bridge!ProcessMessage(m, n)
      PROVE  Kept
  <2> DEFINE at == [store.processedAt EXCEPT ![m] = now]
  <2>1. /\ store' = [store EXCEPT !.processedAt = at, !.lastActivity = now,
                                  !.minted = @ + n]
        /\ history' = [history EXCEPT !.active = now, !.at = at]
    BY <1>4 DEF BridgeSafe, Bridge!ProcessMessage
  <2> HIDE DEF at
  <2> QED BY <2>1 DEF BridgeSafe, Bridge!EmergencyAfterSilenceStep
<1>5. ASSUME NEW n, Bridge!UpdateSourceLocked(n)
      PROVE  Kept
  BY <1>5 DEF BridgeSafe, Bridge!UpdateSourceLocked, Bridge!EmergencyAfterSilenceStep
<1>6. ASSUME NEW r \in Ratios, Bridge!SetMinCollateralRatio(r)
      PROVE  Kept
  BY <1>6 DEF BridgeSafe, Bridge!SetMinCollateralRatio, Bridge!EmergencyAfterSilenceStep
<1>7. CASE Bridge!ActivateEmergencyMode
  BY <1>7 DEF BridgeSafe, Bridge!ActivateEmergencyMode, Bridge!EmergencyAfterSilenceStep
<1>8. CASE UNCHANGED <<store, history>>
  BY <1>8 DEF BridgeSafe, Bridge!EmergencyAfterSilenceStep
<1> QED
  BY <1>2, <1>3, <1>4, <1>5, <1>6, <1>7, <1>8
  DEF Bridge!Next, Bridge!EmergencyWithdraw, Bridge!Lock, Bridge!TimePasses

------------------------------------------------------------------------------
(* Sums over finite sets, as the folds of the community modules compute them: the *)
(* induction is by a least number and a smallest subset.                          *)

\* g sums F over each subset of S, element by element as the folds do.
AnyOf(s) == CHOOSE x \in s : TRUE
SumRule(F, S, g) ==
    g = [s \in SUBSET S |->
            IF s = {} THEN 0
            ELSE F[AnyOf(s)] + g[s \ {AnyOf(s)}]]
Sums(F, S) == CHOOSE g : SumRule(F, S, g)
SumOver(F, S) == Sums(F, S)[S]

LEMMA LeastNumber ==
    ASSUME NEW T \in SUBSET Nat, T # {}
    PROVE  \E n \in T : \A m \in T : n <= m
<1>1. PICK n \in T : \A m \in T : ~ (<<m, n>> \in OpToRel(<, Nat))
  BY WFMin, NatLessThanWellFounded, Zenon
<1>2. ASSUME NEW m \in T, m < n
      PROVE  <<m, n>> \in OpToRel(<, Nat)
  <2>1. <<m, n>> \in Nat \X Nat /\ <<m, n>>[1] < <<m, n>>[2]
    BY <1>2
  <2> QED BY <2>1, Zenon DEF OpToRel
<1>3. n \in Nat /\ \A m \in T : m \in Nat /\ ~ (m < n)
  BY <1>1, <1>2
<1> QED BY <1>3

LEMMA SumsExist ==
    ASSUME NEW S, IsFiniteSet(S), NEW F
    PROVE  SumRule(F, S, Sums(F, S))
<1> DEFINE Good(n) == \E g : \A s \in SUBSET S : Cardinality(s) <= n =>
                         g[s] = IF s = {} THEN 0 ELSE F[AnyOf(s)] + g[s \ {AnyOf(s)}]
           Bad == {n \in Nat : ~Good(n)}
<1>1. \A s \in SUBSET S : Cardinality(s) \in Nat /\ (Cardinality(s) = 0 <=> s = {})
  BY FS_Subset, FS_CardinalityType, FS_EmptySet
<1>2. \A s \in SUBSET S : s # {} =>
          /\ AnyOf(s) \in s /\ s \ {AnyOf(s)} \in SUBSET S
          /\ Cardinality(s \ {AnyOf(s)}) = Cardinality(s) - 1
  BY FS_Subset, FS_RemoveElement DEF AnyOf
<1>3. Good(0)
  <2> DEFINE g == [s \in SUBSET S |-> 0]
  <2>1. \A s \in SUBSET S : Cardinality(s) <= 0 =>
            g[s] = IF s = {} THEN 0 ELSE F[AnyOf(s)] + g[s \ {AnyOf(s)}]
    BY <1>1
  <2> QED BY <2>1
<1>4. ASSUME NEW n \in Nat, Good(n)
      PROVE  Good(n + 1)
  <2>1. PICK g : \A s \in SUBSET S : Cardinality(s) <= n =>
                         g[s] = IF s = {} THEN 0 ELSE F[AnyOf(s)] + g[s \ {AnyOf(s)}]
    BY <1>4
  <2> DEFINE h == [s \in SUBSET S |-> IF Cardinality(s) <= n THEN g[s]
                                      ELSE F[AnyOf(s)] + g[s \ {AnyOf(s)}]]
  <2>2. ASSUME NEW s \in SUBSET S, Cardinality(s) <= n + 1
        PROVE  h[s] = IF s = {} THEN 0 ELSE F[AnyOf(s)] + h[s \ {AnyOf(s)}]
    <3>1. CASE s = {}
      BY <3>1, <1>1, <2>1
    <3>2. CASE s # {}
      <4>1. s \ {AnyOf(s)} \in SUBSET S /\ Cardinality(s \ {AnyOf(s)}) <= n
        BY <1>1, <1>2, <2>2, <3>2
      <4>2. h[s \ {AnyOf(s)}] = g[s \ {AnyOf(s)}]
        BY <4>1
      <4>3. h[s] = F[AnyOf(s)] + g[s \ {AnyOf(s)}]
        BY <2>1, <3>2
      <4> QED BY <3>2, <4>2, <4>3
    <3> QED BY <3>1, <3>2
  <2> HIDE DEF h
  <2> QED BY <2>2
<1> HIDE DEF Good
<1>5. \A n \in Nat : Good(n)
  <2>1. SUFFICES ASSUME Bad # {} PROVE FALSE
    OBVIOUS
  <2>2. PICK n \in Bad : \A m \in Bad : n <= m
    BY <2>1, LeastNumber
  <2>3. n \in Nat /\ n # 0
    BY <1>3
  <2>4. n - 1 \in Nat /\ n - 1 \notin Bad
    BY <2>2, <2>3
  <2>5. Good((n - 1) + 1)
    BY <1>4, <2>4
  <2> QED BY <2>3, <2>5
<1>6. PICK g : \A s \in SUBSET S :
                   g[s] = IF s = {} THEN 0 ELSE F[AnyOf(s)] + g[s \ {AnyOf(s)}]
  <2>1. Good(Cardinality(S)) /\ \A s \in SUBSET S : Cardinality(s) <= Cardinality(S)
    BY <1>5, FS_CardinalityType, FS_Subset
  <2> QED BY <2>1 DEF Good
<1> DEFINE h == [s \in SUBSET S |-> g[s]]
<1>7. SumRule(F, S, h)
  <2>1. \A s \in SUBSET S :
            h[s] = IF s = {} THEN 0 ELSE F[AnyOf(s)] + h[s \ {AnyOf(s)}]
    BY <1>2, <1>6
  <2>2. h = [s \in SUBSET S |->
                IF s = {} THEN 0 ELSE F[AnyOf(s)] + h[s \ {AnyOf(s)}]]
    BY <2>1
  <2> HIDE DEF h
  <2> QED BY <2>2 DEF SumRule
<1> HIDE DEF h
<1> QED BY <1>7 DEF Sums

\* The sum of F over S, and of what is left of S when an element is taken out.
LEMMA SumStep ==
    ASSUME NEW S, IsFiniteSet(S), NEW F
    PROVE  \A s \in SUBSET S :
              Sums(F, S)[s] = IF s = {} THEN 0
                  ELSE F[AnyOf(s)] + Sums(F, S)[s \ {AnyOf(s)}]
<1>1. SumRule(F, S, Sums(F, S))
  BY SumsExist
<1> QED BY <1>1 DEF SumRule

LEMMA SmallestSubset ==
    ASSUME NEW S, IsFiniteSet(S), NEW T \in SUBSET SUBSET S, T # {}
    PROVE  \E s \in T : \A t \in T : t \subseteq s => t = s
<1> DEFINE Sizes == {Cardinality(s) : s \in T}
<1>1. Sizes \in SUBSET Nat /\ Sizes # {}
  BY FS_Subset, FS_CardinalityType
<1>2. PICK n \in Sizes : \A m \in Sizes : n <= m
  BY <1>1, LeastNumber
<1>3. PICK s \in T : Cardinality(s) = n
  BY <1>2
<1>4. ASSUME NEW t \in T, t \subseteq s
      PROVE  t = s
  <2>1. IsFiniteSet(s) /\ Cardinality(s) <= Cardinality(t)
    BY <1>2, <1>3, FS_Subset
  <2>2. Cardinality(t) <= Cardinality(s) /\ (Cardinality(s) = Cardinality(t) => s = t)
    BY <1>4, <2>1, FS_Subset
  <2>3. Cardinality(t) \in Nat /\ Cardinality(s) \in Nat
    BY <1>1
  <2> QED BY <2>1, <2>2, <2>3
<1> QED BY <1>4

\* Sums of integers are integers, and any element can be taken out first.
LEMMA SumElement ==
    ASSUME NEW S, IsFiniteSet(S), NEW F, \A x \in S : F[x] \in Int
    PROVE  \A s \in SUBSET S :
              /\ Sums(F, S)[s] \in Int
              /\ \A a \in s : Sums(F, S)[s] = F[a] + Sums(F, S)[s \ {a}]
<1> DEFINE sum == Sums(F, S)
           Good(s) == sum[s] \in Int /\ \A a \in s : sum[s] = F[a] + sum[s \ {a}]
           Bad == {s \in SUBSET S : ~Good(s)}
<1>1. SUFFICES ASSUME Bad # {} PROVE FALSE
  OBVIOUS
<1>2. PICK s \in Bad : \A t \in Bad : t \subseteq s => t = s
  <2>1. Bad \in SUBSET SUBSET S
    OBVIOUS
  <2> HIDE DEF Bad
  <2> QED BY <1>1, <2>1, SmallestSubset
<1> DEFINE x == AnyOf(s)
<1>3. sum[s] = IF s = {} THEN 0 ELSE F[x] + sum[s \ {x}]
  BY SumStep
<1>4. s # {}
  BY <1>3
<1>5. x \in s
  BY <1>4 DEF AnyOf
<1> HIDE DEF x, sum
<1>6. ASSUME NEW a \in s
      PROVE  Good(s \ {a})
  <2>1. s \ {a} \subseteq s /\ s \ {a} # s /\ s \ {a} \in SUBSET S
    OBVIOUS
  <2> QED BY <1>2, <2>1
<1>7. sum[s] \in Int
  BY <1>3, <1>4, <1>5, <1>6
<1>8. ASSUME NEW a \in s, a # x
      PROVE  sum[s] = F[a] + sum[s \ {a}]
  <2>1. sum[s \ {x}] = F[a] + sum[(s \ {x}) \ {a}]
    BY <1>5, <1>6, <1>8
  <2>2. sum[s \ {a}] = F[x] + sum[(s \ {a}) \ {x}]
    BY <1>5, <1>6, <1>8
  <2>3. (s \ {x}) \ {a} = (s \ {a}) \ {x}
    OBVIOUS
  <2>4. /\ F[a] \in Int /\ F[x] \in Int
        /\ sum[(s \ {x}) \ {a}] \in Int
    <3>1. (s \ {x}) \ {a} \subseteq s /\ (s \ {x}) \ {a} # s /\ (s \ {x}) \ {a} \in SUBSET S
      BY <1>5
    <3> QED BY <1>2, <1>5, <3>1
  <2>5. sum[s] = F[x] + sum[s \ {x}]
    BY <1>3, <1>4
  <2> DEFINE rest == sum[(s \ {x}) \ {a}]
  <2>6. sum[s \ {x}] = F[a] + rest /\ sum[s \ {a}] = F[x] + rest /\ rest \in Int
    BY <2>1, <2>2, <2>3, <2>4
  <2> HIDE DEF rest
  <2> QED BY <2>4, <2>5, <2>6
<1>9. Good(s)
  BY <1>3, <1>4, <1>7, <1>8
<1> QED BY <1>2, <1>9

\* Functions that agree on a set have the same sum there.
LEMMA SumAgrees ==
    ASSUME NEW S, IsFiniteSet(S), NEW T, IsFiniteSet(T), NEW F, NEW G,
           \A x \in S \cap T : F[x] = G[x]
    PROVE  \A s \in SUBSET (S \cap T) : Sums(F, S)[s] = Sums(G, T)[s]
<1> DEFINE Bad == {s \in SUBSET (S \cap T) : Sums(F, S)[s] # Sums(G, T)[s]}
<1>1. SUFFICES ASSUME Bad # {} PROVE FALSE
  OBVIOUS
<1>2. IsFiniteSet(S \cap T)
  BY FS_Intersection
<1>3. PICK s \in Bad : \A t \in Bad : t \subseteq s => t = s
  <2>1. Bad \in SUBSET SUBSET (S \cap T)
    OBVIOUS
  <2> HIDE DEF Bad
  <2> QED BY <1>1, <1>2, <2>1, SmallestSubset
<1> DEFINE x == AnyOf(s)
<1>4. /\ Sums(F, S)[s] = IF s = {} THEN 0 ELSE F[x] + Sums(F, S)[s \ {x}]
      /\ Sums(G, T)[s] = IF s = {} THEN 0 ELSE G[x] + Sums(G, T)[s \ {x}]
  BY SumStep
<1>5. s # {} /\ x \in s
  BY <1>4 DEF AnyOf
<1> HIDE DEF x
<1>6. Sums(F, S)[s \ {x}] = Sums(G, T)[s \ {x}]
  BY <1>3, <1>5
<1> QED BY <1>4, <1>5, <1>6

LEMMA SumOfEqual ==
    ASSUME NEW S, IsFiniteSet(S), NEW F, NEW G, \A x \in S : F[x] = G[x]
    PROVE  SumOver(F, S) = SumOver(G, S)
<1>1. \A s \in SUBSET (S \cap S) : Sums(F, S)[s] = Sums(G, S)[s]
  BY SumAgrees
<1> QED BY <1>1 DEF SumOver

LEMMA SumOfNone == \A F : SumOver(F, {}) = 0
<1> TAKE F
<1>1. IsFiniteSet({}) /\ {} \in SUBSET {}
  BY FS_EmptySet
<1>2. Sums(F, {})[{}] = 0
  BY <1>1, SumStep
<1> QED BY <1>2 DEF SumOver

LEMMA SumWithout ==
    ASSUME NEW S, IsFiniteSet(S), NEW F, \A x \in S : F[x] \in Int
    PROVE  /\ SumOver(F, S) \in Int
           /\ \A a \in S : SumOver(F, S) = F[a] + SumOver(F, S \ {a})
<1>1. /\ Sums(F, S)[S] \in Int
      /\ \A a \in S : Sums(F, S)[S] = F[a] + Sums(F, S)[S \ {a}]
  <2>1. S \in SUBSET S
    OBVIOUS
  <2>2. Sums(F, S)[S] \in Int
    BY <2>1, SumElement
  <2>3. ASSUME NEW a \in S
        PROVE  Sums(F, S)[S] = F[a] + Sums(F, S)[S \ {a}]
    BY <2>1, <2>3, SumElement
  <2> QED BY <2>2, <2>3
<1>2. ASSUME NEW a \in S
      PROVE  Sums(F, S)[S \ {a}] = Sums(F, S \ {a})[S \ {a}]
  <2>1. IsFiniteSet(S \ {a}) /\ S \ {a} \in SUBSET (S \cap (S \ {a}))
    BY FS_RemoveElement
  <2>2. \A s \in SUBSET (S \cap (S \ {a})) : Sums(F, S)[s] = Sums(F, S \ {a})[s]
    BY <2>1, SumAgrees
  <2> QED BY <2>1, <2>2
<1> QED BY <1>1, <1>2 DEF SumOver

\* One element's value changes.
LEMMA SumChanged ==
    ASSUME NEW S, IsFiniteSet(S), NEW F, \A x \in S : F[x] \in Int, NEW a \in S,
           NEW G, G[a] \in Int, \A x \in S \ {a} : G[x] = F[x]
    PROVE  SumOver(G, S) = SumOver(F, S) + G[a] - F[a]
<1>1. \A x \in S : G[x] \in Int
  OBVIOUS
<1>2. IsFiniteSet(S \ {a}) /\ SumOver(F, S \ {a}) = SumOver(G, S \ {a})
  BY FS_RemoveElement, SumOfEqual
<1>3. SumOver(F, S \ {a}) \in Int
  BY <1>2, SumWithout
<1>4. /\ SumOver(F, S) = F[a] + SumOver(F, S \ {a})
      /\ SumOver(G, S) = G[a] + SumOver(G, S \ {a})
  BY <1>1, SumWithout
<1> QED BY <1>2, <1>3, <1>4

\* The sum of what is linear in two functions.
LEMMA SumOfLinear ==
    ASSUME NEW S, IsFiniteSet(S), NEW d \in Int,
           NEW F, \A x \in S : F[x] \in Int, NEW G, \A x \in S : G[x] \in Int,
           NEW H, \A x \in S : H[x] = F[x] + d * G[x]
    PROVE  SumOver(H, S) = SumOver(F, S) + d * SumOver(G, S)
<1> DEFINE Good(s) == Sums(H, S)[s] = Sums(F, S)[s] + d * Sums(G, S)[s]
           Bad == {s \in SUBSET S : ~Good(s)}
<1>1. SUFFICES ASSUME Bad # {} PROVE FALSE
  <2>1. Good(S)
    BY <1>1
  <2> QED BY <2>1 DEF SumOver
<1>2. PICK s \in Bad : \A t \in Bad : t \subseteq s => t = s
  <2>1. Bad \in SUBSET SUBSET S
    OBVIOUS
  <2> HIDE DEF Bad
  <2> QED BY <1>1, <2>1, SmallestSubset
<1>3. s # {}
  <2>1. s = {} => Sums(H, S)[s] = 0 /\ Sums(F, S)[s] = 0 /\ Sums(G, S)[s] = 0
    BY SumStep
  <2> QED BY <1>2, <2>1
<1>4. PICK a \in s : TRUE
  BY <1>3
<1>5. Good(s \ {a})
  BY <1>2, <1>4
<1>6. /\ Sums(H, S)[s] = H[a] + Sums(H, S)[s \ {a}]
      /\ Sums(F, S)[s] = F[a] + Sums(F, S)[s \ {a}]
      /\ Sums(G, S)[s] = G[a] + Sums(G, S)[s \ {a}]
  <2>1. \A x \in S : H[x] \in Int
    <3> TAKE x \in S
    <3>1. F[x] \in Int /\ G[x] \in Int /\ H[x] = F[x] + d * G[x]
      OBVIOUS
    <3> QED BY <3>1
  <2> QED BY <1>4, <2>1, SumElement
<1> DEFINE f == Sums(F, S)[s \ {a}]  g == Sums(G, S)[s \ {a}]
<1>7. /\ f \in Int /\ g \in Int /\ F[a] \in Int /\ G[a] \in Int
      /\ H[a] = F[a] + d * G[a]
  BY <1>4, SumElement
<1>8. Sums(H, S)[s \ {a}] = f + d * g
  BY <1>5
<1> HIDE DEF f, g
<1>9. (F[a] + d * G[a]) + (f + d * g) = (F[a] + f) + d * (G[a] + g)
  BY <1>7
<1>10. Good(s)
  BY <1>6, <1>7, <1>8, <1>9 DEF f, g
<1> QED BY <1>2, <1>10

\* No value is more than the sum of all, if none is negative.
LEMMA SumOfNumbers ==
    ASSUME NEW S, IsFiniteSet(S), NEW F, \A x \in S : F[x] \in Nat
    PROVE  SumOver(F, S) \in Nat /\ \A a \in S : F[a] <= SumOver(F, S)
<1> DEFINE Bad == {s \in SUBSET S : Sums(F, S)[s] \notin Nat}
<1>1. Bad = {}
  <2>1. SUFFICES ASSUME Bad # {} PROVE FALSE
    OBVIOUS
  <2>2. PICK s \in Bad : \A t \in Bad : t \subseteq s => t = s
    <3>1. Bad \in SUBSET SUBSET S
      OBVIOUS
    <3> HIDE DEF Bad
    <3> QED BY <2>1, <3>1, SmallestSubset
  <2>3. s # {}
    BY <2>2, SumStep
  <2>4. PICK a \in s : TRUE
    BY <2>3
  <2>5. Sums(F, S)[s \ {a}] \in Nat
    BY <2>2, <2>4
  <2>6. Sums(F, S)[s] = F[a] + Sums(F, S)[s \ {a}]
    BY <2>4, SumElement
  <2> QED BY <2>4, <2>5, <2>6
<1>2. ASSUME NEW a \in S
      PROVE  Sums(F, S)[S] = F[a] + Sums(F, S)[S \ {a}] /\ Sums(F, S)[S \ {a}] \in Nat
  BY <1>1, SumElement
<1>3. Sums(F, S)[S] \in Nat
  BY <1>1
<1>4. ASSUME NEW a \in S
      PROVE  F[a] <= Sums(F, S)[S]
  <2> DEFINE rest == Sums(F, S)[S \ {a}]
  <2>1. Sums(F, S)[S] = F[a] + rest /\ rest \in Nat /\ F[a] \in Nat
    BY <1>2
  <2> HIDE DEF rest
  <2> QED BY <2>1
<1> QED BY <1>3, <1>4 DEF SumOver

------------------------------------------------------------------------------
(* Balances *)

LEMMA BalanceSet ==
    ASSUME NEW b \in [Addresses -> Nat], NEW a \in Addresses, NEW n \in Nat
    PROVE  /\ [b EXCEPT ![a] = n] \in [Addresses -> Nat]
           /\ SumOver([b EXCEPT ![a] = n], Addresses) = SumOver(b, Addresses) + n - b[a]
           /\ SumOver(b, Addresses) \in Nat /\ b[a] <= SumOver(b, Addresses)
<1> DEFINE c == [b EXCEPT ![a] = n]
<1>1. /\ c \in [Addresses -> Nat] /\ c[a] = n
      /\ \A x \in Addresses \ {a} : c[x] = b[x]
  OBVIOUS
<1>2. \A x \in Addresses : b[x] \in Nat /\ b[x] \in Int
  OBVIOUS
<1> HIDE DEF c
<1>3. SumOver(c, Addresses) = SumOver(b, Addresses) + c[a] - b[a]
  BY <1>1, <1>2, UsersAssumption, SumChanged
<1>4. SumOver(b, Addresses) \in Nat /\ b[a] <= SumOver(b, Addresses)
  BY <1>2, UsersAssumption, SumOfNumbers
<1> QED BY <1>1, <1>3, <1>4 DEF c

BalanceBecomes(c, b, a, n) == c = [b EXCEPT ![a] = n]

LEMMA BalanceIs ==
    ASSUME NEW b \in [Addresses -> Nat], NEW a \in Addresses, NEW n \in Nat,
           NEW c, BalanceBecomes(c, b, a, n)
    PROVE  /\ c \in [Addresses -> Nat]
           /\ SumOver(c, Addresses) = SumOver(b, Addresses) + n - b[a]
           /\ SumOver(b, Addresses) \in Nat /\ b[a] <= SumOver(b, Addresses)
  BY BalanceSet DEF BalanceBecomes

AfterMove(b, from, to, n) == [[b EXCEPT ![from] = @ - n] EXCEPT ![to] = @ + n]

\* What one address gives another, or itself, leaves the sum as it was.
LEMMA BalancesMoved ==
    ASSUME NEW b \in [Addresses -> Nat], NEW from \in Addresses, NEW to \in Addresses,
           NEW n \in Nat, n <= b[from]
    PROVE  /\ AfterMove(b, from, to, n) \in [Addresses -> Nat]
           /\ SumOver(AfterMove(b, from, to, n), Addresses) = SumOver(b, Addresses)
<1> DEFINE d == [b EXCEPT ![from] = b[from] - n]
           c == AfterMove(b, from, to, n)
<1>1. b[from] - n \in Nat /\ b[from] \in Nat
  OBVIOUS
<1>2. /\ d \in [Addresses -> Nat] /\ d[to] \in Nat
      /\ SumOver(d, Addresses) = SumOver(b, Addresses) + (b[from] - n) - b[from]
      /\ SumOver(b, Addresses) \in Nat
  <2>1. PICK m \in Nat : m = b[from] - n
    BY <1>1
  <2>2. BalanceBecomes(d, b, from, m)
    BY <2>1 DEF BalanceBecomes
  <2> HIDE DEF d
  <2>3. /\ d \in [Addresses -> Nat] /\ SumOver(b, Addresses) \in Nat
        /\ SumOver(d, Addresses) = SumOver(b, Addresses) + m - b[from]
    BY <2>2, BalanceIs
  <2> QED BY <2>1, <2>3
<1> HIDE DEF d
<1>3. c = [d EXCEPT ![to] = d[to] + n]
  BY DEF d, AfterMove
<1> HIDE DEF c
<1>4. /\ c \in [Addresses -> Nat]
      /\ SumOver(c, Addresses) = SumOver(d, Addresses) + (d[to] + n) - d[to]
      /\ SumOver(d, Addresses) \in Nat
  <2>1. PICK m \in Nat : m = d[to] + n
    BY <1>2
  <2>2. BalanceBecomes(c, d, to, m)
    BY <1>3, <2>1 DEF BalanceBecomes
  <2>3. /\ c \in [Addresses -> Nat] /\ SumOver(d, Addresses) \in Nat
        /\ SumOver(c, Addresses) = SumOver(d, Addresses) + m - d[to]
    BY <1>2, <2>2, BalanceIs
  <2> QED BY <2>1, <2>3
<1> QED BY <1>1, <1>2, <1>4 DEF c

LEMMA NoBalances ==
    ASSUME NEW b, b = [a \in Addresses |-> 0]
    PROVE  b \in [Addresses -> Nat] /\ SumOver(b, Addresses) = 0
<1>1. \A x \in Addresses : b[x] = 0 /\ b[x] \in Int
  OBVIOUS
<1>2. \A x \in Addresses : b[x] = b[x] + 1 * b[x]
  BY <1>1
<1>3. SumOver(b, Addresses) = SumOver(b, Addresses) + 1 * SumOver(b, Addresses)
  BY <1>1, <1>2, UsersAssumption, SumOfLinear
<1>4. SumOver(b, Addresses) \in Int
  BY <1>1, UsersAssumption, SumWithout
<1>5. SumOver(b, Addresses) = 0
  <2>1. PICK n \in Int : n = SumOver(b, Addresses)
    BY <1>4
  <2>2. n = n + 1 * n
    BY <1>3, <2>1
  <2>3. \A i \in Int : i + 1 * i = i => i = 0
    OBVIOUS
  <2>4. n = 0
    BY <2>2, <2>3
  <2> QED BY <2>1, <2>4
<1>6. b \in [Addresses -> Nat]
  OBVIOUS
<1> QED BY <1>5, <1>6

------------------------------------------------------------------------------
(* The token *)

TokenFields == {"admin", "supply", "balance", "allowance", "operators", "nonce"}

TokenSafe ==
    /\ DOMAIN store = TokenFields
    /\ store.balance \in [Addresses -> Nat]
    /\ store.supply = SumOver(store.balance, Addresses)

LEMMA TokenSolvent == TokenSafe => Token!SupplyIsHeld
<1>1. Token!SupplyIsHeld <=> store.supply = SumOver(store.balance, Addresses)
  BY DEF Token!SupplyIsHeld, Token!MapThenSumSet, Token!MapThenFoldSet,
     SumOver, Sums, SumRule, AnyOf
<1> QED BY <1>1 DEF TokenSafe

LEMMA TokenInit == Token!Init => TokenSafe
  BY NoBalances DEF Token!Init, TokenSafe, TokenFields

LEMMA TokenStep == TokenSafe /\ Token!Next => TokenSafe'
<1> SUFFICES ASSUME TokenSafe, Token!Next PROVE TokenSafe'
  OBVIOUS
<1> USE DEF TokenFields
<1>a. /\ DOMAIN store = TokenFields /\ store.balance \in [Addresses -> Nat]
      /\ store.supply = SumOver(store.balance, Addresses)
  BY DEF TokenSafe
<1>b. ASSUME DOMAIN store' = TokenFields, store'.balance \in [Addresses -> Nat],
             store'.supply = SumOver(store'.balance, Addresses)
      PROVE  TokenSafe'
  BY <1>b DEF TokenSafe
<1>c. ASSUME NEW s, DOMAIN s = TokenFields, s.balance = store.balance,
             s.supply = store.supply,
             NEW from \in Addresses, NEW to \in Addresses, NEW n \in Nat,
             n <= store.balance[from]
      PROVE  /\ DOMAIN Token!Moved(s, from, to, n) = TokenFields
             /\ Token!Moved(s, from, to, n).balance \in [Addresses -> Nat]
             /\ Token!Moved(s, from, to, n).supply
                    = SumOver(Token!Moved(s, from, to, n).balance, Addresses)
  <2> DEFINE c == AfterMove(s.balance, from, to, n)
  <2>1. c \in [Addresses -> Nat] /\ SumOver(c, Addresses) = s.supply
    BY <1>a, <1>c, BalancesMoved
  <2>2. Token!Moved(s, from, to, n) = [s EXCEPT !.balance = c]
    BY DEF Token!Moved, AfterMove
  <2> HIDE DEF c
  <2> QED BY <1>c, <2>1, <2>2
<1>1. ASSUME NEW a \in Addresses, Token!Mint(a, 1) \/ Token!Burn(a, 1)
      PROVE  TokenSafe'
  <2>1. PICK n \in Nat, supply \in Int :
            /\ supply = store.supply + n - store.balance[a]
            /\ store' = [store EXCEPT !.balance = [store.balance EXCEPT ![a] = n],
                                      !.supply = supply]
    <3>1. CASE Token!Mint(a, 1)
      <4>1. store.balance[a] + 1 \in Nat
        BY <1>a
      <4>2. store.supply + 1 \in Int /\ store.supply + 1 = store.supply + (store.balance[a] + 1) - store.balance[a]
        BY <1>a, BalanceSet
      <4>3. store' = [store EXCEPT
                !.balance = [store.balance EXCEPT ![a] = store.balance[a] + 1],
                !.supply = store.supply + 1]
        BY <3>1 DEF Token!Mint
      <4> QED BY <4>1, <4>2, <4>3
    <3>2. CASE Token!Burn(a, 1)
      <4>1. store.balance[a] - 1 \in Nat
        BY <1>a, <3>2 DEF Token!Burn
      <4>2. store.supply - 1 \in Int /\ store.supply - 1 = store.supply + (store.balance[a] - 1) - store.balance[a]
        BY <1>a, BalanceSet
      <4>3. store' = [store EXCEPT
                !.balance = [store.balance EXCEPT ![a] = store.balance[a] - 1],
                !.supply = store.supply - 1]
        BY <3>2 DEF Token!Burn
      <4> QED BY <4>1, <4>2, <4>3
    <3> QED BY <1>1, <3>1, <3>2
  <2> DEFINE b == [store.balance EXCEPT ![a] = n]
  <2>2. b \in [Addresses -> Nat] /\ SumOver(b, Addresses) = supply
    BY <1>a, <2>1, BalanceSet
  <2> HIDE DEF b
  <2>3. store' = [store EXCEPT !.balance = b, !.supply = supply]
    BY <2>1 DEF b
  <2> QED BY <1>a, <1>b, <2>2, <2>3
<1>2. ASSUME NEW a \in Addresses, NEW b \in Addresses, Token!Transfer(a, b, 1)
      PROVE  TokenSafe'
  BY <1>2, <1>a, <1>b, <1>c DEF Token!Transfer
<1>3. ASSUME NEW a \in Addresses, NEW b \in Addresses, Token!BatchTransfer(a, b, 1, 1)
      PROVE  TokenSafe'
  <2> DEFINE s == Token!Moved(store, a, b, 1)
             c == AfterMove(s.balance, a, b, 1)
  <2>1. /\ DOMAIN s = TokenFields /\ s.balance \in [Addresses -> Nat]
        /\ s.supply = SumOver(s.balance, Addresses)
        /\ s.balance[a] >= 1
    BY <1>3, <1>a, <1>c DEF Token!BatchTransfer
  <2>2. store' = [s EXCEPT !.balance = c]
    BY <1>3 DEF Token!BatchTransfer, Token!Moved, AfterMove
  <2> HIDE DEF s
  <2>3. c \in [Addresses -> Nat] /\ SumOver(c, Addresses) = s.supply
    <3>1. PICK f \in [Addresses -> Nat] : f = s.balance
      BY <2>1
    <3>2. 1 <= f[a] /\ 1 \in Nat /\ s.supply = SumOver(f, Addresses)
      BY <2>1, <3>1
    <3>3. c = AfterMove(f, a, b, 1)
      BY <3>1
    <3> HIDE DEF c
    <3> QED BY <3>2, <3>3, BalancesMoved
  <2> HIDE DEF c
  <2> QED BY <1>b, <2>1, <2>2, <2>3
<1>4. ASSUME NEW a \in Addresses, NEW b \in Addresses, NEW c \in Addresses,
             Token!TransferFrom(a, b, c, 1)
      PROVE  TokenSafe'
  <2>1. PICK s : /\ DOMAIN s = TokenFields /\ s.balance = store.balance
                 /\ s.supply = store.supply
                 /\ store' = Token!Moved(s, b, c, 1) /\ store.balance[b] >= 1
    <3> DEFINE s == IF <<b, a>> \in store.operators THEN store
                    ELSE [store EXCEPT !.allowance[<<b, a>>] =
                            IF Token!Allowance(<<b, a>>) - 1 = 0 THEN Token!NoAllowance
                            ELSE [@ EXCEPT !.amount = Token!Allowance(<<b, a>>) - 1]]
    <3>1. store' = Token!Moved(s, b, c, 1) /\ store.balance[b] >= 1
      BY <1>4 DEF Token!TransferFrom
    <3>2. DOMAIN s = TokenFields /\ s.balance = store.balance /\ s.supply = store.supply
      BY <1>a
    <3> HIDE DEF s
    <3> QED BY <3>1, <3>2
  <2> QED BY <1>b, <1>c, <2>1
<1>5. CASE /\ DOMAIN store' = TokenFields /\ store'.balance = store.balance
           /\ store'.supply = store.supply
  BY <1>5, <1>a, <1>b
<1>6. ASSUME NEW a \in Addresses, NEW b \in Addresses, NEW n, NEW e,
             \/ Token!Initialize(a) \/ Token!Approve(a, b, n, e)
             \/ Token!SetApprovalForAll(a, b, e)
             \/ Token!PurgeExpiredAllowance(<<a, b>>)
      PROVE  TokenSafe'
  BY <1>5, <1>6, <1>a
  DEF Token!Initialize, Token!Approve, Token!SetApprovalForAll,
      Token!PurgeExpiredAllowance
<1>7. ASSUME NEW p \in Token!Permits, Token!Permit(p)
      PROVE  TokenSafe'
  BY <1>5, <1>7, <1>a DEF Token!Permit
<1>8. CASE Token!TimePasses
  BY <1>5, <1>8, <1>a DEF Token!TimePasses
<1> QED BY <1>1, <1>2, <1>3, <1>4, <1>6, <1>7, <1>8 DEF Token!Next

------------------------------------------------------------------------------
(* Wrapped XLM *)

WrapperFields ==
    {"admin", "paused", "supply", "cap", "balance", "allowance", "operators", "trustlines"}

WrapperSafe ==
    /\ DOMAIN store = WrapperFields
    /\ store.balance \in [Addresses -> Nat]
    /\ store.supply = SumOver(store.balance, Addresses)
    /\ held \in [Addresses \cup {WrapperAddress} -> Int]
    /\ store.supply <= held[WrapperAddress]

LEMMA WrapperSolvent == WrapperSafe => Wrapper!Redeemable
<1>1. Wrapper!Redeemable <=> /\ store.supply = SumOver(store.balance, Addresses)
                             /\ store.supply <= held[WrapperAddress]
  BY DEF Wrapper!Redeemable, Wrapper!MapThenSumSet, Wrapper!MapThenFoldSet,
     SumOver, Sums, SumRule, AnyOf
<1> QED BY <1>1 DEF WrapperSafe

LEMMA WrapperInit == Wrapper!Init => WrapperSafe
  BY NoBalances, WrapperAssumption DEF Wrapper!Init, WrapperSafe, WrapperFields

LEMMA WrapperStep == WrapperSafe /\ Wrapper!Next => WrapperSafe'
<1> SUFFICES ASSUME WrapperSafe, Wrapper!Next PROVE WrapperSafe'
  OBVIOUS
<1> USE WrapperAssumption DEF WrapperFields
<1>a. /\ DOMAIN store = WrapperFields /\ store.balance \in [Addresses -> Nat]
      /\ store.supply = SumOver(store.balance, Addresses)
      /\ held \in [Addresses \cup {WrapperAddress} -> Int]
      /\ store.supply <= held[WrapperAddress]
  BY DEF WrapperSafe
<1>b. ASSUME DOMAIN store' = WrapperFields, store'.balance \in [Addresses -> Nat],
             store'.supply = SumOver(store'.balance, Addresses),
             held' \in [Addresses \cup {WrapperAddress} -> Int],
             store'.supply <= held'[WrapperAddress]
      PROVE  WrapperSafe'
  BY <1>b DEF WrapperSafe
<1>c. ASSUME NEW s, DOMAIN s = WrapperFields, s.balance = store.balance,
             s.supply = store.supply,
             NEW from \in Addresses, NEW to \in Addresses, 1 <= store.balance[from],
             store' = Wrapper!Moved(s, from, to, 1), held' = held
      PROVE  WrapperSafe'
  <2> DEFINE c == AfterMove(s.balance, from, to, 1)
  <2>1. c \in [Addresses -> Nat] /\ SumOver(c, Addresses) = store.supply
    BY <1>a, <1>c, BalancesMoved
  <2>2. store' = [s EXCEPT !.balance = c]
    BY <1>c DEF Wrapper!Moved, AfterMove
  <2> HIDE DEF c
  <2> QED BY <1>a, <1>b, <1>c, <2>1, <2>2
\* One balance and the supply change by as much, and the XLM held by no less.
<1>d. ASSUME NEW a \in Addresses, NEW d \in {-1, 1}, store.balance[a] + d \in Nat,
             store' = [store EXCEPT
                 !.balance = [store.balance EXCEPT ![a] = store.balance[a] + d],
                 !.supply = store.supply + d],
             held' \in [Addresses \cup {WrapperAddress} -> Int],
             held'[WrapperAddress] >= held[WrapperAddress] + d
      PROVE  WrapperSafe'
  <2>1. PICK n \in Nat : n = store.balance[a] + d
    BY <1>d
  <2> DEFINE b == [store.balance EXCEPT ![a] = n]
  <2>2. /\ b \in [Addresses -> Nat] /\ store.supply \in Nat
        /\ SumOver(b, Addresses) = store.supply + n - store.balance[a]
    BY <1>a, BalanceSet
  <2>3. store' = [store EXCEPT !.balance = b, !.supply = store.supply + d]
    BY <1>d, <2>1
  <2> HIDE DEF b
  <2>4. store.supply + n - store.balance[a] = store.supply + d
    BY <1>a, <2>1, <2>2
  <2>5. store.supply + d <= held'[WrapperAddress]
    BY <1>a, <1>d, <2>2
  <2> QED BY <1>a, <1>b, <1>d, <2>2, <2>3, <2>4, <2>5
<1>1. ASSUME NEW a \in Addresses, Wrapper!Deposit(a, 1)
      PROVE  WrapperSafe'
  <2>1. /\ store' = [store EXCEPT
                 !.balance = [store.balance EXCEPT ![a] = store.balance[a] + 1],
                 !.supply = store.supply + 1]
        /\ held' = [held EXCEPT ![a] = @ - 1, ![WrapperAddress] = @ + 1]
    BY <1>1 DEF Wrapper!Deposit
  <2>2. held' \in [Addresses \cup {WrapperAddress} -> Int]
        /\ held'[WrapperAddress] = held[WrapperAddress] + 1
    BY <1>a, <2>1
  <2>3. store.balance[a] + 1 \in Nat /\ held'[WrapperAddress] >= held[WrapperAddress] + 1
    BY <1>a, <2>2
  <2> QED BY <1>d, <2>1, <2>2, <2>3
<1>2. ASSUME NEW a \in Addresses, Wrapper!Withdraw(a, 1)
      PROVE  WrapperSafe'
  <2>1. /\ store' = [store EXCEPT
                 !.balance = [store.balance EXCEPT ![a] = store.balance[a] - 1],
                 !.supply = store.supply - 1]
        /\ held' = [held EXCEPT ![a] = @ + 1, ![WrapperAddress] = @ - 1]
        /\ store.balance[a] >= 1
    BY <1>2 DEF Wrapper!Withdraw
  <2>2. held' \in [Addresses \cup {WrapperAddress} -> Int]
        /\ held'[WrapperAddress] = held[WrapperAddress] - 1
    BY <1>a, <2>1
  <2>3. /\ store.balance[a] - 1 = store.balance[a] + (-1) /\ store.balance[a] + (-1) \in Nat
        /\ store.supply - 1 = store.supply + (-1)
        /\ held'[WrapperAddress] >= held[WrapperAddress] + (-1)
    BY <1>a, <2>1, <2>2, BalanceSet
  <2> QED BY <1>d, <2>1, <2>2, <2>3
<1>3. ASSUME NEW a \in Addresses, Wrapper!Burn(a, 1)
      PROVE  WrapperSafe'
  <2>1. /\ store' = [store EXCEPT
                 !.balance = [store.balance EXCEPT ![a] = store.balance[a] - 1],
                 !.supply = store.supply - 1]
        /\ held' = held
        /\ store.balance[a] >= 1
    BY <1>3 DEF Wrapper!Burn
  <2>2. /\ store.balance[a] - 1 = store.balance[a] + (-1) /\ store.balance[a] + (-1) \in Nat
        /\ store.supply - 1 = store.supply + (-1)
        /\ held[WrapperAddress] >= held[WrapperAddress] + (-1)
    BY <1>a, <2>1, BalanceSet
  <2> QED BY <1>a, <1>d, <2>1, <2>2
<1>4. ASSUME NEW a \in Addresses, NEW b \in Addresses, Wrapper!Transfer(a, b, 1)
      PROVE  WrapperSafe'
  BY <1>4, <1>a, <1>c DEF Wrapper!Transfer
<1>5. ASSUME NEW a \in Addresses, NEW b \in Addresses, NEW c \in Addresses,
             Wrapper!TransferFrom(a, b, c, 1)
      PROVE  WrapperSafe'
  <2> DEFINE s == [store EXCEPT !.allowance[<<b, a>>] =
                      IF <<b, a>> \in store.operators THEN @ ELSE @ - 1]
  <2>1. store' = Wrapper!Moved(s, b, c, 1) /\ store.balance[b] >= 1 /\ held' = held
    BY <1>5 DEF Wrapper!TransferFrom
  <2>2. DOMAIN s = WrapperFields /\ s.balance = store.balance /\ s.supply = store.supply
    BY <1>a
  <2> HIDE DEF s
  <2> QED BY <1>c, <2>1, <2>2
<1>6. CASE /\ DOMAIN store' = WrapperFields /\ store'.balance = store.balance
           /\ store'.supply = store.supply /\ held' = held
  BY <1>6, <1>a, <1>b
<1>7. ASSUME NEW a, NEW b, NEW n,
             \/ Wrapper!Initialize(a) \/ Wrapper!SetTrustlineCount(a, n)
             \/ Wrapper!Approve(<<a, b>>, n) \/ Wrapper!ChangeAllowance(<<a, b>>, n)
             \/ Wrapper!SetApprovalForAll(<<a, b>>, n)
             \/ Wrapper!SetPaused(n) \/ Wrapper!SetMaxSupply(n)
      PROVE  WrapperSafe'
  BY <1>6, <1>7, <1>a
  DEF Wrapper!Initialize, Wrapper!SetTrustlineCount, Wrapper!Approve,
      Wrapper!ChangeAllowance, Wrapper!SetApprovalForAll, Wrapper!SetPaused,
      Wrapper!SetMaxSupply
<1> QED BY <1>1, <1>2, <1>3, <1>4, <1>5, <1>7 DEF Wrapper!Next

------------------------------------------------------------------------------
(* Vesting *)

VestingGrant ==
    [total : Nat, claimed : Nat, start : Nat, cliff : Nat,
     duration : Nat \ {0}, revocable : BOOLEAN, revoked : BOOLEAN]

VestingSafe ==
    /\ store \in [admin : Somebody, grants : Seq(VestingGrant)]
    /\ now \in Nat
    /\ held = SumOver(Vesting!Left, 1 .. Len(store.grants))

\* The grants are numbered from one.
LEMMA GrantIds ==
    ASSUME VestingSafe
    PROVE  /\ DOMAIN store.grants = 1 .. Len(store.grants)
           /\ Vesting!Left = [id \in 1 .. Len(store.grants) |->
                                 store.grants[id].total - store.grants[id].claimed]
  BY DEF VestingSafe, Vesting!Left

LEMMA VestingSolvent == VestingSafe => Vesting!Solvent
<1>1. Vesting!Solvent <=> held = SumOver(Vesting!Left, DOMAIN store.grants)
  BY DEF Vesting!Solvent, Vesting!MapThenSumSet, Vesting!MapThenFoldSet,
     SumOver, Sums, SumRule, AnyOf
<1> QED BY <1>1, GrantIds DEF VestingSafe

LEMMA VestingInit == Vesting!Init => VestingSafe
<1> SUFFICES ASSUME Vesting!Init PROVE VestingSafe
  OBVIOUS
<1>1. /\ store = [admin |-> Nobody, grants |-> <<>>] /\ held = 0 /\ now = 0
  BY DEF Vesting!Init, Vesting!Deployed
<1>2. Len(store.grants) = 0 /\ 1 .. 0 = {}
  BY <1>1
<1>3. SumOver(Vesting!Left, 1 .. Len(store.grants)) = 0
  BY <1>2, SumOfNone
<1> QED BY <1>1, <1>3 DEF VestingSafe, Somebody

\* What has vested of a grant is a number.
LEMMA VestedIsNumber ==
    ASSUME NEW g \in VestingGrant, now \in Nat
    PROVE  Vesting!Vested(g) \in Nat
<1>1. ASSUME now >= g.start + g.cliff
      PROVE  (g.total * (now - g.start)) \div g.duration \in Nat
  <2>1. /\ g.total \in Nat /\ g.start \in Nat /\ g.cliff \in Nat
        /\ g.duration \in Nat /\ g.duration > 0
    BY DEF VestingGrant
  <2>2. PICK t \in Nat : t = now - g.start
    BY <1>1, <2>1
  <2>3. PICK p \in Nat : p = g.total * t
    BY <2>1
  <2>4. p \div g.duration \in Nat
    BY <2>1
  <2> QED BY <2>2, <2>3, <2>4
<1>2. /\ g.total \in Nat /\ g.revoked \in BOOLEAN
      /\ g.start \in Nat /\ g.cliff \in Nat /\ g.duration \in Nat
  BY DEF VestingGrant
<1>3. CASE g.revoked \/ now < g.start + g.cliff
  BY <1>2, <1>3 DEF Vesting!Vested
<1>4. CASE ~g.revoked /\ now >= g.start + g.cliff
  <2>1. CASE now >= g.start + g.duration
    BY <1>2, <1>4, <2>1 DEF Vesting!Vested
  <2>2. CASE ~(now >= g.start + g.duration)
    <3>1. ~(now < g.start + g.cliff)
      BY <1>2, <1>4
    <3>2. Vesting!Vested(g) = (g.total * (now - g.start)) \div g.duration
      BY <1>4, <2>2, <3>1 DEF Vesting!Vested
    <3> QED BY <1>1, <1>4, <3>2
  <2> QED BY <2>1, <2>2
<1> QED BY <1>2, <1>3, <1>4

LEMMA VestingStep == VestingSafe /\ Vesting!Next => VestingSafe'
<1> SUFFICES ASSUME VestingSafe, Vesting!Next PROVE VestingSafe'
  OBVIOUS
<1>a. /\ store \in [admin : Somebody, grants : Seq(VestingGrant)]
      /\ now \in Nat /\ held = SumOver(Vesting!Left, 1 .. Len(store.grants))
      /\ Len(store.grants) \in Nat
      /\ \A id \in 1 .. Len(store.grants) : store.grants[id] \in VestingGrant
  BY DEF VestingSafe
<1>b. /\ IsFiniteSet(1 .. Len(store.grants))
      /\ \A id \in 1 .. Len(store.grants) :
             /\ Vesting!Left[id] = store.grants[id].total - store.grants[id].claimed
             /\ Vesting!Left[id] \in Int
      /\ held \in Int
  <2>1. IsFiniteSet(1 .. Len(store.grants))
    BY <1>a, FS_Interval
  <2>2. \A id \in 1 .. Len(store.grants) :
             /\ Vesting!Left[id] = store.grants[id].total - store.grants[id].claimed
             /\ Vesting!Left[id] \in Int
    <3> TAKE id \in 1 .. Len(store.grants)
    <3>1. store.grants[id].total \in Nat /\ store.grants[id].claimed \in Nat
      BY <1>a DEF VestingGrant
    <3>2. Vesting!Left[id] = store.grants[id].total - store.grants[id].claimed
      BY GrantIds
    <3> QED BY <3>1, <3>2
  <2> QED BY <1>a, <2>1, <2>2, SumWithout
\* One grant is replaced: what it has left and what is held change by as much.
<1>c. ASSUME NEW id \in 1 .. Len(store.grants), NEW g \in VestingGrant,
             store' = [store EXCEPT !.grants = [store.grants EXCEPT ![id] = g]],
             held' = held + (g.total - g.claimed) - Vesting!Left[id], now' = now
      PROVE  VestingSafe'
  <2> DEFINE grants == [store.grants EXCEPT ![id] = g]
  <2>1. /\ grants \in Seq(VestingGrant) /\ Len(grants) = Len(store.grants)
        /\ grants[id] = g
        /\ \A i \in (1 .. Len(store.grants)) \ {id} : grants[i] = store.grants[i]
    BY <1>a
  <2> HIDE DEF grants
  <2>2. store' = [store EXCEPT !.grants = grants]
    BY <1>c DEF grants
  <2>3. store'.grants = grants /\ store' \in [admin : Somebody, grants : Seq(VestingGrant)]
    BY <1>a, <2>1, <2>2
  <2> DEFINE before == [i \in 1 .. Len(store.grants) |->
                           store.grants[i].total - store.grants[i].claimed]
             after == [i \in 1 .. Len(grants) |-> grants[i].total - grants[i].claimed]
  <2>6. before = Vesting!Left /\ after = Vesting!Left'
    BY <2>1, <2>3, GrantIds DEF Vesting!Left
  <2>10. PICK ids : ids = 1 .. Len(store.grants)
    OBVIOUS
  <2>4. PICK F, G : F = before /\ G = after
    OBVIOUS
  <2>7. G[id] = g.total - g.claimed /\ G[id] \in Int
    <3>1. g.total \in Nat /\ g.claimed \in Nat
      BY DEF VestingGrant
    <3>2. G[id] = g.total - g.claimed
      BY <2>1, <2>4
    <3> QED BY <3>1, <3>2
  <2>8. \A i \in (1 .. Len(store.grants)) \ {id} : G[i] = F[i]
    BY <2>1, <2>4
  <2>9. \A i \in 1 .. Len(store.grants) : F[i] \in Int
    BY <1>b, <2>4, <2>6
  <2> HIDE DEF before, after
  <2>11. PICK k : k = id
    OBVIOUS
  <2>12. /\ IsFiniteSet(ids) /\ k \in ids /\ G[k] \in Int
         /\ \A i \in ids : F[i] \in Int
         /\ \A i \in ids \ {k} : G[i] = F[i]
    BY <1>b, <2>7, <2>8, <2>9, <2>10, <2>11
  <2>5. SumOver(G, ids) = SumOver(F, ids) + G[k] - F[k]
    BY <2>12, SumChanged
  <2> QED BY <1>a, <1>b, <1>c, <2>1, <2>3, <2>4, <2>5, <2>6,
    <2>7, <2>10, <2>11 DEF VestingSafe
<1>1. ASSUME NEW a \in Addresses, Vesting!Initialize(a) \/ Vesting!SetAdmin(a)
      PROVE  VestingSafe'
  <2>1. /\ store' = [store EXCEPT !.admin = a] /\ held' = held /\ now' = now
    BY <1>1 DEF Vesting!Initialize, Vesting!SetAdmin, Vesting!Call
  <2>2. store'.grants = store.grants
        /\ store' \in [admin : Somebody, grants : Seq(VestingGrant)]
    BY <1>a, <2>1 DEF Somebody
  <2>3. Vesting!Left' = Vesting!Left
    BY <2>2 DEF Vesting!Left
  <2> QED BY <1>a, <2>1, <2>2, <2>3 DEF VestingSafe
<1>2. ASSUME NEW amount \in {1, GrantAmount}, NEW s \in Schedules,
             NEW revocable \in BOOLEAN, Vesting!CreateGrant(amount, s, revocable)
      PROVE  VestingSafe'
  <2> DEFINE n == Len(store.grants) + 1
             g == [total |-> amount, claimed |-> 0, start |-> s.start,
                   cliff |-> s.cliff, duration |-> s.duration,
                   revocable |-> revocable, revoked |-> FALSE]
             grants == Append(store.grants, g)
  <2>1. /\ s.duration > 0 /\ held' = held + amount /\ now' = now
        /\ store' = [store EXCEPT !.grants = grants]
    BY <1>2 DEF Vesting!CreateGrant, Vesting!Call
  <2>2. g \in VestingGrant /\ g.total - g.claimed = amount /\ amount \in Nat
    BY <2>1, VestingAssumption DEF VestingGrant
  <2> HIDE DEF g
  <2>3. /\ grants \in Seq(VestingGrant) /\ Len(grants) = n /\ grants[n] = g
        /\ DOMAIN grants = 1 .. n /\ n \in 1 .. n
        /\ 1 .. Len(store.grants) \subseteq 1 .. n
        /\ \A i \in 1 .. Len(store.grants) : grants[i] = store.grants[i]
    BY <1>a, <2>2
  <2> HIDE DEF grants
  <2>4. store'.grants = grants /\ store' \in [admin : Somebody, grants : Seq(VestingGrant)]
    BY <1>a, <2>1, <2>3
  <2>5. /\ Vesting!Left'[n] = amount
        /\ \A i \in 1 .. Len(store.grants) : Vesting!Left'[i] = Vesting!Left[i]
    <3>1. Vesting!Left' = [i \in 1 .. n |-> grants[i].total - grants[i].claimed]
      BY <2>3, <2>4 DEF Vesting!Left
    <3> QED BY <1>b, <2>2, <2>3, <3>1
  <2>6. /\ 1 .. n = (1 .. Len(store.grants)) \cup {n} /\ n \notin 1 .. Len(store.grants)
        /\ (1 .. n) \ {n} = 1 .. Len(store.grants) /\ n \in 1 .. n
        /\ IsFiniteSet(1 .. n)
    <3>1. n \in Nat /\ Len(store.grants) = n - 1
      BY <1>a
    <3>2. IsFiniteSet(1 .. n)
      BY <3>1, FS_Interval
    <3> HIDE DEF n
    <3> QED BY <3>1, <3>2
  <2> HIDE DEF n
  <2>7. SumOver(Vesting!Left', 1 .. n) = Vesting!Left'[n] + SumOver(Vesting!Left', 1 .. Len(store.grants))
    <3>1. PICK left : left = Vesting!Left'
      OBVIOUS
    <3>2. \A i \in 1 .. n : left[i] \in Int
      BY <1>b, <2>2, <2>5, <2>6, <3>1
    <3>3. SumOver(left, 1 .. n) = left[n] + SumOver(left, (1 .. n) \ {n})
      BY <2>6, <3>2, SumWithout
    <3> QED BY <2>6, <3>1, <3>3
  <2>8. SumOver(Vesting!Left', 1 .. Len(store.grants)) = SumOver(Vesting!Left, 1 .. Len(store.grants))
    BY <1>b, <2>5, SumOfEqual
  <2> QED BY <1>a, <1>b, <2>1, <2>2, <2>3, <2>4, <2>5, <2>7, <2>8 DEF VestingSafe
<1>3. ASSUME NEW id \in DOMAIN store.grants, Vesting!Claim(id)
      PROVE  VestingSafe'
  <2>1. PICK g \in VestingGrant : g = store.grants[id] /\ id \in 1 .. Len(store.grants)
    BY <1>a
  <2>2. PICK v \in Nat : v = Vesting!Vested(g)
    BY <1>a, VestedIsNumber
  <2> DEFINE h == [g EXCEPT !.claimed = g.claimed + (v - g.claimed)]
  <2>3. /\ v - g.claimed > 0 /\ held' = held - (v - g.claimed) /\ now' = now
        /\ store' = [store EXCEPT !.grants = [store.grants EXCEPT ![id] = h]]
    BY <1>3, <2>1, <2>2 DEF Vesting!Claim, Vesting!SetGrant, Vesting!Call
  <2>4. h \in VestingGrant /\ h.total = g.total /\ h.claimed = v
    <3>1. g.claimed \in Nat /\ g.claimed + (v - g.claimed) = v
      BY <2>1, <2>2 DEF VestingGrant
    <3>2. h = [g EXCEPT !.claimed = v]
      BY <3>1
    <3> HIDE DEF h
    <3> QED BY <2>1, <2>2, <3>2 DEF VestingGrant
  <2> HIDE DEF h
  <2>5. Vesting!Left[id] = g.total - g.claimed /\ g.total \in Nat /\ g.claimed \in Nat
    BY <1>b, <2>1 DEF VestingGrant
  <2>6. held' = held + (h.total - h.claimed) - Vesting!Left[id]
    BY <1>b, <2>2, <2>3, <2>4, <2>5
  <2> QED BY <1>c, <2>1, <2>3, <2>4, <2>6
<1>4. ASSUME NEW id \in DOMAIN store.grants, Vesting!RevokeGrant(id)
      PROVE  VestingSafe'
  <2>1. PICK g \in VestingGrant : g = store.grants[id] /\ id \in 1 .. Len(store.grants)
    BY <1>a
  <2>2. PICK v \in Nat : v = Vesting!Vested(g)
    BY <1>a, VestedIsNumber
  <2> DEFINE h == [g EXCEPT !.total = v, !.revoked = TRUE]
  <2>3. /\ held' = held - (g.total - v) /\ now' = now
        /\ store' = [store EXCEPT !.grants = [store.grants EXCEPT ![id] = h]]
    BY <1>4, <2>1, <2>2 DEF Vesting!RevokeGrant, Vesting!SetGrant, Vesting!Call
  <2>4. h \in VestingGrant /\ h.total = v /\ h.claimed = g.claimed
    BY <2>1, <2>2 DEF VestingGrant
  <2> HIDE DEF h
  <2>5. Vesting!Left[id] = g.total - g.claimed /\ g.total \in Nat /\ g.claimed \in Nat
    BY <1>b, <2>1 DEF VestingGrant
  <2>6. held' = held + (h.total - h.claimed) - Vesting!Left[id]
    BY <1>b, <2>2, <2>3, <2>4, <2>5
  <2> QED BY <1>c, <2>1, <2>3, <2>4, <2>6
<1>5. CASE Vesting!TimePasses
  <2>1. store' = store /\ held' = held /\ now' \in Nat
    BY <1>5, <1>a DEF Vesting!TimePasses
  <2>2. Vesting!Left' = Vesting!Left
    BY <2>1 DEF Vesting!Left
  <2> QED BY <1>a, <2>1, <2>2 DEF VestingSafe
<1> QED BY <1>1, <1>2, <1>3, <1>4, <1>5 DEF Vesting!Next

\* What the linear schedule gives never exceeds the total and never goes down.
LEMMA LinearSchedule ==
    ASSUME NEW total \in Nat, NEW d \in Nat \ {0}, NEW t \in Nat
    PROVE  /\ (total * t) \div d \in Nat
           /\ (total * t) \div d <= (total * (t + 1)) \div d
           /\ t <= d => (total * t) \div d <= total
<1>1. PICK p \in Nat, q \in Nat : p = total * t /\ q = total * (t + 1)
  OBVIOUS
<1>2. p <= q
  <2>1. total * (t + 1) = total * t + total /\ total * t \in Nat
    OBVIOUS
  <2> QED BY <1>1, <2>1
<1>3. PICK x \in Nat, y \in Nat : x = p \div d /\ y = q \div d
  OBVIOUS
<1>4. d * x <= p /\ q < d * y + d
  BY <1>3
<1>5. x <= y
  <2>1. SUFFICES ASSUME x >= y + 1 PROVE FALSE
    BY <1>3
  <2>2. PICK e \in Nat : x = y + 1 + e
    <3>1. x - (y + 1) \in Nat /\ x = y + 1 + (x - (y + 1))
      BY <1>3, <2>1
    <3> QED BY <3>1
  <2>3. d * x = d * y + d + d * e /\ d * e \in Nat /\ d * y \in Nat
    BY <1>3, <2>2
  <2> QED BY <1>1, <1>2, <1>4, <2>3
<1>6. ASSUME t <= d PROVE x <= total
  <2>1. SUFFICES ASSUME x >= total + 1 PROVE FALSE
    BY <1>3
  <2>2. PICK e \in Nat, f \in Nat : x = total + 1 + e /\ d = t + f
    <3>1. /\ x - (total + 1) \in Nat /\ x = total + 1 + (x - (total + 1))
          /\ d - t \in Nat /\ d = t + (d - t)
      BY <1>3, <1>6, <2>1
    <3> QED BY <3>1
  <2>3. /\ d * x = d * total + d + d * e /\ d * e \in Nat
        /\ d * total = t * total + f * total /\ f * total \in Nat /\ t * total \in Nat
        /\ total * t = t * total
    BY <1>3, <2>2
  <2> QED BY <1>1, <1>4, <2>3
<1> QED BY <1>1, <1>3, <1>5, <1>6

LEMMA VestedGrows ==
    ASSUME NEW g \in VestingGrant, now \in Nat, now' = now + 1
    PROVE  Vesting!Vested(g) <= Vesting!Vested(g)'
<1>1. /\ g.total \in Nat /\ g.revoked \in BOOLEAN /\ g.start \in Nat
      /\ g.cliff \in Nat /\ g.duration \in Nat \ {0}
  BY DEF VestingGrant
<1>2. CASE g.revoked
  BY <1>1, <1>2 DEF Vesting!Vested
<1>3. CASE ~g.revoked /\ now < g.start + g.cliff
  <2>1. Vesting!Vested(g) = 0
    <3>1. ~(now >= g.start + g.cliff)
      BY <1>1, <1>3
    <3> QED BY <1>3, <3>1 DEF Vesting!Vested
  <2>2. Vesting!Vested(g)' \in Nat
    <3>1. CASE now' < g.start + g.cliff
      <4>1. ~(now' >= g.start + g.cliff)
        BY <1>1, <3>1
      <4> QED BY <1>3, <3>1, <4>1 DEF Vesting!Vested
    <3>2. CASE now' >= g.start + g.cliff /\ now' >= g.start + g.duration
      <4>1. ~(now' < g.start + g.cliff)
        BY <1>1, <3>2
      <4> QED BY <1>1, <1>3, <3>2, <4>1 DEF Vesting!Vested
    <3>3. CASE now' >= g.start + g.cliff /\ ~(now' >= g.start + g.duration)
      <4>1. ~(now' < g.start + g.cliff)
        BY <1>1, <3>3
      <4>2. Vesting!Vested(g)' = (g.total * (now' - g.start)) \div g.duration
        BY <1>3, <3>3, <4>1 DEF Vesting!Vested
      <4>3. PICK t \in Nat : t = now' - g.start
        BY <1>1, <3>3
      <4> QED BY <1>1, <4>2, <4>3, LinearSchedule
    <3> QED BY <1>1, <3>1, <3>2, <3>3
  <2> QED BY <2>1, <2>2
<1>4. CASE ~g.revoked /\ now >= g.start + g.cliff
  <2>1. /\ ~(now < g.start + g.cliff) /\ ~(now' < g.start + g.cliff)
        /\ now' >= g.start + g.cliff
    BY <1>1, <1>4
  <2>2. CASE now >= g.start + g.duration
    <3>1. now' >= g.start + g.duration
      BY <1>1, <2>2
    <3> QED BY <1>1, <1>4, <2>1, <2>2, <3>1 DEF Vesting!Vested
  <2>3. CASE ~(now >= g.start + g.duration)
    <3>1. PICK t \in Nat : t = now - g.start
      BY <1>1, <1>4
    <3>2. Vesting!Vested(g) = (g.total * t) \div g.duration
      BY <1>4, <2>1, <2>3, <3>1 DEF Vesting!Vested
    <3>3. t < g.duration /\ now' - g.start = t + 1
      BY <1>1, <2>3, <3>1
    <3>4. CASE now' >= g.start + g.duration
      <4>1. Vesting!Vested(g)' = g.total
        BY <1>4, <2>1, <3>4 DEF Vesting!Vested
      <4> QED BY <1>1, <3>2, <3>3, <4>1, LinearSchedule
    <3>5. CASE ~(now' >= g.start + g.duration)
      <4>1. Vesting!Vested(g)' = (g.total * (t + 1)) \div g.duration
        BY <1>4, <2>1, <3>3, <3>5 DEF Vesting!Vested
      <4>2. PICK total \in Nat, d \in Nat \ {0} : total = g.total /\ d = g.duration
        BY <1>1
      <4>3. (total * t) \div d <= (total * (t + 1)) \div d
        BY LinearSchedule
      <4> QED BY <3>2, <4>1, <4>2, <4>3
    <3> QED BY <3>4, <3>5
  <2> QED BY <2>2, <2>3
<1> QED BY <1>1, <1>2, <1>3, <1>4

LEMMA VestedStay == VestingSafe /\ Vesting!Next => Vesting!VestedStaysStep
<1> SUFFICES ASSUME VestingSafe, Vesting!Next, NEW id \in DOMAIN store.grants
             PROVE  Vesting!Vested(store.grants[id]) <= Vesting!Vested(store.grants[id])'
  BY DEF Vesting!VestedStaysStep
<1>g. PICK g \in VestingGrant : g = store.grants[id]
  BY DEF VestingSafe
<1>a. /\ DOMAIN store.grants = 1 .. Len(store.grants) /\ now \in Nat
      /\ store \in [admin : Somebody, grants : Seq(VestingGrant)]
      /\ store.grants \in Seq(VestingGrant)
      /\ Vesting!Vested(g) \in Nat
  BY VestedIsNumber DEF VestingSafe
<1>1. CASE now' = now /\ store'.grants[id] = g
  <2>1. Vesting!Vested(store.grants[id])' = Vesting!Vested(g)
    BY <1>1 DEF Vesting!Vested
  <2> QED BY <1>a, <1>g, <2>1
<1>2. ASSUME NEW a, Vesting!Initialize(a) \/ Vesting!SetAdmin(a)
      PROVE  now' = now /\ store'.grants[id] = g
  BY <1>2, <1>a, <1>g DEF Vesting!Initialize, Vesting!SetAdmin, Vesting!Call
<1>3. ASSUME NEW amount, NEW s, NEW revocable, Vesting!CreateGrant(amount, s, revocable)
      PROVE  now' = now /\ store'.grants[id] = g
  <2> DEFINE h == [total |-> amount, claimed |-> 0, start |-> s.start,
                   cliff |-> s.cliff, duration |-> s.duration,
                   revocable |-> revocable, revoked |-> FALSE]
  <2>1. store' = [store EXCEPT !.grants = Append(store.grants, h)] /\ now' = now
    BY <1>3 DEF Vesting!CreateGrant, Vesting!Call
  <2> HIDE DEF h
  <2>2. Append(store.grants, h)[id] = g
    BY <1>a, <1>g
  <2> QED BY <1>a, <2>1, <2>2
<1>4. ASSUME NEW i \in DOMAIN store.grants, i # id, Vesting!Claim(i) \/ Vesting!RevokeGrant(i)
      PROVE  now' = now /\ store'.grants[id] = g
  BY <1>4, <1>a, <1>g DEF Vesting!Claim, Vesting!RevokeGrant, Vesting!SetGrant, Vesting!Call
<1>5. CASE Vesting!Claim(id)
  <2>1. /\ now' = now
        /\ store'.grants[id] = [g EXCEPT !.claimed = g.claimed + (Vesting!Vested(g) - g.claimed)]
    BY <1>5, <1>a, <1>g DEF Vesting!Claim, Vesting!SetGrant, Vesting!Call
  <2>2. PICK h : h = store'.grants[id]
    OBVIOUS
  <2>3. /\ h.total = g.total /\ h.revoked = g.revoked /\ h.start = g.start
        /\ h.cliff = g.cliff /\ h.duration = g.duration
    BY <2>1, <2>2 DEF VestingGrant
  <2>4. Vesting!Vested(store.grants[id])' = Vesting!Vested(g)
    BY <2>1, <2>2, <2>3 DEF Vesting!Vested
  <2> QED BY <1>a, <1>g, <2>4
<1>6. CASE Vesting!RevokeGrant(id)
  <2>1. /\ now' = now
        /\ store'.grants[id] = [g EXCEPT !.total = Vesting!Vested(g), !.revoked = TRUE]
    BY <1>6, <1>a, <1>g DEF Vesting!RevokeGrant, Vesting!SetGrant, Vesting!Call
  <2>2. PICK h : h = store'.grants[id]
    OBVIOUS
  <2>3. h.total = Vesting!Vested(g) /\ h.revoked
    BY <2>1, <2>2 DEF VestingGrant
  <2>4. Vesting!Vested(store.grants[id])' = Vesting!Vested(g)
    BY <2>1, <2>2, <2>3 DEF Vesting!Vested
  <2> QED BY <1>a, <1>g, <2>4
<1>7. CASE Vesting!TimePasses
  <2>1. store' = store /\ now' = now + 1
    BY <1>7 DEF Vesting!TimePasses
  <2>2. Vesting!Vested(store.grants[id])' = Vesting!Vested(g)'
    BY <1>g, <2>1 DEF Vesting!Vested
  <2> QED BY <1>a, <1>g, <2>1, <2>2, VestedGrows
<1> QED BY <1>1, <1>2, <1>3, <1>4, <1>5, <1>6, <1>7 DEF Vesting!Next

------------------------------------------------------------------------------
(* Governance *)

Proposals == Seq(Governance!Proposal)

GovernanceFields ==
    {"admin", "pendingAdmin", "counter", "proposals", "credits", "totalIssued", "minQuorum"}

\* The ids that are given out are of stored proposals.
GovernanceSafe ==
    /\ DOMAIN store = GovernanceFields
    /\ store.proposals \in Proposals
    /\ store.counter \in Nat /\ store.counter <= Len(store.proposals)
    /\ store.totalIssued \in Nat /\ store.minQuorum \in Nat /\ now \in Nat

LEMMA GovernanceInit == Governance!Init => GovernanceSafe
  BY GovernanceAssumption
  DEF Governance!Init, Governance!Deployed, GovernanceSafe, GovernanceFields, Proposals

LEMMA QuorumIsNumber ==
    ASSUME GovernanceSafe
    PROVE  Governance!QuorumNow \in Nat
<1>1. PICK m \in Nat, n \in Nat : m = store.totalIssued /\ n = store.minQuorum
  BY DEF GovernanceSafe
<1>2. PICK p \in Nat : p = m * n
  OBVIOUS
<1>3. PICK q \in Nat : q = p \div 10
  OBVIOUS
<1>4. PICK r \in Nat : r = q + (IF p % 10 > 0 THEN 1 ELSE 0)
  OBVIOUS
<1>5. Governance!QuorumNow = IF r > 1 THEN r ELSE 1
  BY <1>1, <1>2, <1>3, <1>4 DEF Governance!QuorumNow
<1> QED BY <1>5

LEMMA GovernanceStep ==
    GovernanceSafe /\ Governance!Next => GovernanceSafe' /\ Governance!DecidedStaysStep
<1> USE DEF GovernanceFields
<1> DEFINE Kept == GovernanceSafe' /\ Governance!DecidedStaysStep
<1> SUFFICES ASSUME GovernanceSafe, Governance!Next PROVE Kept
  OBVIOUS
<1>a. /\ DOMAIN store = GovernanceFields
      /\ store.proposals \in Proposals /\ DOMAIN store.proposals = 1 .. Len(store.proposals)
      /\ store.counter \in Nat /\ store.counter <= Len(store.proposals)
      /\ 1 .. store.counter \subseteq DOMAIN store.proposals
      /\ store.totalIssued \in Nat /\ store.minQuorum \in Nat /\ now \in Nat
      /\ \A id \in DOMAIN store.proposals : store.proposals[id] \in Governance!Proposal
  BY DEF GovernanceSafe, Proposals
\* The proposals stay.
<1>b. CASE /\ DOMAIN store' = DOMAIN store /\ store'.proposals = store.proposals
           /\ store'.counter \in {0, store.counter}
           /\ store'.totalIssued \in Nat /\ store'.minQuorum \in Nat /\ now' \in Nat
  BY <1>a, <1>b DEF GovernanceSafe, Governance!DecidedStaysStep
\* One changes, to p.
<1>c. ASSUME NEW id \in DOMAIN store.proposals, NEW p \in Governance!Proposal,
             store'.proposals = [store.proposals EXCEPT ![id] = p], now' = now,
             DOMAIN store' = DOMAIN store, store'.counter = store.counter,
             store'.totalIssued = store.totalIssued, store'.minQuorum = store.minQuorum,
             now >= store.proposals[id].deadline =>
                 /\ p.votesFor = store.proposals[id].votesFor
                 /\ p.votesAgainst = store.proposals[id].votesAgainst,
             store.proposals[id].status \in {"EXECUTED", "CANCELLED"} =>
                 p.status = store.proposals[id].status
      PROVE  Kept
  <2>1. store'.proposals \in Proposals
    BY <1>a, <1>c DEF Proposals
  <2>2. \A i \in DOMAIN store.proposals :
            store'.proposals[i] = IF i = id THEN p ELSE store.proposals[i]
    BY <1>a, <1>c
  <2>3. Len(store'.proposals) = Len(store.proposals)
    BY <1>a, <1>c
  <2>4. Governance!DecidedStaysStep
    BY <1>a, <1>c, <2>2 DEF Governance!DecidedStaysStep
  <2> QED BY <1>a, <1>c, <2>1, <2>3, <2>4 DEF GovernanceSafe
<1>d. ASSUME NEW id \in DOMAIN store.proposals, NEW status \in {"CLOSED", "EXECUTED", "CANCELLED"},
             store' = [store EXCEPT !.proposals[id].status = status], now' = now,
             store.proposals[id].status \notin {"EXECUTED", "CANCELLED"}
      PROVE  Kept
  <2>1. PICK q \in Governance!Proposal : q = store.proposals[id]
    BY <1>a
  <2> DEFINE p == [q EXCEPT !.status = status]
  <2>2. /\ p \in Governance!Proposal /\ p.votesFor = q.votesFor
        /\ p.votesAgainst = q.votesAgainst
    BY DEF Governance!Proposal
  <2>3. store' = [store EXCEPT !.proposals = [store.proposals EXCEPT ![id] = p]]
    BY <1>a, <1>d, <2>1
  <2> HIDE DEF p
  <2> QED BY <1>a, <1>c, <1>d, <2>1, <2>2, <2>3
<1>1. ASSUME NEW a, \/ Governance!Initialize(a) \/ Governance!ProposeNewAdmin(a)
                    \/ Governance!ClaimAdminRole(a)
      PROVE  Kept
  <2>1. CASE Governance!Initialize(a)
    BY <2>1, <1>a, <1>b, GovernanceAssumption, SMTT(30)
    DEF Governance!Initialize, Governance!Call
  <2>2. CASE Governance!ProposeNewAdmin(a) \/ Governance!ClaimAdminRole(a)
    <3>1. /\ DOMAIN store' = DOMAIN store /\ store'.proposals = store.proposals
          /\ store'.counter = store.counter /\ store'.totalIssued = store.totalIssued
          /\ store'.minQuorum = store.minQuorum /\ now' = now
      <4>1. CASE Governance!ProposeNewAdmin(a)
        BY <4>1, <1>a DEF Governance!ProposeNewAdmin, Governance!Call
      <4>2. CASE Governance!ClaimAdminRole(a)
        BY <4>2, <1>a DEF Governance!ClaimAdminRole, Governance!Call
      <4> QED BY <2>2, <4>1, <4>2
    <3> QED BY <1>a, <1>b, <3>1
  <2> QED BY <1>1, <2>1, <2>2
<1>2. ASSUME NEW a \in Addresses, NEW n \in Votes, Governance!AllocateCredits(a, n)
      PROVE  Kept
  <2>1. /\ DOMAIN store' = DOMAIN store /\ store'.proposals = store.proposals
        /\ store'.totalIssued = store.totalIssued + n /\ store'.minQuorum = store.minQuorum
        /\ store'.counter = store.counter /\ now' = now
    BY <1>2, <1>a DEF Governance!AllocateCredits, Governance!Call
  <2>2. store.totalIssued + n \in Nat
    BY <1>a, GovernanceAssumption
  <2> QED BY <1>a, <1>b, <2>1, <2>2
<1>3. ASSUME NEW q \in Quorums, Governance!SetMinQuorum(q)
      PROVE  Kept
  BY <1>3, <1>a, <1>b, GovernanceAssumption DEF Governance!SetMinQuorum, Governance!Call
<1>4. ASSUME NEW a \in Addresses, NEW period \in Periods, Governance!CreateProposal(a, period)
      PROVE  Kept
  <2> DEFINE id == store.counter + 1
             none == [b \in Addresses |-> Governance!NoVote]
             again == Governance!Opened(a, period, store.proposals[id].userVotes)
             first == Governance!Opened(a, period, none)
  <2>1. ASSUME NEW votes \in [Addresses -> [votes : Nat, support : BOOLEAN]]
        PROVE  Governance!Opened(a, period, votes) \in Governance!Proposal
    <3>1. Governance!QuorumNow \in Nat /\ now + period \in Nat
      BY <1>a, QuorumIsNumber, GovernanceAssumption
    <3> QED BY <3>1 DEF Governance!Opened, Governance!Proposal
  <2>2. first \in Governance!Proposal
    BY <2>1 DEF Governance!NoVote
  <2>3. id \in DOMAIN store.proposals => again \in Governance!Proposal
    BY <1>a, <2>1 DEF Governance!Proposal
  <2>4. /\ store' = [store EXCEPT !.counter = id, !.proposals =
                IF id \in DOMAIN store.proposals
                THEN [store.proposals EXCEPT ![id] = again]
                ELSE Append(store.proposals, first)]
        /\ now' = now
    BY <1>4 DEF Governance!CreateProposal, Governance!Call
  <2> HIDE DEF again, first
  <2>5. /\ DOMAIN store' = DOMAIN store /\ store'.counter = id
        /\ store'.totalIssued = store.totalIssued /\ store'.minQuorum = store.minQuorum
        /\ store'.proposals = IF id \in DOMAIN store.proposals
                              THEN [store.proposals EXCEPT ![id] = again]
                              ELSE Append(store.proposals, first)
    BY <1>a, <2>4
  <2>6. /\ store'.proposals \in Proposals /\ id <= Len(store'.proposals)
        /\ \A i \in 1 .. store.counter : store'.proposals[i] = store.proposals[i]
    <3>1. CASE id \in DOMAIN store.proposals
      BY <1>a, <2>3, <2>5, <3>1 DEF Proposals
    <3>2. CASE id \notin DOMAIN store.proposals
      BY <1>a, <2>2, <2>5, <3>2 DEF Proposals
    <3> QED BY <3>1, <3>2
  <2>7. GovernanceSafe'
    BY <1>a, <2>4, <2>5, <2>6 DEF GovernanceSafe
  <2> QED BY <2>6, <2>7 DEF Governance!DecidedStaysStep
<1>5. ASSUME NEW a \in Addresses, NEW id \in DOMAIN store.proposals,
             Governance!CancelProposal(a, id)
      PROVE  Kept
  BY <1>5, <1>d DEF Governance!CancelProposal, Governance!Call
<1>6. ASSUME NEW a \in Addresses, NEW id \in DOMAIN store.proposals,
             Governance!ExecuteProposal(a, id)
      PROVE  Kept
  BY <1>6, <1>d DEF Governance!ExecuteProposal, Governance!Call
<1>7. ASSUME NEW id \in DOMAIN store.proposals, Governance!HasPassed(id)
      PROVE  Kept
  BY <1>7, <1>d DEF Governance!HasPassed, Governance!Call
<1>8. ASSUME NEW a \in Addresses, NEW id \in DOMAIN store.proposals,
             NEW support \in BOOLEAN, NEW n \in Votes, Governance!Vote(a, id, support, n)
      PROVE  Kept
  <2>1. PICK q \in Governance!Proposal : q = store.proposals[id]
    BY <1>a
  <2>2. PICK k \in Nat : k = n * n
    BY GovernanceAssumption
  <2> DEFINE vote == [votes |-> n, support |-> support]
             c == Governance!Counted(q, support, n)
             p == [c EXCEPT !.totalCost = c.totalCost + k, !.voters = c.voters + 1,
                            !.userVotes = [c.userVotes EXCEPT ![a] = vote]]
  <2>3. c \in Governance!Proposal /\ c.status = q.status
    BY GovernanceAssumption DEF Governance!Counted, Governance!Proposal
  <2>4. p \in Governance!Proposal /\ p.status = q.status
    <3>1. vote \in [votes : Nat, support : BOOLEAN]
      BY GovernanceAssumption
    <3> HIDE DEF c, vote
    <3>2. /\ c.totalCost + k \in Nat /\ c.voters + 1 \in Nat
          /\ [c.userVotes EXCEPT ![a] = vote] \in [Addresses -> [votes : Nat, support : BOOLEAN]]
      BY <2>3, <3>1 DEF Governance!Proposal
    <3> QED BY <2>3, <3>2 DEF Governance!Proposal
  <2>5. /\ q.status = "OPEN" /\ now < q.deadline /\ now' = now
        /\ store' = [store EXCEPT !.credits = [store.credits EXCEPT ![a] = Governance!Credits(a) - k],
                                  !.proposals = [store.proposals EXCEPT ![id] = p]]
    <3>1. DOMAIN c = {"creator", "votesFor", "votesAgainst", "totalCost", "voters",
                      "deadline", "quorum", "status", "userVotes"}
      BY <2>3 DEF Governance!Proposal
    <3> HIDE DEF c
    <3> QED BY <1>8, <1>a, <2>1, <2>2, <3>1 DEF Governance!Vote, Governance!Call, c
  <2> HIDE DEF p, c
  <2>6. ~(now >= q.deadline)
    BY <1>a, <2>5 DEF Governance!Proposal
  <2> QED BY <1>a, <1>c, <2>1, <2>4, <2>5, <2>6
<1>9. CASE Governance!TimePasses
  BY <1>9, <1>a, <1>b DEF Governance!TimePasses
<1> HIDE DEF Kept
<1> QED BY <1>1, <1>2, <1>3, <1>4, <1>5, <1>6, <1>7, <1>8, <1>9 DEF Governance!Next

------------------------------------------------------------------------------
(* Flash loans *)

LoanFields == {"admin", "paused", "registry", "rewardPool", "fee"}

LoanSafe ==
    /\ DOMAIN store = LoanFields /\ store.fee \in FeeRates
    /\ held \in [Currencies -> Int]
    /\ history.deposits \in [Currencies -> Int] /\ history.due \in [Currencies -> Int]
    /\ history.rewards \in [Currencies -> Int]
    /\ DOMAIN history = {"loans", "deposits", "due", "rewards"}
    /\ FlashLoan!FeesAreEarned

LoansOf(loans, t, n) == {i \in 1 .. n : loans[i].token = t}

LEMMA LoanSum ==
    \A F, loans, t, n : FlashLoan!SumOf(F, loans, t, n) = SumOver(F, LoansOf(loans, t, n))
  BY DEF FlashLoan!SumOf, FlashLoan!MapThenSumSet, FlashLoan!MapThenFoldSet,
     SumOver, Sums, SumRule, AnyOf, LoansOf

LEMMA LoanInit == FlashLoan!Init => LoanSafe
<1> SUFFICES ASSUME FlashLoan!Init PROVE LoanSafe
  OBVIOUS
<1>1. /\ store = [admin |-> Nobody, paused |-> FALSE, registry |-> FALSE,
                  rewardPool |-> FALSE, fee |-> CHOOSE r \in FeeRates : TRUE]
      /\ held = [t \in Currencies |-> 0]
      /\ history = [loans |-> 0, deposits |-> held, due |-> held, rewards |-> held]
  BY DEF FlashLoan!Init
<1>2. (CHOOSE r \in FeeRates : TRUE) \in FeeRates
  BY LoanAssumption
<1> QED BY <1>1, <1>2 DEF LoanSafe, LoanFields, FlashLoan!FeesAreEarned

\* What the fees on the loans of a token come to.
LEMMA FeesAreNumbers ==
    ASSUME NEW loans \in FlashLoan!LoanLists, store.fee \in FeeRates
    PROVE  /\ Len(loans) \in Nat /\ DOMAIN loans = 1 .. Len(loans)
           /\ \A i \in 1 .. Len(loans) : loans[i].token \in Currencies
           /\ \A t, n : n \in 0 .. Len(loans) =>
                  FlashLoan!SumOf(FlashLoan!Fees(loans), loans, t, n) \in Nat
<1>1. /\ Len(loans) \in Nat /\ DOMAIN loans = 1 .. Len(loans)
      /\ \A i \in 1 .. Len(loans) : loans[i] \in FlashLoan!Loans
  BY DEF FlashLoan!LoanLists
<1>2. \A i \in 1 .. Len(loans) : loans[i].token \in Currencies /\ loans[i].amount \in Nat
  BY <1>1, LoanAssumption DEF FlashLoan!Loans
<1>3. ASSUME NEW i \in 1 .. Len(loans)
      PROVE  FlashLoan!Fees(loans)[i] \in Nat
  <2>1. PICK a \in Nat, f \in Nat : a = loans[i].amount /\ f = store.fee
    BY <1>2, LoanAssumption
  <2>2. PICK p \in Nat : p = a * f
    OBVIOUS
  <2>3. p \div FeeUnit \in Nat
    BY LoanAssumption
  <2> QED BY <1>1, <2>1, <2>2, <2>3 DEF FlashLoan!Fees
<1>4. ASSUME NEW t, NEW n \in 0 .. Len(loans)
      PROVE  FlashLoan!SumOf(FlashLoan!Fees(loans), loans, t, n) \in Nat
  <2>1. PICK F, s : F = FlashLoan!Fees(loans) /\ s = LoansOf(loans, t, n)
    OBVIOUS
  <2>2. IsFiniteSet(1 .. n) /\ s \subseteq 1 .. n
    BY <1>1, <2>1, FS_Interval DEF LoansOf
  <2>3. \A i \in s : F[i] \in Nat
    BY <1>1, <1>3, <2>1, <2>2
  <2>4. IsFiniteSet(s)
    BY <2>2, FS_Subset
  <2>5. SumOver(F, s) \in Nat
    BY <2>3, <2>4, SumOfNumbers
  <2> QED BY <2>1, <2>5, LoanSum
<1> QED BY <1>1, <1>2, <1>4

LEMMA LoansSettle ==
    ASSUME LoanSafe, NEW loans \in FlashLoan!LoanLists,
           NEW repaid \in [Currencies -> 0 .. 2 * LoanAmount], NEW pays,
           FlashLoan!Settle(loans, repaid, pays), store' = store
    PROVE  LoanSafe'
<1> DEFINE Lent(t) == FlashLoan!SumOf(FlashLoan!Amounts(loans), loans, t, Len(loans))
           Due(t, n) == FlashLoan!SumOf(FlashLoan!Fees(loans), loans, t, n)
           Sent(t, n) == IF pays THEN Due(t, n) ELSE 0
           after == [t \in Currencies |-> held[t] - Lent(t) + repaid[t]]
<1>a. /\ store.fee \in FeeRates /\ held \in [Currencies -> Int]
      /\ history.deposits \in [Currencies -> Int] /\ history.due \in [Currencies -> Int]
      /\ history.rewards \in [Currencies -> Int]
      /\ DOMAIN history = {"loans", "deposits", "due", "rewards"}
      /\ \A t \in Currencies :
            /\ held[t] + history.rewards[t] >= history.deposits[t] + history.due[t]
            /\ history.rewards[t] <= history.due[t]
  BY DEF LoanSafe, FlashLoan!FeesAreEarned
<1>b. /\ \A i \in DOMAIN loans :
              after[loans[i].token] - Sent(loans[i].token, i - 1)
                  >= held[loans[i].token] + Due(loans[i].token, Len(loans))
      /\ held' = [t \in Currencies |-> after[t] - Sent(t, Len(loans))]
      /\ history' = [history EXCEPT
              !.loans = @ + 1,
              !.due = [t \in Currencies |-> @[t] + Due(t, Len(loans))],
              !.rewards = [t \in Currencies |-> @[t] + Sent(t, Len(loans))]]
  BY DEF FlashLoan!Settle
<1>c. /\ Len(loans) \in Nat /\ DOMAIN loans = 1 .. Len(loans)
      /\ \A t, n : n \in 0 .. Len(loans) => Due(t, n) \in Nat
  BY <1>a, FeesAreNumbers
<1>d. /\ history'.deposits = history.deposits
      /\ history'.due = [t \in Currencies |-> history.due[t] + Due(t, Len(loans))]
      /\ history'.rewards = [t \in Currencies |-> history.rewards[t] + Sent(t, Len(loans))]
      /\ DOMAIN history' = {"loans", "deposits", "due", "rewards"}
  BY <1>a, <1>b
<1>1. ASSUME NEW t \in Currencies
      PROVE  after[t] \in Int /\ after[t] >= held[t] + Due(t, Len(loans))
  <2>1. CASE \E i \in 1 .. Len(loans) : loans[i].token = t
    <3>1. PICK i \in 1 .. Len(loans) : loans[i].token = t
      BY <2>1
    <3>2. after[t] - Sent(t, i - 1) >= held[t] + Due(t, Len(loans))
      BY <1>b, <1>c, <3>1
    <3>3. Due(t, i - 1) \in Nat /\ Due(t, Len(loans)) \in Nat /\ Sent(t, i - 1) \in Nat
      BY <1>c, <3>1
    <3>4. Lent(t) \in Int
      <4>1. PICK F, s : F = FlashLoan!Amounts(loans) /\ s = LoansOf(loans, t, Len(loans))
        OBVIOUS
      <4>2. IsFiniteSet(1 .. Len(loans)) /\ s \subseteq 1 .. Len(loans)
        BY <1>c, <4>1, FS_Interval DEF LoansOf
      <4>3. \A j \in s : F[j] \in Int
        <5>1. \A j \in 1 .. Len(loans) : loans[j] \in FlashLoan!Loans
          BY <1>c DEF FlashLoan!LoanLists
        <5>2. \A j \in 1 .. Len(loans) : loans[j].amount \in Int
          BY <5>1, LoanAssumption DEF FlashLoan!Loans
        <5> QED BY <1>c, <4>1, <4>2, <5>2 DEF FlashLoan!Amounts
      <4>4. SumOver(F, s) \in Int
        BY <4>2, <4>3, FS_Subset, SumWithout
      <4> QED BY <4>1, <4>4, LoanSum
    <3>5. after[t] \in Int /\ held[t] \in Int
      BY <1>a, <3>4
    <3> HIDE DEF after, Due, Sent
    <3> QED BY <3>2, <3>3, <3>5
  <2>2. CASE ~\E i \in 1 .. Len(loans) : loans[i].token = t
    <3>1. LoansOf(loans, t, Len(loans)) = {}
      BY <2>2 DEF LoansOf
    <3>2. Lent(t) = 0 /\ Due(t, Len(loans)) = 0
      BY <3>1, LoanSum, SumOfNone
    <3>3. after[t] = held[t] + repaid[t] /\ repaid[t] \in Nat /\ held[t] \in Int
      BY <1>a, <3>2, LoanAssumption
    <3> QED BY <3>2, <3>3
  <2> QED BY <2>1, <2>2
<1>2. ASSUME NEW t \in Currencies
      PROVE  /\ held'[t] \in Int /\ history'.due[t] \in Int /\ history'.rewards[t] \in Int
             /\ held'[t] + history'.rewards[t] >= history'.deposits[t] + history'.due[t]
             /\ history'.rewards[t] <= history'.due[t]
  <2>1. PICK d \in Nat, s \in Nat, h \in Int :
            d = Due(t, Len(loans)) /\ s = Sent(t, Len(loans)) /\ h = after[t]
    BY <1>1, <1>c
  <2>2. s <= d /\ h >= held[t] + d
    BY <1>1, <2>1
  <2>3. /\ held'[t] = h - s /\ history'.due[t] = history.due[t] + d
        /\ history'.rewards[t] = history.rewards[t] + s
        /\ history'.deposits[t] = history.deposits[t]
    BY <1>b, <1>d, <2>1
  <2> QED BY <1>a, <2>2, <2>3
<1> HIDE DEF after, Due, Sent
<1>3. held' \in [Currencies -> Int]
  BY <1>b, <1>2
<1>4. /\ history'.due \in [Currencies -> Int] /\ history'.rewards \in [Currencies -> Int]
      /\ history'.deposits \in [Currencies -> Int]
  BY <1>a, <1>d, <1>2
<1>5. FlashLoan!FeesAreEarned'
  BY <1>2 DEF FlashLoan!FeesAreEarned
<1> QED BY <1>d, <1>3, <1>4, <1>5 DEF LoanSafe

LEMMA LoanSolvent == LoanSafe => FlashLoan!FeesAreEarned
  BY DEF LoanSafe

LEMMA LoanStep == LoanSafe /\ FlashLoan!Next => LoanSafe'
<1> SUFFICES ASSUME LoanSafe, FlashLoan!Next PROVE LoanSafe'
  OBVIOUS
<1>1. CASE /\ DOMAIN store' = LoanFields /\ store'.fee \in FeeRates
           /\ held' = held /\ history' = history
  BY <1>1 DEF LoanSafe, FlashLoan!FeesAreEarned
<1>2. ASSUME NEW a, FlashLoan!InitializeAdmin(a) \/ FlashLoan!SetPaused(a)
      PROVE  LoanSafe'
  BY <1>1, <1>2 DEF LoanSafe, LoanFields, FlashLoan!InitializeAdmin, FlashLoan!SetPaused
<1>3. ASSUME NEW r, \/ r \in FeeRates /\ FlashLoan!Set("fee", r)
                    \/ FlashLoan!Set("rewardPool", TRUE)
                    \/ FlashLoan!Set("registry", TRUE)
      PROVE  LoanSafe'
  BY <1>1, <1>3 DEF LoanSafe, LoanFields, FlashLoan!Set
<1>4. ASSUME NEW loans \in FlashLoan!LoanLists, NEW registryPaused,
             NEW repaid \in [Currencies -> 0 .. 2 * LoanAmount],
             \/ FlashLoan!Lend(loans, repaid, registryPaused)
             \/ FlashLoan!FlashLoanMulti(loans, repaid, registryPaused)
      PROVE  LoanSafe'
  <2>1. PICK pays \in {store.rewardPool, FALSE} :
            FlashLoan!Settle(loans, repaid, pays) /\ store' = store
    BY <1>4 DEF FlashLoan!Lend, FlashLoan!FlashLoanMulti
  <2> QED BY <2>1, LoansSettle
<1>5. ASSUME NEW t \in Currencies, FlashLoan!Deposit(t)
      PROVE  LoanSafe'
  <2>1. /\ store' = store /\ held' = [held EXCEPT ![t] = @ + 1]
        /\ history' = [history EXCEPT !.deposits[t] = @ + 1]
    BY <1>5 DEF FlashLoan!Deposit
  <2>2. /\ held \in [Currencies -> Int] /\ history.deposits \in [Currencies -> Int]
        /\ history.due \in [Currencies -> Int] /\ history.rewards \in [Currencies -> Int]
        /\ DOMAIN history = {"loans", "deposits", "due", "rewards"}
        /\ \A u \in Currencies :
              /\ held[u] + history.rewards[u] >= history.deposits[u] + history.due[u]
              /\ history.rewards[u] <= history.due[u]
    BY DEF LoanSafe, FlashLoan!FeesAreEarned
  <2>3. /\ history'.deposits = [history.deposits EXCEPT ![t] = @ + 1]
        /\ history'.due = history.due /\ history'.rewards = history.rewards
        /\ DOMAIN history' = {"loans", "deposits", "due", "rewards"}
    BY <2>1, <2>2
  <2>4. held' \in [Currencies -> Int] /\ history'.deposits \in [Currencies -> Int]
    BY <2>1, <2>2, <2>3
  <2>5. ASSUME NEW u \in Currencies
        PROVE  /\ held'[u] + history'.rewards[u] >= history'.deposits[u] + history'.due[u]
               /\ history'.rewards[u] <= history'.due[u]
    BY <2>1, <2>2, <2>3
  <2> QED BY <2>1, <2>2, <2>3, <2>4, <2>5 DEF LoanSafe, FlashLoan!FeesAreEarned
<1> QED BY <1>2, <1>3, <1>4, <1>5 DEF FlashLoan!Next

------------------------------------------------------------------------------
(* The pool *)

PoolFields == {"admin", "paused", "tax", "reserve", "totalShares", "shares"}
Reserves == AMM!Pair

PoolSafe ==
    /\ DOMAIN store = PoolFields /\ store.tax \in TransferFees
    /\ store.reserve \in [Reserves -> Nat]
    /\ store.totalShares \in Nat /\ store.shares \in [Addresses -> Nat]
    /\ store.totalShares = 0 => SumOver(store.shares, Addresses) = 0
    /\ store.totalShares > 0 =>
          /\ store.totalShares = MinimumLiquidity + SumOver(store.shares, Addresses)
          /\ \A t \in Reserves : store.reserve[t] > 0

LEMMA PoolSolvent == PoolSafe => AMM!SharesAddUp
<1>1. AMM!SharesAddUp <=>
         (store.totalShares > 0 =>
            /\ store.totalShares = MinimumLiquidity + SumOver(store.shares, Addresses)
            /\ \A t \in Reserves : store.reserve[t] > 0)
  BY DEF AMM!SharesAddUp, AMM!MapThenSumSet, AMM!MapThenFoldSet,
     SumOver, Sums, SumRule, AnyOf, Reserves
<1> QED BY <1>1 DEF PoolSafe

LEMMA PoolInit == AMM!Init => PoolSafe
<1> SUFFICES ASSUME AMM!Init PROVE PoolSafe
  OBVIOUS
<1>1. PICK tax \in TransferFees :
          store = [admin |-> Nobody, paused |-> FALSE, tax |-> tax,
                   reserve |-> [t \in Reserves |-> 0], totalShares |-> 0,
                   shares |-> [a \in Addresses |-> 0]]
  BY DEF AMM!Init, Reserves
<1>2. /\ store.shares \in [Addresses -> Nat]
      /\ SumOver(store.shares, Addresses) = 0
  BY <1>1, NoBalances
<1> QED BY <1>1, <1>2 DEF PoolSafe, PoolFields

\* A part of r that is less than the whole leaves some of r.
LEMMA PartIsLess ==
    ASSUME NEW a \in Nat, NEW b \in Nat, NEW r \in Nat, a < b
    PROVE  (a * r) \div b \in Nat /\ (r > 0 => (a * r) \div b < r)
<1>1. PICK p \in Nat : p = a * r
  OBVIOUS
<1>2. PICK q \in Nat : q = p \div b
  BY <1>1
<1>3. b * q <= p
  BY <1>1, <1>2
<1>4. ASSUME r > 0, q >= r PROVE FALSE
  <2>1. PICK d \in Nat, e \in Nat : q = r + d /\ b = a + 1 + e
    BY <1>4
  <2>2. /\ b * q = b * r + b * d /\ b * d >= 0
    BY <2>1
  <2>3. /\ b * r = a * r + r + e * r /\ e * r >= 0
    BY <2>1
  <2>4. /\ b * q \in Int /\ b * r \in Int /\ b * d \in Int /\ e * r \in Int
    BY <1>2, <2>1
  <2> QED BY <1>1, <1>3, <1>4, <2>2, <2>3, <2>4
<1> QED BY <1>1, <1>2, <1>4

LEMMA IntegerRoot ==
    ASSUME NEW y \in Nat
    PROVE  \E n \in 0 .. y : n * n <= y /\ (n + 1) * (n + 1) > y
<1> DEFINE Above == {n \in Nat : (n + 1) * (n + 1) > y}
<1>1. Above \in SUBSET Nat /\ Above # {}
  <2>1. (y + 1) * (y + 1) > y
    <3>1. (y + 1) * (y + 1) = y * y + y + y + 1 /\ y * y >= 0 /\ y * y \in Int
      OBVIOUS
    <3> QED BY <3>1
  <2> QED BY <2>1
<1>2. PICK s \in Above : \A m \in Above : s <= m
  BY <1>1, LeastNumber
<1>3. s \in Nat /\ (s + 1) * (s + 1) > y
  BY <1>2
<1>4. s * s <= y
  <2>1. CASE s = 0
    BY <2>1
  <2>2. CASE s # 0
    <3>1. PICK k \in Nat : k = s - 1
      BY <1>3, <2>2
    <3>2. k \notin Above
      BY <1>2, <1>3, <3>1
    <3>3. k + 1 = s
      BY <1>3, <3>1
    <3>4. s * s \in Int
      BY <1>3
    <3> QED BY <3>2, <3>3, <3>4
  <2> QED BY <2>1, <2>2
<1>5. s \in 0 .. y
  <2>1. s * s >= s
    <3>1. CASE s = 0
      BY <3>1
    <3>2. CASE s # 0
      <4>1. PICK k \in Nat : s = k + 1
        <5>1. s - 1 \in Nat /\ s = (s - 1) + 1
          BY <1>3, <3>2
        <5> QED BY <5>1
      <4>2. s * s = s + k * s /\ k * s >= 0 /\ k * s \in Int
        BY <1>3, <4>1
      <4> QED BY <1>3, <4>2
    <3> QED BY <3>1, <3>2
  <2>2. s * s \in Int
    BY <1>3
  <2> QED BY <1>3, <1>4, <2>1, <2>2
<1> QED BY <1>3, <1>4, <1>5

LEMMA RootExists ==
    ASSUME NEW y \in Nat
    PROVE  AMM!Sqrt(y) \in Nat
<1>1. AMM!Sqrt(y) \in 0 .. y
  BY IntegerRoot, Zenon DEF AMM!Sqrt
<1> QED BY <1>1

LEMMA MintedIsNumber ==
    ASSUME PoolSafe, NEW arrived \in [Reserves -> Nat]
    PROVE  AMM!Minted(arrived) \in Int
<1>1. CASE store.totalShares = 0
  <2>1. PICK x \in Nat, y \in Nat : x = arrived["A"] /\ y = arrived["B"]
    BY DEF Reserves, AMM!Pair
  <2>2. PICK p \in Nat : p = x * y
    BY <2>1
  <2>3. AMM!Sqrt(p) \in Nat
    BY RootExists
  <2>4. AMM!Minted(arrived) = AMM!Sqrt(p) - MinimumLiquidity
    BY <1>1, <2>1, <2>2 DEF AMM!Minted
  <2> QED BY <2>3, <2>4, PoolAssumption
<1>2. CASE store.totalShares # 0
  <2>1. ASSUME NEW t \in Reserves
        PROVE  (arrived[t] * store.totalShares) \div store.reserve[t] \in Nat
    <3>1. PICK x \in Nat, s \in Nat, r \in Nat \ {0} :
              x = arrived[t] /\ s = store.totalShares /\ r = store.reserve[t]
      BY <1>2 DEF PoolSafe
    <3>2. PICK p \in Nat : p = x * s
      BY <3>1
    <3>3. p \div r \in Nat
      BY <3>1
    <3> QED BY <3>1, <3>2, <3>3
  <2>2. PICK a \in Nat, b \in Nat :
            /\ a = (arrived["A"] * store.totalShares) \div store.reserve["A"]
            /\ b = (arrived["B"] * store.totalShares) \div store.reserve["B"]
    BY <2>1 DEF Reserves, AMM!Pair
  <2>3. AMM!Minted(arrived) = AMM!Least(a, b)
    BY <1>2, <2>2 DEF AMM!Minted
  <2> QED BY <2>2, <2>3 DEF AMM!Least
<1> QED BY <1>1, <1>2

LEMMA PoolStep == PoolSafe /\ AMM!Next => PoolSafe'
<1> SUFFICES ASSUME PoolSafe, AMM!Next PROVE PoolSafe'
  OBVIOUS
<1>a. /\ DOMAIN store = PoolFields /\ store.tax \in TransferFees
      /\ store.reserve \in [Reserves -> Nat]
      /\ store.totalShares \in Nat /\ store.shares \in [Addresses -> Nat]
      /\ store.totalShares = 0 => SumOver(store.shares, Addresses) = 0
      /\ store.totalShares > 0 =>
            /\ store.totalShares = MinimumLiquidity + SumOver(store.shares, Addresses)
            /\ \A t \in Reserves : store.reserve[t] > 0
  BY DEF PoolSafe
<1>1. ASSUME NEW a \in Addresses, NEW x \in 1 .. PoolAmount, NEW y \in 1 .. PoolAmount,
             AMM!Deposit(a, [t \in AMM!Pair |-> IF t = "A" THEN x ELSE y])
      PROVE  PoolSafe'
  <2> DEFINE amount == [t \in AMM!Pair |-> IF t = "A" THEN x ELSE y]
             got == [t \in AMM!Pair |-> amount[t] - store.tax]
             before == IF store.totalShares = 0 THEN MinimumLiquidity ELSE store.totalShares
  <2>1. PICK arrived, minted : arrived = got /\ minted = AMM!Minted(arrived)
    OBVIOUS
  <2>2. /\ \A t \in Reserves : arrived[t] > 0
        /\ minted > 0
        /\ store' = [store EXCEPT
               !.reserve = [t \in Reserves |-> store.reserve[t] + arrived[t]],
               !.totalShares = before + minted,
               !.shares = [store.shares EXCEPT ![a] = store.shares[a] + minted]]
    BY <1>1, <2>1, <1>a DEF AMM!Deposit, Reserves
  <2>3. arrived \in [Reserves -> Nat]
    <3>1. x \in Int /\ y \in Int /\ store.tax \in Int
      <4>1. store.tax \in Nat
        BY <1>a, PoolAssumption
      <4>2. x \in Int /\ y \in Int
        BY PoolAssumption
      <4> QED BY <4>1, <4>2
    <3>3. \A t \in Reserves : amount[t] \in {x, y}
      BY DEF Reserves
    <3>2. \A t \in Reserves : arrived[t] \in Int
      BY <2>1, <3>1, <3>3 DEF Reserves
    <3> HIDE DEF amount
    <3> QED BY <2>1, <2>2, <3>2 DEF Reserves
  <2>4. minted \in Nat
    BY <2>1, <2>2, <2>3, MintedIsNumber
  <2>5. PICK n \in Nat : n = store.shares[a] + minted
    BY <1>a, <2>4
  <2> DEFINE s == [store.shares EXCEPT ![a] = n]
  <2>6. /\ s \in [Addresses -> Nat]
        /\ SumOver(s, Addresses) = SumOver(store.shares, Addresses) + minted
        /\ SumOver(store.shares, Addresses) \in Nat
    <3>1. /\ s \in [Addresses -> Nat]
          /\ SumOver(s, Addresses) = SumOver(store.shares, Addresses) + n - store.shares[a]
          /\ SumOver(store.shares, Addresses) \in Nat
      BY <1>a, BalanceSet
    <3>2. store.shares[a] \in Nat
      BY <1>a
    <3> QED BY <2>4, <2>5, <3>1, <3>2
  <2> HIDE DEF got, amount, s
  <2> DEFINE reserve == [t \in Reserves |-> store.reserve[t] + arrived[t]]
  <2>7. reserve \in [Reserves -> Nat] /\ \A t \in Reserves : reserve[t] > 0
    BY <1>a, <2>2, <2>3
  <2> HIDE DEF reserve
  <2>8. /\ DOMAIN store' = PoolFields /\ store'.tax = store.tax
        /\ store'.reserve = reserve /\ store'.totalShares = before + minted
        /\ store'.shares = s
    BY <1>a, <2>2, <2>5 DEF reserve, PoolFields, s
  <2>9. /\ before + minted \in Nat /\ before + minted > 0
        /\ before + minted = MinimumLiquidity + SumOver(s, Addresses)
    BY <1>a, <2>2, <2>4, <2>6, PoolAssumption
  <2> HIDE DEF before
  <2> QED BY <1>a, <2>6, <2>7, <2>8, <2>9 DEF PoolSafe
<1>2. ASSUME NEW a \in Addresses, NEW n \in 1 .. PoolAmount, AMM!Withdraw(a, n)
      PROVE  PoolSafe'
  <2> DEFINE out == [t \in AMM!Pair |-> (n * store.reserve[t]) \div store.totalShares]
             reserve == [t \in AMM!Pair |-> store.reserve[t] - out[t]]
  <2>1. /\ n \in Nat /\ n > 0 /\ n <= store.shares[a]
        /\ store' = [store EXCEPT
               !.reserve = reserve, !.totalShares = store.totalShares - n,
               !.shares = [store.shares EXCEPT ![a] = store.shares[a] - n]]
    BY <1>2, <1>a, PoolAssumption DEF AMM!Withdraw
  <2>2. PICK m \in Nat : m = store.shares[a] - n
    BY <1>a, <2>1
  <2> DEFINE s == [store.shares EXCEPT ![a] = m]
  <2>3. /\ s \in [Addresses -> Nat]
        /\ SumOver(s, Addresses) = SumOver(store.shares, Addresses) + m - store.shares[a]
        /\ SumOver(store.shares, Addresses) \in Nat
        /\ store.shares[a] <= SumOver(store.shares, Addresses)
    BY <1>a, <2>2, BalanceSet
  <2> HIDE DEF s
  <2>4. store.totalShares > 0 /\ n < store.totalShares
    BY <1>a, <2>1, <2>3, PoolAssumption
  <2>5. ASSUME NEW t \in Reserves
        PROVE  reserve[t] \in Nat /\ reserve[t] > 0
    <3>1. PICK r \in Nat, b \in Nat : r = store.reserve[t] /\ b = store.totalShares
      BY <1>a
    <3>2. (n * r) \div b \in Nat /\ (n * r) \div b < r
      BY <1>a, <2>1, <2>4, <3>1, PartIsLess
    <3>3. reserve[t] = r - ((n * r) \div b)
      BY <3>1 DEF Reserves
    <3> QED BY <3>1, <3>2, <3>3
  <2>6. reserve \in [Reserves -> Nat]
    BY <2>5 DEF Reserves
  <2> HIDE DEF reserve, out
  <2>7. /\ DOMAIN store' = PoolFields /\ store'.tax = store.tax
        /\ store'.reserve = reserve /\ store'.totalShares = store.totalShares - n
        /\ store'.shares = s
    BY <1>a, <2>1, <2>2 DEF PoolFields, s
  <2>8. /\ store.totalShares - n \in Nat
        /\ store.totalShares - n = MinimumLiquidity + SumOver(s, Addresses)
        /\ store.totalShares - n > 0
    <3>1. store.totalShares = MinimumLiquidity + SumOver(store.shares, Addresses)
      BY <1>a, <2>4
    <3>2. SumOver(s, Addresses) = SumOver(store.shares, Addresses) - n
      BY <1>a, <2>1, <2>2, <2>3
    <3> QED BY <2>1, <2>3, <2>4, <3>1, <3>2, PoolAssumption
  <2> QED BY <1>a, <2>3, <2>5, <2>6, <2>7, <2>8 DEF PoolSafe
<1>3. ASSUME NEW tokenIn \in AMM!Pair, NEW n \in 1 .. PoolAmount,
             AMM!Swap(tokenIn, n, 0)
      PROVE  PoolSafe'
  <2>1. PICK tokenOut \in Reserves : tokenOut = AMM!Other(tokenIn) /\ tokenOut # tokenIn
    <3>1. \E u \in AMM!Pair : u # tokenIn
      BY DEF AMM!Pair
    <3> QED BY <3>1 DEF AMM!Other, Reserves
  <2>2. PICK in \in Nat : in = n * FeeNumerator
    BY PoolAssumption
  <2>3. PICK ri \in Nat, ro \in Nat : ri = store.reserve[tokenIn] /\ ro = store.reserve[tokenOut]
    BY <1>a, <2>1 DEF Reserves
  <2>4. store.totalShares > 0 /\ ri > 0 /\ ro > 0
    BY <1>3, <1>a, <2>1, <2>3 DEF AMM!Swap, Reserves
  <2>5. PICK den \in Nat : den = ri * FeeDenominator + in /\ in < den
    <3>1. ri * FeeDenominator \in Nat /\ ri * FeeDenominator > 0
      BY <2>3, <2>4, PoolAssumption
    <3> QED BY <3>1
  <2>6. PICK out \in Nat : out = (in * ro) \div den /\ out < ro
    BY <2>4, <2>5, PartIsLess
  <2>7. AMM!AmountOut(tokenIn, n) = out
    BY <2>1, <2>2, <2>3, <2>5, <2>6 DEF AMM!AmountOut
  <2> DEFINE reserve == [store.reserve EXCEPT ![tokenIn] = ri + n, ![tokenOut] = ro - out]
  <2>8. store' = [store EXCEPT !.reserve = reserve]
    BY <1>3, <1>a, <2>1, <2>3, <2>7 DEF AMM!Swap, PoolFields
  <2>9. ri + n \in Nat /\ ri + n > 0 /\ ro - out \in Nat /\ ro - out > 0
    BY <2>4, <2>6, PoolAssumption
  <2>10. reserve \in [Reserves -> Nat] /\ \A t \in Reserves : reserve[t] > 0
    BY <1>a, <2>1, <2>4, <2>9 DEF Reserves
  <2> HIDE DEF reserve
  <2> QED BY <1>a, <2>8, <2>10 DEF PoolSafe, PoolFields
<1>4. ASSUME NEW a, AMM!Initialize(a) \/ AMM!SetPaused(a)
      PROVE  PoolSafe'
  BY <1>4, <1>a DEF PoolSafe, PoolFields, AMM!Initialize, AMM!SetPaused
<1> QED BY <1>1, <1>2, <1>3, <1>4 DEF AMM!Next

\* Without a fee of transfers, what is held and what is booked go together.
PoolHeld == store.tax = 0 => held = store.reserve

LEMMA PoolHeldInit == AMM!Init => PoolHeld
  BY DEF AMM!Init, PoolHeld

LEMMA PoolHolds == PoolSafe /\ PoolHeld => AMM!ReservesAreHeld
  BY DEF PoolSafe, PoolHeld, AMM!ReservesAreHeld, Reserves

LEMMA PoolHeldStep == PoolSafe /\ PoolHeld /\ AMM!Next => PoolHeld'
<1> SUFFICES ASSUME PoolSafe, PoolHeld, AMM!Next PROVE PoolHeld'
  OBVIOUS
<1>a. DOMAIN store = PoolFields /\ store.reserve \in [Reserves -> Nat]
  BY DEF PoolSafe
<1>1. ASSUME NEW a \in Addresses, NEW amount, AMM!Deposit(a, amount)
      PROVE  PoolHeld'
  <2> DEFINE arrived == [t \in AMM!Pair |-> amount[t] - store.tax]
             reserve == [t \in AMM!Pair |-> store.reserve[t] + arrived[t]]
  <2>1. /\ store'.tax = store.tax /\ store'.reserve = reserve
        /\ held' = [t \in AMM!Pair |-> held[t] + arrived[t]]
    BY <1>1, <1>a DEF AMM!Deposit, PoolFields
  <2> QED BY <2>1 DEF PoolHeld
<1>2. ASSUME NEW a \in Addresses, NEW n, AMM!Withdraw(a, n)
      PROVE  PoolHeld'
  <2> DEFINE out == [t \in AMM!Pair |-> (n * store.reserve[t]) \div store.totalShares]
             reserve == [t \in AMM!Pair |-> store.reserve[t] - out[t]]
  <2>1. /\ store'.tax = store.tax /\ store'.reserve = reserve
        /\ held' = [t \in AMM!Pair |-> held[t] - out[t]]
    BY <1>2, <1>a DEF AMM!Withdraw, PoolFields
  <2> QED BY <2>1 DEF PoolHeld
<1>3. ASSUME NEW tokenIn \in AMM!Pair, NEW n \in 1 .. PoolAmount,
             AMM!Swap(tokenIn, n, 0)
      PROVE  PoolHeld'
  <2>1. PICK out, tokenOut : out = AMM!AmountOut(tokenIn, n) /\ tokenOut = AMM!Other(tokenIn)
    OBVIOUS
  <2>2. /\ store'.tax = store.tax
        /\ store'.reserve = [store.reserve EXCEPT ![tokenIn] = store.reserve[tokenIn] + n,
                                                 ![tokenOut] = store.reserve[tokenOut] - out]
        /\ held' = [held EXCEPT ![tokenIn] = held[tokenIn] + n - store.tax,
                                ![tokenOut] = held[tokenOut] - out]
    BY <1>3, <2>1, <1>a DEF AMM!Swap, PoolFields
  <2>3. store.reserve[tokenIn] + n - 0 = store.reserve[tokenIn] + n
    BY <1>a, PoolAssumption DEF Reserves
  <2> QED BY <2>2, <2>3 DEF PoolHeld
<1>4. ASSUME NEW a, AMM!Initialize(a) \/ AMM!SetPaused(a)
      PROVE  PoolHeld'
  BY <1>4, <1>a DEF PoolHeld, PoolFields, AMM!Initialize, AMM!SetPaused
<1> QED BY <1>1, <1>2, <1>3, <1>4 DEF AMM!Next

------------------------------------------------------------------------------
(* Staking for several rewards *)

StakeFields ==
    {"admin", "paused", "whitelist", "totalStaked", "stake", "rpt", "paid", "rewards"}

StakeTyped ==
    /\ DOMAIN store = StakeFields
    /\ store.whitelist \subseteq RewardTokens
    /\ store.totalStaked \in Nat /\ store.stake \in [Addresses -> Nat]
    /\ store.rpt \in [RewardTokens -> Nat]
    /\ store.paid \in [Addresses -> [RewardTokens -> Nat]]
    /\ store.rewards \in [Addresses -> [RewardTokens -> Nat]]
    /\ held \in [RewardTokens -> Int]

\* Nobody is paid up to more than the running reward, which is none for a token
\* that is not listed.
StakeSettled ==
    /\ \A a \in Addresses, t \in RewardTokens : store.paid[a][t] <= store.rpt[t]
    /\ \A t \in RewardTokens \ store.whitelist : store.rpt[t] = 0

AllEarned(t) == SumOver(MultiToken!Earned(t), Addresses)

StakeSafe ==
    /\ StakeTyped /\ StakeSettled
    /\ store.totalStaked = SumOver(store.stake, Addresses)
    /\ \A t \in RewardTokens :
          (IF t = StakeToken THEN store.totalStaked * RewardPrecision ELSE 0)
              + AllEarned(t) <= held[t] * RewardPrecision

LEMMA StakeSolvent == StakeSafe => MultiToken!Covered
<1>1. MultiToken!Covered <=>
         \A t \in RewardTokens :
            (IF t = StakeToken THEN store.totalStaked * RewardPrecision ELSE 0)
                + AllEarned(t) <= held[t] * RewardPrecision
  BY DEF MultiToken!Covered, MultiToken!MapThenSumSet, MultiToken!MapThenFoldSet,
     SumOver, Sums, SumRule, AnyOf, AllEarned
<1> QED BY <1>1 DEF StakeSafe

LEMMA EarnedIsNumber ==
    ASSUME NEW r \in Nat, NEW s \in Nat, NEW p \in Nat, NEW q \in Nat, p <= q
    PROVE  r + s * (q - p) \in Nat /\ r + s * (q - p) >= r
<1>1. PICK d \in Nat : d = q - p
  OBVIOUS
<1>2. s * d \in Nat
  OBVIOUS
<1> QED BY <1>1, <1>2

\* What a user has earned is a number, at least what was settled; and so it is after
\* the step.
LEMMA OwedIsNumber ==
    ASSUME StakeTyped, StakeSettled
    PROVE  \A a \in Addresses, t \in RewardTokens :
              /\ MultiToken!Owed(a, t) \in Nat
              /\ MultiToken!Owed(a, t) >= store.rewards[a][t]
<1> TAKE a \in Addresses, t \in RewardTokens
<1>1. /\ store.rewards[a][t] \in Nat /\ store.stake[a] \in Nat
      /\ store.rpt[t] \in Nat /\ store.paid[a][t] \in Nat
      /\ store.paid[a][t] <= store.rpt[t]
  BY DEF StakeTyped, StakeSettled
<1> QED BY <1>1, EarnedIsNumber DEF MultiToken!Owed

LEMMA OwedIsNumberNext ==
    ASSUME StakeTyped', StakeSettled'
    PROVE  \A a \in Addresses, t \in RewardTokens : MultiToken!Owed(a, t)' \in Nat
<1> TAKE a \in Addresses, t \in RewardTokens
<1>1. /\ store'.rewards[a][t] \in Nat /\ store'.stake[a] \in Nat
      /\ store'.rpt[t] \in Nat /\ store'.paid[a][t] \in Nat
      /\ store'.paid[a][t] <= store'.rpt[t]
  BY DEF StakeTyped, StakeSettled
<1> QED BY <1>1, EarnedIsNumber DEF MultiToken!Owed

LEMMA StakeInit == MultiToken!Init => StakeSafe
<1> SUFFICES ASSUME MultiToken!Init PROVE StakeSafe
  OBVIOUS
<1>1. /\ store = [admin |-> Nobody, paused |-> FALSE, whitelist |-> {},
                totalStaked |-> 0, stake |-> [a \in Addresses |-> 0],
                rpt |-> [t \in RewardTokens |-> 0],
                paid |-> [a \in Addresses |-> [t \in RewardTokens |-> 0]],
                rewards |-> [a \in Addresses |-> [t \in RewardTokens |-> 0]]]
      /\ held = [t \in RewardTokens |-> 0]
  BY DEF MultiToken!Init, MultiToken!Zero
<1>2. StakeTyped /\ StakeSettled
  BY <1>1 DEF StakeTyped, StakeSettled, StakeFields
<1>3. SumOver(store.stake, Addresses) = 0
  BY <1>1, NoBalances
<1>4. ASSUME NEW t \in RewardTokens
      PROVE  AllEarned(t) = 0
  <2>1. MultiToken!Earned(t) = [a \in Addresses |-> 0]
    <3>1. \A a \in Addresses : MultiToken!Owed(a, t) = 0
      <4> TAKE a \in Addresses
      <4>1. /\ store.rewards[a][t] = 0 /\ store.stake[a] = 0
            /\ store.rpt[t] = 0 /\ store.paid[a][t] = 0
        BY <1>1
      <4> QED BY <4>1 DEF MultiToken!Owed
    <3> QED BY <3>1 DEF MultiToken!Earned
  <2> QED BY <2>1, NoBalances DEF AllEarned
<1>5. \A t \in RewardTokens :
          (IF t = StakeToken THEN store.totalStaked * RewardPrecision ELSE 0)
              + AllEarned(t) <= held[t] * RewardPrecision
  BY <1>1, <1>4, StakingAssumption
<1> QED BY <1>1, <1>2, <1>3, <1>5 DEF StakeSafe

\* Only what one user has earned changes.
LEMMA EarnedChanged ==
    ASSUME StakeTyped, StakeSettled, StakeTyped', StakeSettled',
           NEW u \in Addresses, NEW t \in RewardTokens,
           \A a \in Addresses \ {u} : MultiToken!Owed(a, t)' = MultiToken!Owed(a, t)
    PROVE  /\ AllEarned(t)' = AllEarned(t) + MultiToken!Owed(u, t)' - MultiToken!Owed(u, t)
           /\ AllEarned(t) \in Int
<1>1. PICK F : F = MultiToken!Earned(t)
  OBVIOUS
<1>2. PICK G : G = MultiToken!Earned(t)'
  OBVIOUS
<1>3. \A a \in Addresses : F[a] = MultiToken!Owed(a, t) /\ G[a] = MultiToken!Owed(a, t)'
  BY <1>1, <1>2 DEF MultiToken!Earned
<1>4. \A a \in Addresses : F[a] \in Int
  BY <1>3, OwedIsNumber
<1>5. \A a \in Addresses : MultiToken!Owed(a, t)' \in Nat
  BY OwedIsNumberNext
<1>6. G[u] \in Int /\ \A a \in Addresses \ {u} : G[a] = F[a]
  BY <1>3, <1>5
<1>7. SumOver(G, Addresses) = SumOver(F, Addresses) + G[u] - F[u]
  BY <1>4, <1>6, UsersAssumption, SumChanged
<1>8. SumOver(F, Addresses) \in Int
  BY <1>4, UsersAssumption, SumWithout
<1> QED BY <1>1, <1>2, <1>3, <1>7, <1>8 DEF AllEarned

\* One user's step: what is owed, staked or earned, grows by no more than what is held.
LEMMA UserStep ==
    ASSUME StakeSafe, StakeTyped', StakeSettled', NEW u \in Addresses,
           store'.totalStaked = SumOver(store'.stake, Addresses),
           \A a \in Addresses \ {u}, t \in RewardTokens :
              MultiToken!Owed(a, t)' = MultiToken!Owed(a, t),
           \A t \in RewardTokens :
              (IF t = StakeToken THEN (store'.totalStaked - store.totalStaked) * RewardPrecision
                                 ELSE 0)
                + (MultiToken!Owed(u, t)' - MultiToken!Owed(u, t))
              <= (held'[t] - held[t]) * RewardPrecision
    PROVE  StakeSafe'
<1>a. StakeTyped /\ StakeSettled
  BY DEF StakeSafe
<1>1. ASSUME NEW t \in RewardTokens
      PROVE  (IF t = StakeToken THEN store'.totalStaked * RewardPrecision ELSE 0)
                 + AllEarned(t)' <= held'[t] * RewardPrecision
  <2>1. PICK e \in Int, f \in Int, o \in Int, p \in Int, h \in Int, k \in Int :
            /\ e = AllEarned(t) /\ f = AllEarned(t)' /\ o = MultiToken!Owed(u, t)
            /\ p = MultiToken!Owed(u, t)' /\ h = held[t] /\ k = held'[t]
            /\ f = e + p - o
    <3>1. MultiToken!Owed(u, t) \in Nat /\ MultiToken!Owed(u, t)' \in Nat
      BY <1>a, OwedIsNumber, OwedIsNumberNext
    <3>2. held[t] \in Int /\ held'[t] \in Int
      BY <1>a DEF StakeTyped
    <3>3. /\ AllEarned(t)' = AllEarned(t) + MultiToken!Owed(u, t)' - MultiToken!Owed(u, t)
          /\ AllEarned(t) \in Int
      BY <1>a, EarnedChanged
    <3> QED BY <3>1, <3>2, <3>3
  <2>2. PICK m \in Int, n \in Int : m = store.totalStaked /\ n = store'.totalStaked
    BY <1>a DEF StakeTyped
  <2>3. (IF t = StakeToken THEN (n - m) * RewardPrecision ELSE 0) + (p - o)
            <= (k - h) * RewardPrecision
    BY <2>1, <2>2
  <2>4. (IF t = StakeToken THEN m * RewardPrecision ELSE 0) + e <= h * RewardPrecision
    BY <2>1, <2>2 DEF StakeSafe
  <2>5. /\ (n - m) * RewardPrecision = n * RewardPrecision - m * RewardPrecision
        /\ (k - h) * RewardPrecision = k * RewardPrecision - h * RewardPrecision
    BY StakingAssumption
  <2>6. /\ n * RewardPrecision \in Int /\ m * RewardPrecision \in Int
        /\ k * RewardPrecision \in Int /\ h * RewardPrecision \in Int
    BY StakingAssumption
  <2>7. (IF t = StakeToken THEN n * RewardPrecision ELSE 0) + f <= k * RewardPrecision
    BY <2>1, <2>3, <2>4, <2>5, <2>6
  <2> QED BY <2>1, <2>2, <2>7
<1> QED BY <1>1 DEF StakeSafe

\* The settlement moves what is owed of the tokens from the running reward to the
\* account, and leaves the rest as it was.
LEMMA UpdatedSettles ==
    ASSUME StakeTyped, StakeSettled, NEW u \in Addresses, NEW tokens \in SUBSET RewardTokens,
           NEW s, s = MultiToken!Updated(u, tokens)
    PROVE  /\ DOMAIN s = StakeFields
           /\ \A f \in StakeFields \ {"rewards", "paid"} : s[f] = store[f]
           /\ s.rewards \in [Addresses -> [RewardTokens -> Nat]]
           /\ s.paid \in [Addresses -> [RewardTokens -> Nat]]
           /\ \A a \in Addresses \ {u} : s.rewards[a] = store.rewards[a]
                                        /\ s.paid[a] = store.paid[a]
           /\ \A t \in tokens : s.rewards[u][t] = MultiToken!Owed(u, t)
                                /\ s.paid[u][t] = store.rpt[t]
           /\ \A t \in RewardTokens \ tokens : s.rewards[u][t] = store.rewards[u][t]
                                               /\ s.paid[u][t] = store.paid[u][t]
<1>a. /\ DOMAIN store = StakeFields
      /\ store.paid \in [Addresses -> [RewardTokens -> Nat]]
      /\ store.rewards \in [Addresses -> [RewardTokens -> Nat]]
      /\ store.rpt \in [RewardTokens -> Nat]
      /\ \A t \in RewardTokens : MultiToken!Owed(u, t) \in Nat
  BY OwedIsNumber DEF StakeTyped
<1> DEFINE r == [t \in RewardTokens |-> IF t \in tokens THEN MultiToken!Owed(u, t)
                                        ELSE store.rewards[u][t]]
           p == [t \in RewardTokens |-> IF t \in tokens THEN store.rpt[t]
                                        ELSE store.paid[u][t]]
           rewards == [store.rewards EXCEPT ![u] = r]
           paid == [store.paid EXCEPT ![u] = p]
<1>1. r \in [RewardTokens -> Nat] /\ p \in [RewardTokens -> Nat]
  BY <1>a
<1>2. s = [store EXCEPT !.rewards = rewards, !.paid = paid]
  BY <1>a DEF MultiToken!Updated, StakeFields
<1>3. /\ \A t \in tokens : r[t] = MultiToken!Owed(u, t) /\ p[t] = store.rpt[t]
      /\ \A t \in RewardTokens \ tokens : r[t] = store.rewards[u][t] /\ p[t] = store.paid[u][t]
  OBVIOUS
<1> HIDE DEF r, p
<1>4. /\ rewards \in [Addresses -> [RewardTokens -> Nat]]
      /\ paid \in [Addresses -> [RewardTokens -> Nat]]
      /\ rewards[u] = r /\ paid[u] = p
      /\ \A a \in Addresses \ {u} : rewards[a] = store.rewards[a] /\ paid[a] = store.paid[a]
  BY <1>a, <1>1
<1> HIDE DEF rewards, paid
<1>5. /\ DOMAIN s = StakeFields /\ s.rewards = rewards /\ s.paid = paid
      /\ \A f \in StakeFields \ {"rewards", "paid"} : s[f] = store[f]
  BY <1>a, <1>2 DEF StakeFields
<1> QED BY <1>3, <1>4, <1>5

\* A user's stake changes by d, after the settlement.
LEMMA StakeChanges ==
    ASSUME StakeSafe, NEW u \in Addresses, NEW d \in {-1, 1}, store.stake[u] + d \in Nat,
           NEW s, s = MultiToken!Updated(u, store.whitelist),
           store' = [s EXCEPT !.stake = [s.stake EXCEPT ![u] = s.stake[u] + d],
                              !.totalStaked = s.totalStaked + d],
           held' = [held EXCEPT ![StakeToken] = held[StakeToken] + d]
    PROVE  StakeSafe' /\ MultiToken!EarnedStaysStep
<1>a. /\ StakeTyped /\ StakeSettled /\ store.whitelist \in SUBSET RewardTokens
      /\ store.totalStaked = SumOver(store.stake, Addresses)
      /\ store.stake \in [Addresses -> Nat] /\ store.rpt \in [RewardTokens -> Nat]
      /\ store.paid \in [Addresses -> [RewardTokens -> Nat]]
      /\ held \in [RewardTokens -> Int]
  BY DEF StakeSafe, StakeTyped
<1>b. /\ DOMAIN s = StakeFields
      /\ s.stake = store.stake /\ s.totalStaked = store.totalStaked
      /\ s.whitelist = store.whitelist /\ s.rpt = store.rpt
      /\ s.rewards \in [Addresses -> [RewardTokens -> Nat]]
      /\ s.paid \in [Addresses -> [RewardTokens -> Nat]]
      /\ \A a \in Addresses \ {u} : s.rewards[a] = store.rewards[a]
                                   /\ s.paid[a] = store.paid[a]
      /\ \A t \in store.whitelist : s.rewards[u][t] = MultiToken!Owed(u, t)
                                    /\ s.paid[u][t] = store.rpt[t]
      /\ \A t \in RewardTokens \ store.whitelist : s.rewards[u][t] = store.rewards[u][t]
                                                   /\ s.paid[u][t] = store.paid[u][t]
  <2>1. PICK tokens \in SUBSET RewardTokens : tokens = store.whitelist
    BY <1>a
  <2>2. s = MultiToken!Updated(u, tokens)
    BY <2>1
  <2>3. /\ DOMAIN s = StakeFields
        /\ \A f \in StakeFields \ {"rewards", "paid"} : s[f] = store[f]
        /\ s.rewards \in [Addresses -> [RewardTokens -> Nat]]
        /\ s.paid \in [Addresses -> [RewardTokens -> Nat]]
        /\ \A a \in Addresses \ {u} : s.rewards[a] = store.rewards[a]
                                     /\ s.paid[a] = store.paid[a]
        /\ \A t \in tokens : s.rewards[u][t] = MultiToken!Owed(u, t)
                             /\ s.paid[u][t] = store.rpt[t]
        /\ \A t \in RewardTokens \ tokens : s.rewards[u][t] = store.rewards[u][t]
                                            /\ s.paid[u][t] = store.paid[u][t]
    BY <1>a, <2>2, UpdatedSettles
  <2> QED BY <2>1, <2>3 DEF StakeFields
<1>1. PICK n \in Nat : n = store.stake[u] + d
  OBVIOUS
<1> DEFINE stake == [store.stake EXCEPT ![u] = n]
<1>2. /\ stake \in [Addresses -> Nat] /\ stake[u] = n
      /\ \A a \in Addresses \ {u} : stake[a] = store.stake[a]
      /\ SumOver(stake, Addresses) = store.totalStaked + d
      /\ store.totalStaked + d \in Nat
  <2>1. /\ stake \in [Addresses -> Nat]
        /\ SumOver(stake, Addresses) = store.totalStaked + n - store.stake[u]
        /\ store.totalStaked \in Nat /\ store.stake[u] <= store.totalStaked
    BY <1>a, BalanceSet
  <2>2. store.stake[u] \in Nat
    BY <1>a
  <2> QED BY <1>1, <2>1, <2>2, <1>a
<1>3. store' = [s EXCEPT !.stake = stake, !.totalStaked = store.totalStaked + d]
  BY <1>b, <1>1
<1> HIDE DEF stake
<1>4. /\ DOMAIN store' = StakeFields
      /\ store'.stake = stake /\ store'.totalStaked = store.totalStaked + d
      /\ store'.whitelist = store.whitelist /\ store'.rpt = store.rpt
      /\ store'.rewards = s.rewards /\ store'.paid = s.paid
  BY <1>b, <1>3 DEF StakeFields
<1>5. StakeTyped'
  <2>1. held' \in [RewardTokens -> Int]
    BY <1>a, StakingAssumption
  <2> QED BY <1>a, <1>b, <1>2, <1>4, <2>1 DEF StakeTyped
<1>6. StakeSettled'
  <2>1. ASSUME NEW a \in Addresses, NEW t \in RewardTokens
        PROVE  s.paid[a][t] <= store.rpt[t]
    <3>1. store.paid[a][t] <= store.rpt[t] /\ store.rpt[t] \in Nat
      BY <1>a DEF StakeSettled
    <3>2. s.paid[a][t] \in {store.paid[a][t], store.rpt[t]}
      BY <1>b
    <3> QED BY <3>1, <3>2
  <2> QED BY <1>a, <1>4, <2>1 DEF StakeSettled
<1>7. ASSUME NEW a \in Addresses, NEW t \in RewardTokens
      PROVE  MultiToken!Owed(a, t)' = MultiToken!Owed(a, t)
  <2>1. MultiToken!Owed(a, t)' = s.rewards[a][t] + stake[a] * (store.rpt[t] - s.paid[a][t])
    BY <1>4 DEF MultiToken!Owed
  <2>2. CASE a # u
    BY <1>b, <1>2, <2>1, <2>2 DEF MultiToken!Owed
  <2>3. CASE a = u /\ t \in store.whitelist
    <3>1. stake[a] * (store.rpt[t] - store.rpt[t]) = 0
      BY <1>a, <1>2
    <3>2. MultiToken!Owed(u, t) \in Nat
      BY <1>a, OwedIsNumber
    <3> QED BY <1>b, <2>1, <2>3, <3>1, <3>2
  <2>4. CASE a = u /\ t \notin store.whitelist
    <3>1. store.rpt[t] = 0 /\ store.paid[u][t] = 0
      BY <1>a, <2>4 DEF StakeSettled
    <3>2. s.rewards[u][t] = store.rewards[u][t] /\ s.paid[u][t] = 0
      BY <1>b, <2>4, <3>1
    <3>3. stake[u] * (0 - 0) = 0 /\ store.stake[u] * (0 - 0) = 0
      BY <1>a, <1>2
    <3> QED BY <2>1, <2>4, <3>1, <3>2, <3>3 DEF MultiToken!Owed
  <2> QED BY <2>2, <2>3, <2>4
<1>8. ASSUME NEW t \in RewardTokens
      PROVE  (IF t = StakeToken
                THEN (store'.totalStaked - store.totalStaked) * RewardPrecision ELSE 0)
                + (MultiToken!Owed(u, t)' - MultiToken!Owed(u, t))
              <= (held'[t] - held[t]) * RewardPrecision
  <2>1. MultiToken!Owed(u, t) \in Nat
    BY <1>a, OwedIsNumber
  <2>2. /\ store'.totalStaked - store.totalStaked = d
        /\ held'[t] - held[t] = IF t = StakeToken THEN d ELSE 0
    <3>1. store.totalStaked \in Nat /\ held[t] \in Int
      BY <1>a DEF StakeTyped
    <3> QED BY <1>a, <1>4, <3>1
  <2>3. d * RewardPrecision \in Int /\ 0 * RewardPrecision = 0
    BY StakingAssumption
  <2> QED BY <1>7, <2>1, <2>2, <2>3
<1>9. StakeSafe'
  <2>1. store'.totalStaked = SumOver(store'.stake, Addresses)
    BY <1>2, <1>4
  <2> QED BY <1>5, <1>6, <1>7, <1>8, <2>1, UserStep
<1>10. MultiToken!EarnedStaysStep
  <2>1. \A a \in Addresses, t \in RewardTokens : MultiToken!Owed(a, t) \in Nat
    BY <1>a, OwedIsNumber
  <2> QED BY <1>7, <2>1 DEF MultiToken!EarnedStaysStep
<1> QED BY <1>9, <1>10

\* A claim pays whole units, and leaves what is less than one owed.
LEMMA ClaimPays ==
    ASSUME StakeSafe, NEW u \in Addresses, NEW tokens \in SUBSET RewardTokens,
           MultiToken!Claim(u, tokens)
    PROVE  StakeSafe' /\ MultiToken!EarnedStaysStep
<1>a. /\ StakeTyped /\ StakeSettled
      /\ store.totalStaked = SumOver(store.stake, Addresses)
      /\ store.stake \in [Addresses -> Nat] /\ store.rpt \in [RewardTokens -> Nat]
      /\ store.totalStaked \in Nat
      /\ store.paid \in [Addresses -> [RewardTokens -> Nat]]
      /\ held \in [RewardTokens -> Int]
  BY DEF StakeSafe, StakeTyped
<1>s. PICK s : s = MultiToken!Updated(u, tokens)
  OBVIOUS
<1>b. /\ DOMAIN s = StakeFields
      /\ s.stake = store.stake /\ s.totalStaked = store.totalStaked
      /\ s.whitelist = store.whitelist /\ s.rpt = store.rpt
      /\ s.rewards \in [Addresses -> [RewardTokens -> Nat]]
      /\ s.paid \in [Addresses -> [RewardTokens -> Nat]]
      /\ \A a \in Addresses \ {u} : s.rewards[a] = store.rewards[a]
                                   /\ s.paid[a] = store.paid[a]
      /\ \A t \in tokens : s.rewards[u][t] = MultiToken!Owed(u, t)
                           /\ s.paid[u][t] = store.rpt[t]
      /\ \A t \in RewardTokens \ tokens : s.rewards[u][t] = store.rewards[u][t]
                                          /\ s.paid[u][t] = store.paid[u][t]
  BY <1>a, <1>s, UpdatedSettles DEF StakeFields
<1> DEFINE Reward(t) == IF t \in tokens THEN s.rewards[u][t] \div RewardPrecision ELSE 0
           left == [t \in RewardTokens |-> s.rewards[u][t] - Reward(t) * RewardPrecision]
           rewards == [s.rewards EXCEPT ![u] = left]
<1>1. /\ store' = [s EXCEPT !.rewards = rewards]
      /\ held' = [t \in RewardTokens |-> held[t] - Reward(t)]
  BY <1>b, <1>s DEF MultiToken!Claim
<1>2. ASSUME NEW t \in RewardTokens
      PROVE  Reward(t) \in Nat /\ left[t] \in Nat /\ Reward(t) * RewardPrecision \in Nat
  <2>1. PICK w \in Nat : w = s.rewards[u][t]
    BY <1>b
  <2>2. PICK q \in Nat : q = w \div RewardPrecision
    BY StakingAssumption
  <2>3. q * RewardPrecision <= w /\ q * RewardPrecision \in Nat
    BY <2>2, StakingAssumption
  <2>4. Reward(t) \in {q, 0} /\ 0 * RewardPrecision = 0
    BY <2>1, <2>2, StakingAssumption
  <2> QED BY <2>1, <2>3, <2>4
<1>3. \A t \in RewardTokens : left[t] = s.rewards[u][t] - Reward(t) * RewardPrecision
  OBVIOUS
<1>4. \A t \in RewardTokens \ tokens : Reward(t) = 0
  OBVIOUS
<1>5. left \in [RewardTokens -> Nat]
  BY <1>2
<1> HIDE DEF left, Reward
<1>6. /\ rewards \in [Addresses -> [RewardTokens -> Nat]] /\ rewards[u] = left
      /\ \A a \in Addresses \ {u} : rewards[a] = s.rewards[a]
  BY <1>b, <1>5
<1> HIDE DEF rewards
<1>7. /\ DOMAIN store' = StakeFields
      /\ store'.stake = store.stake /\ store'.totalStaked = store.totalStaked
      /\ store'.whitelist = store.whitelist /\ store'.rpt = store.rpt
      /\ store'.rewards = rewards /\ store'.paid = s.paid
  BY <1>b, <1>1 DEF StakeFields
<1>8. StakeTyped'
  <2>1. held' \in [RewardTokens -> Int]
    BY <1>a, <1>1, <1>2
  <2>2. store.whitelist \subseteq RewardTokens
    BY <1>a DEF StakeTyped
  <2> QED BY <1>a, <1>b, <1>6, <1>7, <2>1, <2>2 DEF StakeTyped
<1>9. StakeSettled'
  <2>1. ASSUME NEW a \in Addresses, NEW t \in RewardTokens
        PROVE  s.paid[a][t] <= store.rpt[t]
    <3>1. store.paid[a][t] <= store.rpt[t] /\ store.rpt[t] \in Nat
      BY <1>a DEF StakeSettled
    <3>2. s.paid[a][t] \in {store.paid[a][t], store.rpt[t]}
      BY <1>b
    <3> QED BY <3>1, <3>2
  <2> QED BY <1>a, <1>7, <2>1 DEF StakeSettled
<1>10. ASSUME NEW a \in Addresses \ {u}, NEW t \in RewardTokens
       PROVE  MultiToken!Owed(a, t)' = MultiToken!Owed(a, t)
  BY <1>b, <1>6, <1>7 DEF MultiToken!Owed
<1>11. ASSUME NEW t \in RewardTokens
       PROVE  /\ MultiToken!Owed(u, t)' = MultiToken!Owed(u, t) - Reward(t) * RewardPrecision
              /\ held'[t] = held[t] - Reward(t)
  <2>1. MultiToken!Owed(u, t)'
            = left[t] + store.stake[u] * (store.rpt[t] - s.paid[u][t])
    BY <1>6, <1>7 DEF MultiToken!Owed
  <2>2. MultiToken!Owed(u, t) \in Nat /\ store.stake[u] \in Nat /\ store.rpt[t] \in Nat
    BY <1>a, OwedIsNumber
  <2>3. CASE t \in tokens
    <3>1. store.stake[u] * (store.rpt[t] - store.rpt[t]) = 0
      BY <2>2
    <3>2. left[t] = MultiToken!Owed(u, t) - Reward(t) * RewardPrecision /\ left[t] \in Nat
      BY <1>b, <1>3, <1>5, <2>3
    <3> QED BY <1>b, <1>1, <2>1, <2>3, <3>1, <3>2
  <2>4. CASE t \notin tokens
    <3>1. Reward(t) * RewardPrecision = 0
      BY <1>4, <2>4, StakingAssumption
    <3>2. left[t] = store.rewards[u][t] /\ s.paid[u][t] = store.paid[u][t]
      <4>1. left[t] = s.rewards[u][t] - 0 /\ s.rewards[u][t] \in Nat
        BY <1>b, <1>3, <3>1
      <4> QED BY <1>b, <2>4, <4>1
    <3>3. MultiToken!Owed(u, t)' = MultiToken!Owed(u, t)
      BY <2>1, <3>2 DEF MultiToken!Owed
    <3> QED BY <1>1, <2>2, <3>1, <3>3
  <2> QED BY <2>3, <2>4
<1>12. ASSUME NEW t \in RewardTokens
       PROVE  /\ MultiToken!Owed(u, t)' - MultiToken!Owed(u, t)
                     = (held'[t] - held[t]) * RewardPrecision
              /\ MultiToken!Owed(u, t)' < MultiToken!Owed(u, t) =>
                    /\ held'[t] < held[t]
                    /\ MultiToken!Owed(u, t) - MultiToken!Owed(u, t)'
                           = (held[t] - held'[t]) * RewardPrecision
  <2>1. PICK w \in Nat, h \in Int, o \in Nat, p \in Int :
            /\ w = Reward(t) /\ h = held[t] /\ o = MultiToken!Owed(u, t)
            /\ p = MultiToken!Owed(u, t)' /\ p = o - w * RewardPrecision
    <3>1. MultiToken!Owed(u, t) \in Nat /\ held[t] \in Int
      BY <1>a, OwedIsNumber
    <3> QED BY <1>2, <1>11, <3>1
  <2>2. held'[t] = h - w
    BY <1>11, <2>1
  <2>3. (h - w) - h = -w /\ h - (h - w) = w /\ (-w) * RewardPrecision = -(w * RewardPrecision)
        /\ w * RewardPrecision \in Int
    BY <2>1, StakingAssumption
  <2>4. p < o => w > 0
    <3>1. w = 0 => w * RewardPrecision = 0
      BY StakingAssumption
    <3> QED BY <2>1, <3>1
  <2> QED BY <2>1, <2>2, <2>3, <2>4
<1>13. StakeSafe'
  <2>1. \A t \in RewardTokens :
           (IF t = StakeToken THEN (store'.totalStaked - store.totalStaked) * RewardPrecision
                                 ELSE 0)
                + (MultiToken!Owed(u, t)' - MultiToken!Owed(u, t))
              <= (held'[t] - held[t]) * RewardPrecision
    <3> TAKE t \in RewardTokens
    <3>1. (store'.totalStaked - store.totalStaked) * RewardPrecision = 0
      BY <1>a, <1>7, StakingAssumption
    <3>2. MultiToken!Owed(u, t)' - MultiToken!Owed(u, t) \in Int
      BY <1>a, <1>8, <1>9, OwedIsNumber, OwedIsNumberNext
    <3> QED BY <1>12, <3>1, <3>2
  <2> QED BY <1>a, <1>7, <1>8, <1>9, <1>10, <2>1, UserStep
<1>14. MultiToken!EarnedStaysStep
  <2>1. \A a \in Addresses, t \in RewardTokens : MultiToken!Owed(a, t) \in Nat
    BY <1>a, OwedIsNumber
  <2> QED BY <1>10, <1>12, <2>1 DEF MultiToken!EarnedStaysStep
<1> QED BY <1>13, <1>14

\* Rewards are shared by the stakes of the moment, which the division never exceeds.
LEMMA RewardsAreShared ==
    ASSUME StakeSafe, NEW t \in RewardTokens, MultiToken!DepositRewards(t, 1)
    PROVE  StakeSafe' /\ MultiToken!EarnedStaysStep
<1>a. /\ StakeTyped /\ StakeSettled /\ DOMAIN store = StakeFields
      /\ store.totalStaked = SumOver(store.stake, Addresses)
      /\ store.stake \in [Addresses -> Nat] /\ store.rpt \in [RewardTokens -> Nat]
      /\ store.totalStaked \in Nat /\ store.whitelist \subseteq RewardTokens
      /\ store.paid \in [Addresses -> [RewardTokens -> Nat]]
      /\ held \in [RewardTokens -> Int]
  BY DEF StakeSafe, StakeTyped
<1>1. /\ held' = [held EXCEPT ![t] = held[t] + 1] /\ t \in store.whitelist
      /\ store' = IF store.totalStaked = 0 THEN store
                  ELSE [store EXCEPT !.rpt = [store.rpt EXCEPT
                          ![t] = store.rpt[t] + (1 * RewardPrecision) \div store.totalStaked]]
  BY <1>a DEF MultiToken!DepositRewards, StakeFields
<1>2. /\ held' \in [RewardTokens -> Int] /\ held'[t] = held[t] + 1
      /\ \A u \in RewardTokens \ {t} : held'[u] = held[u]
  BY <1>a, <1>1
\* The running reward grows by d.
<1>3. PICK d \in Nat :
          /\ d * store.totalStaked <= RewardPrecision
          /\ DOMAIN store' = StakeFields
          /\ store'.stake = store.stake /\ store'.totalStaked = store.totalStaked
          /\ store'.whitelist = store.whitelist /\ store'.paid = store.paid
          /\ store'.rewards = store.rewards
          /\ store'.rpt = [store.rpt EXCEPT ![t] = store.rpt[t] + d]
  <2>1. CASE store.totalStaked = 0
    <3>1. store' = store /\ 0 * store.totalStaked = 0
      BY <1>1, <2>1
    <3>2. store.rpt = [store.rpt EXCEPT ![t] = store.rpt[t] + 0]
      <4>1. PICK f \in [RewardTokens -> Nat] : f = store.rpt
        BY <1>a
      <4>2. f = [f EXCEPT ![t] = f[t]] /\ f[t] + 0 = f[t]
        OBVIOUS
      <4> QED BY <4>1, <4>2
    <3>3. 0 * store.totalStaked <= RewardPrecision
      BY <3>1, StakingAssumption
    <3>4. store'.rpt = [store.rpt EXCEPT ![t] = store.rpt[t] + 0]
      BY <3>1, <3>2
    <3>5. /\ DOMAIN store' = StakeFields
          /\ store'.stake = store.stake /\ store'.totalStaked = store.totalStaked
          /\ store'.whitelist = store.whitelist /\ store'.paid = store.paid
          /\ store'.rewards = store.rewards
      BY <1>a, <3>1
    <3> WITNESS 0 \in Nat
    <3> QED BY <3>3, <3>4, <3>5
  <2>2. CASE store.totalStaked # 0
    <3>4. PICK n \in Nat : n = store.totalStaked /\ n > 0
      <4>1. PICK n \in Nat : n = store.totalStaked
        BY <1>a
      <4> QED BY <2>2, <4>1
    <3>5. RewardPrecision \div n \in Nat
      BY <3>4, StakingAssumption
    <3>1. PICK d \in Nat : n = store.totalStaked /\ d = (1 * RewardPrecision) \div n
      BY <3>4, <3>5, StakingAssumption
    <3>2. d * n <= RewardPrecision
      BY <2>2, <3>1, StakingAssumption
    <3>3. store' = [store EXCEPT !.rpt = [store.rpt EXCEPT ![t] = store.rpt[t] + d]]
      BY <1>1, <2>2, <3>1
    <3> QED BY <1>a, <3>1, <3>2, <3>3 DEF StakeFields
  <2> QED BY <2>1, <2>2
<1>4. /\ store'.rpt \in [RewardTokens -> Nat] /\ store'.rpt[t] = store.rpt[t] + d
      /\ \A u \in RewardTokens \ {t} : store'.rpt[u] = store.rpt[u]
      /\ store.rpt[t] \in Nat
  <2>1. store.rpt[t] \in Nat
    BY <1>a
  <2>2. PICK n \in Nat : n = store.rpt[t] + d
    BY <2>1
  <2> QED BY <1>a, <1>3, <2>1, <2>2
<1>5. StakeTyped'
  BY <1>2, <1>3, <1>4 DEF StakeTyped, StakeSafe
<1>6. StakeSettled'
  <2>1. ASSUME NEW a \in Addresses, NEW u \in RewardTokens
        PROVE  store.paid[a][u] <= store'.rpt[u]
    <3>1. store.paid[a][u] <= store.rpt[u] /\ store.paid[a][u] \in Nat
      BY <1>a DEF StakeSettled
    <3> QED BY <1>4, <3>1
  <2> QED BY <1>a, <1>1, <1>3, <1>4, <2>1 DEF StakeSettled
<1>7. ASSUME NEW u \in RewardTokens \ {t}, NEW a \in Addresses
      PROVE  MultiToken!Owed(a, u)' = MultiToken!Owed(a, u)
  BY <1>3, <1>4 DEF MultiToken!Owed
<1>8. ASSUME NEW a \in Addresses
      PROVE  MultiToken!Owed(a, t)' = MultiToken!Owed(a, t) + d * store.stake[a]
  <2>1. PICK r \in Nat, s \in Nat, p \in Nat, q \in Nat :
            /\ r = store.rewards[a][t] /\ s = store.stake[a]
            /\ p = store.paid[a][t] /\ q = store.rpt[t]
    BY <1>a DEF StakeTyped
  <2>2. MultiToken!Owed(a, t) = r + s * (q - p)
    BY <2>1 DEF MultiToken!Owed
  <2>3. MultiToken!Owed(a, t)' = r + s * ((q + d) - p)
    BY <1>3, <1>4, <2>1 DEF MultiToken!Owed
  <2>4. s * ((q + d) - p) = s * (q - p) + d * s /\ s * (q - p) \in Int /\ d * s \in Int
    OBVIOUS
  <2> QED BY <2>1, <2>2, <2>3, <2>4
<1>9. AllEarned(t)' = AllEarned(t) + d * store.totalStaked
  <2>1. PICK F : F = MultiToken!Earned(t)
    OBVIOUS
  <2>2. PICK H : H = MultiToken!Earned(t)'
    OBVIOUS
  <2>3. PICK G : G = store.stake
    OBVIOUS
  <2>4. \A a \in Addresses : F[a] = MultiToken!Owed(a, t) /\ H[a] = MultiToken!Owed(a, t)'
    BY <2>1, <2>2 DEF MultiToken!Earned
  <2>5. /\ \A a \in Addresses : F[a] \in Int
        /\ \A a \in Addresses : G[a] \in Int
        /\ \A a \in Addresses : H[a] = F[a] + d * G[a]
    BY <1>a, <1>8, <2>3, <2>4, OwedIsNumber
  <2>6. SumOver(H, Addresses) = SumOver(F, Addresses) + d * SumOver(G, Addresses)
    BY <2>5, UsersAssumption, SumOfLinear
  <2> QED BY <1>a, <2>1, <2>2, <2>3, <2>6 DEF AllEarned
<1>10. ASSUME NEW u \in RewardTokens \ {t}
       PROVE  AllEarned(u)' = AllEarned(u)
  <2>1. MultiToken!Earned(u)' = MultiToken!Earned(u)
    BY <1>7 DEF MultiToken!Earned
  <2> QED BY <2>1 DEF AllEarned
<1>11. AllEarned(t) \in Int
  <2>1. PICK F : F = MultiToken!Earned(t)
    OBVIOUS
  <2>2. \A a \in Addresses : F[a] \in Int
    <3> TAKE a \in Addresses
    <3>1. F[a] = MultiToken!Owed(a, t)
      BY <2>1 DEF MultiToken!Earned
    <3>2. MultiToken!Owed(a, t) \in Nat
      BY <1>a, OwedIsNumber
    <3>3. F[a] \in Nat
      BY <3>1, <3>2
    <3> QED BY <3>3
  <2>3. SumOver(F, Addresses) \in Int
    BY <2>2, UsersAssumption, SumWithout
  <2> QED BY <2>1, <2>3 DEF AllEarned
<1>12. ASSUME NEW u \in RewardTokens
       PROVE  (IF u = StakeToken THEN store'.totalStaked * RewardPrecision ELSE 0)
                 + AllEarned(u)' <= held'[u] * RewardPrecision
  <2>1. (IF u = StakeToken THEN store.totalStaked * RewardPrecision ELSE 0)
              + AllEarned(u) <= held[u] * RewardPrecision
    BY DEF StakeSafe
  <2>2. CASE u # t
    BY <1>2, <1>3, <1>10, <2>1, <2>2
  <2>3. CASE u = t
    <3>1. PICK e \in Int, h \in Int, b \in Int, c \in Int :
              /\ e = AllEarned(t) /\ h = held[t]
              /\ b = IF t = StakeToken THEN store.totalStaked * RewardPrecision ELSE 0
              /\ c = d * store.totalStaked
      <4>1. held[t] \in Int /\ store.totalStaked * RewardPrecision \in Int
            /\ d * store.totalStaked \in Int
        BY <1>a, StakingAssumption
      <4> QED BY <1>11, <4>1
    <3>2. b + e <= h * RewardPrecision /\ c <= RewardPrecision
      BY <1>3, <2>1, <2>3, <3>1
    <3>3. (h + 1) * RewardPrecision = h * RewardPrecision + RewardPrecision
          /\ h * RewardPrecision \in Int
      BY <3>1, StakingAssumption
    <3>4. b + (e + c) <= (h + 1) * RewardPrecision
      BY <3>2, <3>3, StakingAssumption
    <3> QED BY <1>2, <1>3, <1>9, <2>3, <3>1, <3>4
  <2> QED BY <2>2, <2>3
<1>13. StakeSafe'
  BY <1>a, <1>3, <1>5, <1>6, <1>12 DEF StakeSafe
<1>14. MultiToken!EarnedStaysStep
  <2>1. ASSUME NEW a \in Addresses, NEW u \in RewardTokens
        PROVE  ~(MultiToken!Owed(a, u)' < MultiToken!Owed(a, u))
    <3>1. MultiToken!Owed(a, u) \in Nat
      BY <1>a, OwedIsNumber
    <3>2. CASE u # t
      BY <1>7, <3>1, <3>2
    <3>3. CASE u = t
      <4>1. d * store.stake[a] \in Nat
        BY <1>a
      <4> QED BY <1>8, <3>1, <3>3, <4>1
    <3> QED BY <3>2, <3>3
  <2> QED BY <2>1 DEF MultiToken!EarnedStaysStep
<1> QED BY <1>13, <1>14

\* An emergency withdrawal, which only a paused contract allows, gives up what was
\* earned since the last settlement.
LEMMA EmergencyGivesUp ==
    ASSUME StakeSafe, NEW u \in Addresses, MultiToken!EmergencyWithdraw(u)
    PROVE  StakeSafe' /\ MultiToken!EarnedStaysStep
<1>a. /\ StakeTyped /\ StakeSettled /\ DOMAIN store = StakeFields
      /\ store.totalStaked = SumOver(store.stake, Addresses)
      /\ store.stake \in [Addresses -> Nat] /\ store.rpt \in [RewardTokens -> Nat]
      /\ store.totalStaked \in Nat /\ store.whitelist \subseteq RewardTokens
      /\ store.paid \in [Addresses -> [RewardTokens -> Nat]]
      /\ store.rewards \in [Addresses -> [RewardTokens -> Nat]]
      /\ held \in [RewardTokens -> Int]
  BY DEF StakeSafe, StakeTyped
<1>n. PICK n \in Nat : n = store.stake[u]
  BY <1>a
<1>z. PICK z \in Nat : z = 0
  OBVIOUS
<1> DEFINE stake == [store.stake EXCEPT ![u] = z]
<1>1. /\ store.paused
      /\ store' = [store EXCEPT !.stake = stake, !.totalStaked = store.totalStaked - n]
      /\ held' = [held EXCEPT ![StakeToken] = held[StakeToken] - n]
  BY <1>a, <1>n, <1>z DEF MultiToken!EmergencyWithdraw, StakeFields
<1>2. /\ stake \in [Addresses -> Nat] /\ stake[u] = 0
      /\ \A a \in Addresses \ {u} : stake[a] = store.stake[a]
      /\ SumOver(stake, Addresses) = store.totalStaked - n
      /\ store.totalStaked - n \in Nat
  <2>1. /\ stake \in [Addresses -> Nat]
        /\ SumOver(stake, Addresses) = SumOver(store.stake, Addresses) + z - store.stake[u]
        /\ SumOver(store.stake, Addresses) \in Nat
        /\ store.stake[u] <= SumOver(store.stake, Addresses)
    BY <1>a, BalanceSet
  <2> QED BY <1>a, <1>n, <1>z, <2>1
<1> HIDE DEF stake
<1>3. /\ DOMAIN store' = StakeFields
      /\ store'.stake = stake /\ store'.totalStaked = store.totalStaked - n
      /\ store'.whitelist = store.whitelist /\ store'.rpt = store.rpt
      /\ store'.rewards = store.rewards /\ store'.paid = store.paid
  BY <1>a, <1>1 DEF StakeFields
<1>4. held' \in [RewardTokens -> Int]
      /\ \A t \in RewardTokens : held'[t] - held[t] = IF t = StakeToken THEN -n ELSE 0
  BY <1>a, <1>1, StakingAssumption
<1>5. StakeTyped'
  BY <1>a, <1>2, <1>3, <1>4 DEF StakeTyped
<1>6. StakeSettled'
  BY <1>a, <1>3 DEF StakeSettled
<1>7. ASSUME NEW a \in Addresses \ {u}, NEW t \in RewardTokens
      PROVE  MultiToken!Owed(a, t)' = MultiToken!Owed(a, t)
  BY <1>2, <1>3 DEF MultiToken!Owed
<1>8. ASSUME NEW t \in RewardTokens
      PROVE  MultiToken!Owed(u, t)' <= MultiToken!Owed(u, t)
             /\ MultiToken!Owed(u, t) \in Nat /\ MultiToken!Owed(u, t)' \in Nat
  <2>1. MultiToken!Owed(u, t)' = store.rewards[u][t] + 0 * (store.rpt[t] - store.paid[u][t])
    BY <1>2, <1>3 DEF MultiToken!Owed
  <2>2. 0 * (store.rpt[t] - store.paid[u][t]) = 0 /\ store.rewards[u][t] \in Nat
    BY <1>a
  <2> QED BY <1>a, <2>1, <2>2, OwedIsNumber
<1>9. ASSUME NEW t \in RewardTokens
      PROVE  (IF t = StakeToken
                THEN (store'.totalStaked - store.totalStaked) * RewardPrecision ELSE 0)
                + (MultiToken!Owed(u, t)' - MultiToken!Owed(u, t))
              <= (held'[t] - held[t]) * RewardPrecision
  <2>1. store'.totalStaked - store.totalStaked = -n
    BY <1>a, <1>3
  <2>2. (-n) * RewardPrecision \in Int /\ 0 * RewardPrecision = 0
    BY StakingAssumption
  <2> QED BY <1>4, <1>8, <2>1, <2>2
<1>10. StakeSafe'
  <2>1. store'.totalStaked = SumOver(store'.stake, Addresses)
    BY <1>2, <1>3
  <2> QED BY <1>5, <1>6, <1>7, <1>9, <2>1, UserStep
<1> QED BY <1>1, <1>10 DEF MultiToken!EarnedStaysStep

\* Calls that leave every account as it was.
LEMMA AccountsStay ==
    ASSUME StakeSafe, DOMAIN store' = StakeFields, held' = held,
           store.whitelist \subseteq store'.whitelist, store'.whitelist \subseteq RewardTokens,
           \A f \in {"totalStaked", "stake", "rpt", "paid", "rewards"} : store'[f] = store[f]
    PROVE  StakeSafe' /\ MultiToken!EarnedStaysStep
<1>1. \A a \in Addresses, t \in RewardTokens : MultiToken!Owed(a, t)' = MultiToken!Owed(a, t)
  BY DEF MultiToken!Owed
<1>2. \A t \in RewardTokens : AllEarned(t)' = AllEarned(t)
  BY <1>1 DEF AllEarned, MultiToken!Earned
<1>3. StakeTyped' /\ StakeSettled'
  BY DEF StakeSafe, StakeTyped, StakeSettled
<1>4. StakeSafe'
  BY <1>2, <1>3 DEF StakeSafe
<1>5. \A a \in Addresses, t \in RewardTokens : MultiToken!Owed(a, t) \in Nat
  BY OwedIsNumber DEF StakeSafe
<1> QED BY <1>1, <1>4, <1>5 DEF MultiToken!EarnedStaysStep

LEMMA StakeStep == StakeSafe /\ MultiToken!Next => StakeSafe' /\ MultiToken!EarnedStaysStep
<1> DEFINE Kept == StakeSafe' /\ MultiToken!EarnedStaysStep
<1> SUFFICES ASSUME StakeSafe, MultiToken!Next PROVE Kept
  OBVIOUS
<1>a. /\ DOMAIN store = StakeFields /\ store.whitelist \subseteq RewardTokens
      /\ store.rpt \in [RewardTokens -> Nat] /\ store.stake \in [Addresses -> Nat]
      /\ \A t \in RewardTokens \ store.whitelist : store.rpt[t] = 0
      /\ StakeTyped /\ StakeSettled
  BY DEF StakeSafe, StakeTyped, StakeSettled
<1>1. ASSUME NEW u \in Addresses, MultiToken!Stake(u, 1)
      PROVE  Kept
  <2>1. PICK s : s = MultiToken!Updated(u, store.whitelist)
    OBVIOUS
  <2>2. /\ store' = [s EXCEPT !.stake = [s.stake EXCEPT ![u] = s.stake[u] + 1],
                              !.totalStaked = s.totalStaked + 1]
        /\ held' = [held EXCEPT ![StakeToken] = held[StakeToken] + 1]
    BY <1>1, <2>1 DEF MultiToken!Stake
  <2>3. store.stake[u] + 1 \in Nat
    BY <1>a
  <2> QED BY <2>1, <2>2, <2>3, StakeChanges
<1>2. ASSUME NEW u \in Addresses, MultiToken!Unstake(u, 1)
      PROVE  Kept
  <2>1. PICK s : s = MultiToken!Updated(u, store.whitelist)
    OBVIOUS
  <2>2. /\ store' = [s EXCEPT !.stake = [s.stake EXCEPT ![u] = s.stake[u] - 1],
                              !.totalStaked = s.totalStaked - 1]
        /\ held' = [held EXCEPT ![StakeToken] = held[StakeToken] - 1]
        /\ store.stake[u] >= 1
    BY <1>2, <2>1 DEF MultiToken!Unstake
  <2>3. /\ s.stake = store.stake /\ s.totalStaked = store.totalStaked
    BY <1>a, <2>1 DEF MultiToken!Updated, StakeFields
  <2>4. /\ store.stake[u] + (-1) \in Nat /\ s.stake[u] - 1 = s.stake[u] + (-1)
        /\ s.totalStaked - 1 = s.totalStaked + (-1)
        /\ held[StakeToken] - 1 = held[StakeToken] + (-1)
    <3>1. s.stake[u] \in Nat /\ s.totalStaked \in Nat /\ held[StakeToken] \in Int
      BY <1>a, <2>3, StakingAssumption DEF StakeTyped
    <3> QED BY <2>2, <2>3, <3>1
  <2>5. /\ store' = [s EXCEPT !.stake = [s.stake EXCEPT ![u] = s.stake[u] + (-1)],
                              !.totalStaked = s.totalStaked + (-1)]
        /\ held' = [held EXCEPT ![StakeToken] = held[StakeToken] + (-1)]
    BY <2>2, <2>4
  <2>6. PICK d \in {-1, 1} : d = -1
    OBVIOUS
  <2> QED BY <2>1, <2>4, <2>5, <2>6, StakeChanges
<1>3. ASSUME NEW u \in Addresses, MultiToken!EmergencyWithdraw(u)
      PROVE  Kept
  BY <1>3, EmergencyGivesUp
<1>4. ASSUME NEW u \in Addresses, NEW t \in RewardTokens, MultiToken!Claim(u, {t})
      PROVE  Kept
  BY <1>4, ClaimPays
<1>5. ASSUME NEW u \in Addresses, MultiToken!Claim(u, store.whitelist)
      PROVE  Kept
  <2>1. PICK tokens \in SUBSET RewardTokens : tokens = store.whitelist
    BY <1>a
  <2>2. MultiToken!Claim(u, tokens)
    BY <1>5, <2>1
  <2> QED BY <2>2, ClaimPays
<1>6. ASSUME NEW t \in RewardTokens, MultiToken!DepositRewards(t, 1)
      PROVE  Kept
  BY <1>6, RewardsAreShared
<1>7. ASSUME NEW t \in RewardTokens, MultiToken!AddRewardToken(t)
      PROVE  Kept
  <2>1. /\ t \notin store.whitelist /\ held' = held
        /\ store' = [store EXCEPT !.whitelist = store.whitelist \cup {t},
                                  !.rpt = [store.rpt EXCEPT ![t] = 0]]
    BY <1>7, <1>a DEF MultiToken!AddRewardToken, StakeFields
  <2>2. [store.rpt EXCEPT ![t] = 0] = store.rpt
    BY <1>a, <2>1
  <2>3. store' = [store EXCEPT !.whitelist = store.whitelist \cup {t}, !.rpt = store.rpt]
    BY <2>1, <2>2
  <2> QED BY <1>a, <2>1, <2>3, AccountsStay DEF StakeFields
<1>8. ASSUME NEW a, MultiToken!Initialize(a) \/ MultiToken!SetPaused(a)
      PROVE  Kept
  <2>1. held' = held /\ (store' = [store EXCEPT !.admin = a]
                            \/ store' = [store EXCEPT !.paused = a])
    BY <1>8 DEF MultiToken!Initialize, MultiToken!SetPaused
  <2> QED BY <1>a, <2>1, AccountsStay DEF StakeFields
<1> HIDE DEF Kept
<1> QED BY <1>1, <1>2, <1>3, <1>4, <1>5, <1>6, <1>7, <1>8 DEF MultiToken!Next

------------------------------------------------------------------------------
(* The random draws *)

DrawFields == {"admin", "phase", "round", "commitments", "secrets", "seed"}

\* Nobody commits to the round in progress, or to a later one, once a secret is known.
RandomSafe ==
    /\ DOMAIN store = DrawFields /\ store.round \in 0 .. MaxRounds
    /\ store.admin \in Somebody
    /\ store.phase \in {"none", "COMMIT", "REVEAL", "COMPLETED"}
    /\ store.admin = Nobody => store.phase = "none"
    /\ store.commitments \in [Random!Rounds -> SUBSET Addresses]
    /\ store.secrets \in [Random!Rounds -> SUBSET Addresses]
    /\ store.seed \in [Random!Rounds -> (SUBSET Addresses) \cup {Nobody}]
    /\ history \in [Random!Rounds -> SUBSET Addresses]
    /\ \A r \in Random!Rounds :
          /\ store.secrets[r] \subseteq store.commitments[r]
          /\ store.seed[r] # Nobody => /\ store.seed[r] \subseteq store.commitments[r]
                                       /\ store.seed[r] \cap history[r] = {}
          /\ r > store.round => store.commitments[r] = {}
          /\ r >= store.round => history[r] = {}
          /\ r >= store.round /\ store.phase \in {"none", "COMMIT"} => store.secrets[r] = {}

LEMMA DrawsBlind == RandomSafe => Random!SecretsWereBlind
  BY DEF RandomSafe, Random!SecretsWereBlind

LEMMA DrawsTyped == RandomSafe => Random!TypeOK
  BY DEF RandomSafe, Random!TypeOK, Somebody, Random!Somebody

LEMMA RandomInit == Random!Init => RandomSafe
<1> SUFFICES ASSUME Random!Init PROVE RandomSafe
  OBVIOUS
<1>1. /\ DOMAIN store = DrawFields /\ store.round = 0
      /\ store.admin = Nobody /\ store.phase = "none"
  BY DEF Random!Init, DrawFields
<1>2. /\ store.commitments = [r \in Random!Rounds |-> {}]
      /\ store.secrets = [r \in Random!Rounds |-> {}]
      /\ store.seed = [r \in Random!Rounds |-> Nobody]
      /\ history = [r \in Random!Rounds |-> {}]
  BY DEF Random!Init
<1>3. 0 \in 0 .. MaxRounds
  BY DrawAssumption
<1> QED BY <1>1, <1>2, <1>3 DEF RandomSafe, Somebody

LEMMA RandomIdle == RandomSafe /\ UNCHANGED contractVars => RandomSafe'
  BY DEF RandomSafe, contractVars

LEMMA RandomStep == RandomSafe /\ Random!Next => RandomSafe'
<1> SUFFICES ASSUME RandomSafe, Random!Next PROVE RandomSafe'
  OBVIOUS
<1>a. Random!Rounds' = Random!Rounds
  BY DEF Random!Rounds
<1>1. ASSUME NEW a \in Addresses, Random!Initialize(a)
      PROVE  RandomSafe'
  <2>1. /\ DOMAIN store' = DrawFields /\ store'.admin = a /\ store'.phase = "COMMIT"
        /\ store'.round = store.round /\ store'.commitments = store.commitments
        /\ store'.secrets = store.secrets /\ store'.seed = store.seed /\ history' = history
        /\ store.phase = "none"
    BY <1>1 DEF Random!Initialize, RandomSafe, DrawFields
  <2>2. a \in Somebody /\ a # Nobody
    BY UsersAssumption DEF Somebody
  <2> QED BY <1>a, <2>1, <2>2 DEF RandomSafe
<1>2. ASSUME NEW a \in Addresses, NEW r \in Random!Rounds, Random!Commit(a, r)
      PROVE  RandomSafe'
  <2>1. /\ DOMAIN store' = DrawFields /\ store'.admin = store.admin
        /\ store'.phase = store.phase /\ store'.round = store.round
        /\ store'.commitments = [store.commitments EXCEPT ![r] = @ \cup {a}]
        /\ store'.secrets = store.secrets /\ store'.seed = store.seed
        /\ history' = [history EXCEPT ![r] = IF store.secrets[r] # {} THEN @ \cup {a} ELSE @]
        /\ store.phase = "COMMIT" /\ r <= store.round /\ a \notin store.commitments[r]
    BY <1>2 DEF Random!Commit, RandomSafe, DrawFields
  <2>2. /\ store'.commitments \in [Random!Rounds -> SUBSET Addresses]
        /\ history' \in [Random!Rounds -> SUBSET Addresses]
    BY <2>1 DEF RandomSafe
  <2>3. \A s \in Random!Rounds :
          /\ store'.secrets[s] \subseteq store'.commitments[s]
          /\ store'.seed[s] # Nobody => /\ store'.seed[s] \subseteq store'.commitments[s]
                                        /\ store'.seed[s] \cap history'[s] = {}
          /\ s > store.round => store'.commitments[s] = {}
          /\ s >= store.round => history'[s] = {}
    <3> TAKE s \in Random!Rounds
    <3>1. CASE s # r
      <4>1. store'.commitments[s] = store.commitments[s] /\ history'[s] = history[s]
        BY <2>1, <3>1 DEF RandomSafe
      <4> QED BY <2>1, <4>1 DEF RandomSafe
    <3>2. CASE s = r
      <4>1. /\ store'.commitments[s] = store.commitments[s] \cup {a}
            /\ history'[s] = IF store.secrets[r] # {} THEN history[s] \cup {a} ELSE history[s]
        BY <2>1, <3>2 DEF RandomSafe
      <4>2. s >= store.round => store.secrets[r] = {}
        BY <2>1, <3>2 DEF RandomSafe
      <4>3. ~(s > store.round)
        BY <2>1, <3>2, DrawAssumption DEF RandomSafe, Random!Rounds
      <4> QED BY <2>1, <3>2, <4>1, <4>2, <4>3 DEF RandomSafe
    <3> QED BY <3>1, <3>2
  <2> QED BY <1>a, <2>1, <2>2, <2>3 DEF RandomSafe
<1>3. ASSUME NEW a \in Addresses, NEW r \in Random!Rounds, Random!Reveal(a, r)
      PROVE  RandomSafe'
  <2>1. /\ DOMAIN store' = DrawFields /\ store'.admin = store.admin
        /\ store'.phase = store.phase /\ store'.round = store.round
        /\ store'.commitments = store.commitments
        /\ store'.secrets = [store.secrets EXCEPT ![r] = @ \cup {a}]
        /\ store'.seed = store.seed /\ history' = history
        /\ store.phase = "REVEAL" /\ a \in store.commitments[r]
    BY <1>3 DEF Random!Reveal, RandomSafe, DrawFields
  <2>2. store'.secrets \in [Random!Rounds -> SUBSET Addresses]
    BY <2>1 DEF RandomSafe
  <2>3. \A s \in Random!Rounds : store'.secrets[s] \subseteq store.commitments[s]
    BY <2>1 DEF RandomSafe
  <2> QED BY <1>a, <2>1, <2>2, <2>3 DEF RandomSafe
<1>4. CASE Random!StartRound
  <2>1. /\ DOMAIN store' = DrawFields /\ store'.admin = store.admin
        /\ store'.phase = "COMMIT" /\ store'.round = store.round + 1
        /\ store'.commitments = store.commitments /\ store'.secrets = store.secrets
        /\ store'.seed = store.seed /\ history' = history
        /\ store.round < MaxRounds /\ store.phase # "none"
    BY <1>4 DEF Random!StartRound, RandomSafe, DrawFields
  <2>2. PICK n \in Nat : n = store.round /\ n + 1 \in 0 .. MaxRounds
    BY <2>1, DrawAssumption DEF RandomSafe
  <2>3. \A r \in Random!Rounds : /\ r \in Nat
                                 /\ r > n + 1 => r > n
                                 /\ r >= n + 1 => r > n /\ r >= n
    BY DrawAssumption DEF Random!Rounds
  <2>4. store'.admin = Nobody => FALSE
    BY <2>1 DEF RandomSafe
  <2>5. \A r \in Random!Rounds :
          /\ r > n + 1 => store.commitments[r] = {}
          /\ r >= n + 1 => history[r] = {} /\ store.secrets[r] = {}
    BY <2>2, <2>3 DEF RandomSafe
  <2> QED BY <1>a, <2>1, <2>2, <2>4, <2>5 DEF RandomSafe
<1>5. CASE Random!StartRevealPhase
  <2>1. /\ DOMAIN store' = DrawFields /\ store'.admin = store.admin
        /\ store'.phase = "REVEAL" /\ store'.round = store.round
        /\ store'.commitments = store.commitments /\ store'.secrets = store.secrets
        /\ store'.seed = store.seed /\ history' = history /\ store.phase = "COMMIT"
    BY <1>5 DEF Random!StartRevealPhase, RandomSafe, DrawFields
  <2> QED BY <1>a, <2>1 DEF RandomSafe
<1>6. ASSUME NEW participants \in SUBSET Addresses, Random!ComputeRandomSeed(participants)
      PROVE  RandomSafe'
  <2>1. PICK r \in Random!Rounds :
        /\ r = store.round /\ DOMAIN store' = DrawFields /\ store'.admin = store.admin
        /\ store'.phase = "COMPLETED" /\ store'.round = store.round
        /\ store'.commitments = store.commitments /\ store'.secrets = store.secrets
        /\ store'.seed = [store.seed EXCEPT ![r] = participants] /\ history' = history
        /\ store.phase = "REVEAL" /\ participants \subseteq store.secrets[r]
    <3>1. store.round \in Random!Rounds
      BY <1>6, DrawAssumption DEF Random!ComputeRandomSeed, RandomSafe, Random!Rounds
    <3> QED BY <1>6, <3>1 DEF Random!ComputeRandomSeed, RandomSafe, DrawFields
  <2>2. store'.seed \in [Random!Rounds -> (SUBSET Addresses) \cup {Nobody}]
    BY <2>1 DEF RandomSafe
  <2>3. participants \subseteq store.commitments[r] /\ history[r] = {}
    <3>1. r >= store.round
      BY <2>1, DrawAssumption DEF Random!Rounds
    <3> QED BY <2>1, <3>1 DEF RandomSafe
  <2>4. \A s \in Random!Rounds : store'.seed[s] # Nobody =>
            /\ store'.seed[s] \subseteq store.commitments[s]
            /\ store'.seed[s] \cap history[s] = {}
    <3> TAKE s \in Random!Rounds
    <3>1. store'.seed[s] = IF s = r THEN participants ELSE store.seed[s]
      BY <2>1 DEF RandomSafe
    <3> QED BY <2>3, <3>1 DEF RandomSafe
  <2> QED BY <1>a, <2>1, <2>2, <2>4 DEF RandomSafe
<1>7. CASE Random!TimePasses
  BY <1>7 DEF Random!TimePasses, RandomSafe
<1> QED BY <1>1, <1>2, <1>3, <1>4, <1>5, <1>6, <1>7 DEF Random!Next

------------------------------------------------------------------------------
(* The medians *)

Under(h, p) == {j \in DOMAIN h : h[j] < p}
UpTo(h, p) == {j \in DOMAIN h : h[j] <= p}

LEMMA RankIs ==
    \A h, i, p : Medianizer!HasRank(h, i, p) <=> /\ Cardinality(Under(h, p)) < i
                                                /\ Cardinality(UpTo(h, p)) >= i
<1>1. \A S : Medianizer!Cardinality(S) = Cardinality(S)
  BY DEF Medianizer!Cardinality, Cardinality
<1> QED BY <1>1 DEF Medianizer!HasRank, Under, UpTo

LEMMA Ranks ==
    ASSUME NEW n \in Nat, NEW h \in [1 .. n -> Nat]
    PROVE  /\ IsFiniteSet(1 .. n) /\ Cardinality(1 .. n) = n
           /\ \A p \in Nat : /\ Cardinality(Under(h, p)) \in Nat
                             /\ Cardinality(UpTo(h, p)) \in Nat
                             /\ IsFiniteSet(Under(h, p)) /\ IsFiniteSet(UpTo(h, p))
<1>1. IsFiniteSet(1 .. n) /\ Cardinality(1 .. n) = n
  BY FS_Interval
<1>2. ASSUME NEW p \in Nat
      PROVE  /\ Cardinality(Under(h, p)) \in Nat /\ Cardinality(UpTo(h, p)) \in Nat
             /\ IsFiniteSet(Under(h, p)) /\ IsFiniteSet(UpTo(h, p))
  <2>1. Under(h, p) \in SUBSET (1 .. n) /\ UpTo(h, p) \in SUBSET (1 .. n)
    BY DEF Under, UpTo
  <2>2. IsFiniteSet(Under(h, p)) /\ IsFiniteSet(UpTo(h, p))
    BY <1>1, <2>1, FS_Subset
  <2> QED BY <2>2, FS_CardinalityType
<1> QED BY <1>1, <1>2

LEMMA PricesAreBounded ==
    ASSUME NEW n \in Nat, NEW h \in [1 .. n -> Nat]
    PROVE  \E b \in Nat : \A j \in 1 .. n : h[j] <= b
<1> DEFINE Bad == {k \in 0 .. n : ~\E b \in Nat : \A j \in 1 .. k : h[j] <= b}
<1>1. SUFFICES ASSUME Bad # {} PROVE FALSE
  <2>1. n \in 0 .. n
    OBVIOUS
  <2> QED BY <2>1
<1>2. PICK k \in Bad : \A m \in Bad : k <= m
  <2>1. Bad \in SUBSET Nat
    OBVIOUS
  <2> HIDE DEF Bad
  <2> QED BY <1>1, <2>1, LeastNumber
<1>3. k # 0
  <2>1. \A j \in 1 .. 0 : h[j] <= 0
    OBVIOUS
  <2> QED BY <1>2, <2>1
<1>4. PICK m \in 0 .. n : k = m + 1
  <2>1. k - 1 \in 0 .. n /\ k = (k - 1) + 1
    BY <1>2, <1>3
  <2> QED BY <2>1
<1>5. PICK b \in Nat : \A j \in 1 .. m : h[j] <= b
  <2>1. m < k
    BY <1>4
  <2>2. m \notin Bad
    <3>1. k \in Nat /\ m \in Nat /\ ~(k <= m)
      BY <1>2, <2>1
    <3> HIDE DEF Bad
    <3> QED BY <1>2, <3>1
  <2> QED BY <2>2
<1>6. k \in 1 .. n /\ h[k] \in Nat
  BY <1>2, <1>4
<1>7. PICK c \in Nat : c >= b /\ c >= h[k]
  <2>1. CASE b >= h[k]
    <3>1. b >= b
      OBVIOUS
    <3> QED BY <2>1, <3>1
  <2>2. CASE h[k] > b
    <3>1. h[k] >= b /\ h[k] >= h[k]
      BY <1>6, <2>2
    <3> QED BY <1>6, <3>1
  <2> QED BY <1>6, <2>1, <2>2
<1>8. \A j \in 1 .. k : h[j] <= c
  <2> TAKE j \in 1 .. k
  <2>1. CASE j = k
    BY <1>7, <2>1
  <2>2. CASE j # k
    <3>1. j \in 1 .. m /\ h[j] \in Nat
      BY <1>4, <1>6, <2>2
    <3> QED BY <1>5, <1>7, <3>1
  <2> QED BY <2>1, <2>2
<1> QED BY <1>2, <1>8

\* Each rank has a price.
LEMMA RankExists ==
    ASSUME NEW n \in Nat, NEW h \in [1 .. n -> Nat], NEW i \in 1 .. n
    PROVE  \E j \in 1 .. n : Medianizer!HasRank(h, i, h[j])
<1> DEFINE Enough == {p \in Nat : Cardinality(UpTo(h, p)) >= i}
<1>1. Enough # {}
  <2>1. PICK b \in Nat : \A j \in 1 .. n : h[j] <= b
    BY PricesAreBounded
  <2>2. UpTo(h, b) = 1 .. n
    BY <2>1 DEF UpTo
  <2>3. Cardinality(UpTo(h, b)) >= i
    BY <2>2, Ranks
  <2> QED BY <2>3
<1>2. PICK p \in Enough : \A q \in Enough : p <= q
  <2>1. Enough \in SUBSET Nat
    OBVIOUS
  <2> HIDE DEF Enough
  <2> QED BY <1>1, <2>1, LeastNumber
<1>3. p \in Nat /\ Cardinality(UpTo(h, p)) >= i /\ i \in Nat /\ i > 0
  BY <1>2
<1>4. Cardinality(Under(h, p)) < i
  <2>1. CASE p = 0
    <3>1. Under(h, p) = {}
      BY <2>1 DEF Under
    <3> QED BY <1>3, <3>1, FS_EmptySet
  <2>2. CASE p # 0
    <3>1. PICK q \in Nat : p = q + 1
      <4>1. p - 1 \in Nat /\ p = (p - 1) + 1
        BY <1>3, <2>2
      <4> QED BY <4>1
    <3>2. Under(h, p) = UpTo(h, q)
      <4>1. \A j \in 1 .. n : h[j] < p <=> h[j] <= q
        BY <3>1
      <4> QED BY <4>1 DEF Under, UpTo
    <3>3. q \notin Enough
      BY <1>2, <3>1
    <3>4. Cardinality(UpTo(h, q)) \in Nat /\ ~(Cardinality(UpTo(h, q)) >= i)
      BY <3>3, Ranks
    <3> QED BY <1>3, <3>2, <3>4
  <2> QED BY <2>1, <2>2
<1>5. \E j \in 1 .. n : h[j] = p
  <2>1. SUFFICES ASSUME \A j \in 1 .. n : h[j] # p PROVE FALSE
    OBVIOUS
  <2>2. Under(h, p) = UpTo(h, p)
    <3>1. \A j \in 1 .. n : h[j] < p <=> h[j] <= p
      BY <1>3, <2>1
    <3> QED BY <3>1 DEF Under, UpTo
  <2>3. Cardinality(UpTo(h, p)) \in Nat
    BY <1>3, Ranks
  <2> QED BY <1>3, <1>4, <2>2, <2>3
<1> QED BY <1>3, <1>4, <1>5, RankIs

LEMMA RanksAreOrdered ==
    ASSUME NEW n \in Nat, NEW h \in [1 .. n -> Nat], NEW i \in Nat, NEW k \in Nat, i <= k,
           NEW x \in Nat, NEW y \in Nat,
           Medianizer!HasRank(h, i, x), Medianizer!HasRank(h, k, y)
    PROVE  x <= y
<1>1. SUFFICES ASSUME y < x PROVE FALSE
  OBVIOUS
<1>2. /\ Cardinality(Under(h, x)) \in Nat /\ IsFiniteSet(Under(h, x))
      /\ Cardinality(UpTo(h, y)) \in Nat
  BY Ranks
<1>3. UpTo(h, y) \in SUBSET Under(h, x)
  <2>1. \A j \in 1 .. n : h[j] <= y => h[j] < x
    BY <1>1
  <2> QED BY <2>1 DEF UpTo, Under
<1>4. Cardinality(UpTo(h, y)) <= Cardinality(Under(h, x))
  BY <1>2, <1>3, FS_Subset
<1>5. Cardinality(Under(h, x)) < i /\ Cardinality(UpTo(h, y)) >= k
  BY RankIs
<1> QED BY <1>2, <1>4, <1>5

\* The median is the middle between the two middle ranks, which are one for an odd number.
MiddleOf(h, n, m) ==
    \E x, y \in Nat : /\ Medianizer!HasRank(h, (n + 1) \div 2, x)
                      /\ Medianizer!HasRank(h, n \div 2 + 1, y)
                      /\ m = (x + y) \div 2

LEMMA MostAreAround ==
    ASSUME NEW n \in Nat \ {0}, NEW h \in [1 .. n -> Nat], NEW m, MiddleOf(h, n, m),
           NEW low \in Nat, NEW high \in Nat,
           2 * Cardinality({i \in 1 .. n : low <= h[i] /\ h[i] <= high}) > n
    PROVE  low <= m /\ m <= high
<1> DEFINE within == {i \in 1 .. n : low <= h[i] /\ h[i] <= high}
<1>1. PICK x \in Nat, y \in Nat : /\ Medianizer!HasRank(h, (n + 1) \div 2, x)
                                  /\ Medianizer!HasRank(h, n \div 2 + 1, y)
                                  /\ m = (x + y) \div 2
  BY DEF MiddleOf
<1>2. PICK a \in Nat, b \in Nat : /\ a = (n + 1) \div 2 /\ b = n \div 2 + 1 /\ a <= b
                                  /\ n <= 2 * a /\ 2 * (b - 1) <= n
  OBVIOUS
<1>3. x <= y
  BY <1>1, <1>2, RanksAreOrdered
<1>4. PICK c \in Nat : c = Cardinality(within) /\ 2 * c > n
  <2>1. within \in SUBSET (1 .. n)
    OBVIOUS
  <2>2. IsFiniteSet(within)
    BY <2>1, Ranks, FS_Subset
  <2> QED BY <2>2, FS_CardinalityType
<1>5. low <= x
  <2>1. SUFFICES ASSUME x < low PROVE FALSE
    OBVIOUS
  <2>2. PICK d \in Nat : d = Cardinality(UpTo(h, x)) /\ d >= a
    <3>1. Cardinality(UpTo(h, x)) \in Nat /\ Cardinality(UpTo(h, x)) >= (n + 1) \div 2
      BY <1>1, Ranks, RankIs
    <3> QED BY <1>2, <3>1
  <2>3. within \in SUBSET ((1 .. n) \ UpTo(h, x))
    <3>1. \A j \in 1 .. n : low <= h[j] => ~(h[j] <= x)
      BY <2>1
    <3> QED BY <3>1 DEF UpTo
  <2>4. /\ IsFiniteSet((1 .. n) \ UpTo(h, x))
        /\ Cardinality((1 .. n) \ UpTo(h, x)) = n - d
    <3>1. (1 .. n) \cap UpTo(h, x) = UpTo(h, x)
      BY DEF UpTo
    <3>2. /\ IsFiniteSet((1 .. n) \ UpTo(h, x))
          /\ Cardinality((1 .. n) \ UpTo(h, x))
                = Cardinality(1 .. n) - Cardinality((1 .. n) \cap UpTo(h, x))
      BY Ranks, FS_Difference
    <3>3. Cardinality(1 .. n) = n
      BY Ranks
    <3> QED BY <2>2, <3>1, <3>2, <3>3
  <2>5. c <= n - d
    BY <1>4, <2>3, <2>4, FS_Subset
  <2> QED BY <1>2, <1>4, <2>2, <2>5
<1>6. y <= high
  <2>1. SUFFICES ASSUME high < y PROVE FALSE
    OBVIOUS
  <2>2. PICK d \in Nat : d = Cardinality(Under(h, y)) /\ d < b
    <3>1. Cardinality(Under(h, y)) \in Nat /\ Cardinality(Under(h, y)) < n \div 2 + 1
      BY <1>1, Ranks, RankIs
    <3> QED BY <1>2, <3>1
  <2>3. within \in SUBSET Under(h, y)
    <3>1. \A j \in 1 .. n : h[j] <= high => h[j] < y
      BY <2>1
    <3> QED BY <3>1 DEF Under
  <2>4. c <= d
    BY <1>4, <2>2, <2>3, Ranks, FS_Subset
  <2> QED BY <1>2, <1>4, <2>2, <2>4
<1> QED BY <1>1, <1>3, <1>5, <1>6

\* calculate_median on the prices in their order, with and without the outliers.
LEMMA MedianIsMiddle ==
    ASSUME NEW n \in Nat \ {0}, NEW h, h \in Seq(OraclePrices), Len(h) = n
    PROVE  /\ h \in [1 .. n -> Nat] /\ Medianizer!Median(h) \in Nat
           /\ MiddleOf(h, n, Medianizer!Median(h))
<1>1. h \in [1 .. n -> Nat] /\ h \in [1 .. n -> OraclePrices]
  <2>1. h \in [1 .. n -> OraclePrices]
    OBVIOUS
  <2> QED BY <2>1, OracleAssumption
<1> DEFINE s == Medianizer!Sorted(h)
<1>2. \A i \in 1 .. n : s[i] \in Nat /\ Medianizer!HasRank(h, i, s[i])
  <2> TAKE i \in 1 .. n
  <2>1. \E p \in OraclePrices : Medianizer!HasRank(h, i, p)
    <3>1. PICK j \in 1 .. n : Medianizer!HasRank(h, i, h[j])
      BY <1>1, RankExists
    <3>2. h[j] \in OraclePrices
      BY <1>1
    <3> QED BY <3>1, <3>2
  <2>2. s[i] = CHOOSE p \in OraclePrices : Medianizer!HasRank(h, i, p)
    BY DEF Medianizer!Sorted
  <2> HIDE DEF s
  <2>3. s[i] \in OraclePrices /\ Medianizer!HasRank(h, i, s[i])
    BY <2>1, <2>2
  <2> QED BY <2>3, OracleAssumption
<1>3. s \in Seq(Nat) /\ Len(s) = n
  <2>1. s = [i \in 1 .. n |-> s[i]]
    BY DEF Medianizer!Sorted
  <2> HIDE DEF s
  <2>2. s \in [1 .. n -> Nat]
    BY <1>2, <2>1
  <2> QED BY <2>2
<1> HIDE DEF s
<1> DEFINE kept == IF Len(s) >= 5 THEN SubSeq(s, 2, Len(s) - 1) ELSE s
<1>4. PICK k \in Nat, d \in {0, 1} :
          /\ n = k + 2 * d /\ k > 0 /\ Len(kept) = k
          /\ \A i \in 1 .. k : kept[i] = s[i + d]
  <2>1. CASE n >= 5
    <3>1. kept = SubSeq(s, 2, n - 1)
      BY <1>3, <2>1
    <3>2. /\ Len(SubSeq(s, 2, n - 1)) = n - 2
          /\ \A i \in 1 .. n - 2 : SubSeq(s, 2, n - 1)[i] = s[i + 1]
      BY <1>3, <2>1
    <3>3. n - 2 \in Nat /\ n = (n - 2) + 2 * 1 /\ n - 2 > 0
      BY <2>1
    <3> HIDE DEF kept
    <3> QED BY <3>1, <3>2, <3>3
  <2>2. CASE n < 5
    <3>1. kept = s
      BY <1>3, <2>2
    <3>2. n = n + 2 * 0 /\ n > 0 /\ \A i \in 1 .. n : s[i] = s[i + 0]
      OBVIOUS
    <3> HIDE DEF kept
    <3> QED BY <1>3, <3>1, <3>2
  <2>3. n >= 5 \/ n < 5
    OBVIOUS
  <2> HIDE DEF kept
  <2> QED BY <2>1, <2>2, <2>3
<1>5. Medianizer!Median(h) = IF k % 2 = 0 THEN (kept[k \div 2] + kept[k \div 2 + 1]) \div 2
                             ELSE kept[k \div 2 + 1]
  BY <1>4 DEF Medianizer!Median, s
<1> HIDE DEF kept
<1>6. CASE k % 2 = 0
  <2>1. PICK a \in Nat \ {0} : k = 2 * a /\ a = k \div 2 /\ a \in 1 .. k /\ a + 1 \in 1 .. k
    <3>1. k = 2 * (k \div 2) + (k % 2) /\ k \div 2 \in Nat
      OBVIOUS
    <3>2. PICK a \in Nat : a = k \div 2 /\ k = 2 * a
      BY <1>6, <3>1
    <3>3. a # 0 /\ a \in 1 .. k /\ a + 1 \in 1 .. k
      BY <1>4, <3>2
    <3> QED BY <3>2, <3>3
  <2>2. /\ a + d \in 1 .. n /\ a + 1 + d \in 1 .. n
        /\ (n + 1) \div 2 = a + d /\ n \div 2 + 1 = a + 1 + d
    BY <1>4, <2>1
  <2>3. kept[a] = s[a + d] /\ kept[a + 1] = s[a + 1 + d]
    BY <1>4, <2>1
  <2>4. Medianizer!Median(h) = (s[a + d] + s[a + 1 + d]) \div 2
    BY <1>5, <1>6, <2>1, <2>3
  <2>5. /\ s[a + d] \in Nat /\ s[a + 1 + d] \in Nat
        /\ Medianizer!HasRank(h, (n + 1) \div 2, s[a + d])
        /\ Medianizer!HasRank(h, n \div 2 + 1, s[a + 1 + d])
    BY <1>2, <2>2
  <2>6. PICK x \in Nat, y \in Nat : x = s[a + d] /\ y = s[a + 1 + d]
    BY <2>5
  <2>7. (x + y) \div 2 \in Nat
    OBVIOUS
  <2> QED BY <1>1, <2>4, <2>5, <2>6, <2>7 DEF MiddleOf
<1>7. CASE k % 2 # 0
  <2>1. PICK a \in Nat : k = 2 * a + 1 /\ a = k \div 2 /\ a + 1 \in 1 .. k
    <3>1. k = 2 * (k \div 2) + (k % 2) /\ k \div 2 \in Nat /\ k % 2 \in {0, 1}
      OBVIOUS
    <3>2. PICK a \in Nat : a = k \div 2 /\ k = 2 * a + 1
      BY <1>7, <3>1
    <3>3. a + 1 \in 1 .. k
      BY <3>2
    <3> QED BY <3>2, <3>3
  <2>2. /\ a + 1 + d \in 1 .. n
        /\ (n + 1) \div 2 = a + 1 + d /\ n \div 2 + 1 = a + 1 + d
    BY SMTT(30), <1>4, <2>1
  <2>3. Medianizer!Median(h) = s[a + 1 + d]
    BY <1>4, <1>5, <1>7, <2>1
  <2>4. PICK x \in Nat : x = s[a + 1 + d] /\ Medianizer!HasRank(h, a + 1 + d, x)
    BY <1>2, <2>2
  <2>5. x = (x + x) \div 2
    OBVIOUS
  <2> QED BY <1>1, <2>2, <2>3, <2>4, <2>5 DEF MiddleOf
<1> QED BY <1>6, <1>7

\* The list is gone through from its first source on.
CollectRule(list, f) ==
    f = [i \in 0 .. Len(list) |->
            IF i = 0 THEN <<>>
            ELSE IF store.price[list[i]] = Medianizer!NoPrice THEN f[i - 1]
            ELSE Append(f[i - 1], store.price[list[i]])]
Collected(list) == CHOOSE f : CollectRule(list, f)
CollectsTo(list, n, f) ==
    /\ f \in [0 .. n -> Seq(OraclePrices)]
    /\ \A i \in 0 .. n : f[i] = IF i = 0 THEN <<>>
                                ELSE IF store.price[list[i]] = Medianizer!NoPrice THEN f[i - 1]
                                ELSE Append(f[i - 1], store.price[list[i]])

LEMMA CollectReaches ==
    ASSUME NEW list, list \in Seq(Addresses),
           store.price \in [Addresses -> OraclePrices \cup {Medianizer!NoPrice}]
    PROVE  \A n \in 0 .. Len(list) : \E f : CollectsTo(list, n, f)
<1> DEFINE Bad == {n \in 0 .. Len(list) : ~\E f : CollectsTo(list, n, f)}
<1>1. SUFFICES ASSUME Bad # {} PROVE FALSE
  OBVIOUS
<1>2. PICK n \in Bad : \A m \in Bad : n <= m
  <2>1. Bad \in SUBSET Nat
    OBVIOUS
  <2> HIDE DEF Bad
  <2> QED BY <1>1, <2>1, LeastNumber
<1>3. n # 0
  <2>1. CollectsTo(list, 0, [i \in 0 .. 0 |-> <<>>])
    BY DEF CollectsTo
  <2> QED BY <1>2, <2>1
<1>4. PICK m \in Nat : n = m + 1 /\ m \in 0 .. Len(list)
  <2>1. n - 1 \in Nat /\ n = (n - 1) + 1 /\ n - 1 \in 0 .. Len(list)
    BY <1>2, <1>3
  <2> QED BY <2>1
<1>5. PICK g : CollectsTo(list, m, g)
  <2>1. ~(n <= m)
    BY <1>4
  <2>2. m \notin Bad
    <3> HIDE DEF Bad
    <3> QED BY <1>2, <2>1
  <2> QED BY <1>4, <2>2
<1> DEFINE price == store.price[list[n]]
           last == IF price = Medianizer!NoPrice THEN g[m] ELSE Append(g[m], price)
           h == [i \in 0 .. n |-> IF i = n THEN last ELSE g[i]]
<1>6. last \in Seq(OraclePrices)
  <2>1. n \in 1 .. Len(list)
    BY <1>2, <1>3
  <2>2. list[n] \in Addresses
    BY <2>1
  <2>3. price \in OraclePrices \cup {Medianizer!NoPrice}
    BY <2>2
  <2>4. g[m] \in Seq(OraclePrices)
    BY <1>4, <1>5 DEF CollectsTo
  <2> HIDE DEF price
  <2> QED BY <2>3, <2>4
<1>7. h \in [0 .. n -> Seq(OraclePrices)]
  <2>1. \A i \in 0 .. n : i = n \/ i \in 0 .. m
    BY <1>4
  <2>2. g \in [0 .. m -> Seq(OraclePrices)]
    BY <1>5 DEF CollectsTo
  <2> HIDE DEF last
  <2> QED BY <1>6, <2>1, <2>2
<1>8. ASSUME NEW i \in 0 .. n
      PROVE  h[i] = IF i = 0 THEN <<>>
                    ELSE IF store.price[list[i]] = Medianizer!NoPrice THEN h[i - 1]
                    ELSE Append(h[i - 1], store.price[list[i]])
  <2>1. CASE i = n
    <3>1. h[n] = last /\ h[n - 1] = g[m] /\ n # 0
      <4> HIDE DEF last
      <4> QED BY <1>3, <1>4
    <3> HIDE DEF h
    <3> QED BY <2>1, <3>1
  <2>2. CASE i # n
    <3>1. i \in 0 .. m /\ h[i] = g[i]
      BY <1>4, <2>2
    <3>2. i # 0 => h[i - 1] = g[i - 1]
      BY <1>4, <3>1
    <3> HIDE DEF h
    <3> QED BY <1>5, <3>1, <3>2 DEF CollectsTo
  <2> QED BY <2>1, <2>2
<1> HIDE DEF h
<1>9. CollectsTo(list, n, h)
  BY <1>7, <1>8 DEF CollectsTo
<1> QED BY <1>2, <1>9

LEMMA PricesAreCollected ==
    ASSUME NEW list, list \in Seq(Addresses),
           store.price \in [Addresses -> OraclePrices \cup {Medianizer!NoPrice}]
    PROVE  Medianizer!PricesOf(list) \in Seq(OraclePrices)
<1>1. PICK l \in Nat : l = Len(list)
  OBVIOUS
<1>2. PICK g : CollectsTo(list, l, g)
  BY <1>1, CollectReaches
<1>3. CollectRule(list, g)
  BY <1>1, <1>2 DEF CollectsTo, CollectRule
<1>4. PICK f : f = Collected(list) /\ CollectRule(list, f)
  BY <1>3, Zenon DEF Collected
<1>5. Medianizer!PricesOf(list) = f[l]
  BY <1>1, <1>4 DEF Medianizer!PricesOf, Collected, CollectRule
<1> DEFINE Bad == {i \in 0 .. l : f[i] # g[i]}
<1>6. ASSUME Bad # {} PROVE FALSE
  <2>1. PICK i \in Bad : \A j \in Bad : i <= j
    <3>1. Bad \in SUBSET Nat
      OBVIOUS
    <3> HIDE DEF Bad
    <3> QED BY <1>6, <3>1, LeastNumber
  <2>2. i \in 0 .. l /\ f[i] # g[i]
    BY <2>1
  <2>3. i # 0
    BY <1>1, <1>2, <1>4, <2>2 DEF CollectRule, CollectsTo
  <2>4. PICK k \in 0 .. l : k = i - 1
    BY <2>2, <2>3
  <2>5. f[k] = g[k]
    <3>1. ~(i <= k)
      BY <2>2, <2>4
    <3>2. k \notin Bad
      <4> HIDE DEF Bad
      <4> QED BY <2>1, <3>1
    <3> QED BY <3>2
  <2> QED BY ZenonT(60), <1>1, <1>2, <1>4, <2>2, <2>3, <2>4, <2>5 DEF CollectRule, CollectsTo
<1>7. f[l] = g[l]
  BY <1>6
<1> QED BY <1>2, <1>5, <1>7 DEF CollectsTo

MedianFields ==
    {"admin", "sources", "count", "heartbeat", "threshold", "price", "median", "lastUpdate"}

\* What is published is the middle of what it was computed from.
MedianSafe ==
    /\ DOMAIN store = MedianFields /\ now \in Nat
    /\ store.admin \in Somebody /\ store.sources \subseteq Addresses /\ store.count \in Nat
    /\ store.heartbeat \in Nat \cup {Medianizer!Unset}
    /\ store.threshold \in Nat \cup {Medianizer!Unset}
    /\ store.price \in [Addresses -> OraclePrices \cup {Medianizer!NoPrice}]
    /\ store.median \in Nat /\ store.lastUpdate \in Nat
    /\ history \in Seq(OraclePrices)
    /\ history # <<>> => MiddleOf(history, Len(history), store.median)

LEMMA MediansTyped == MedianSafe => Medianizer!TypeOK
<1> SUFFICES ASSUME MedianSafe PROVE Medianizer!TypeOK
  OBVIOUS
<1>1. store.price \in [Addresses -> Nat]
  <2>1. OraclePrices \cup {Medianizer!NoPrice} \subseteq Nat
    BY OracleAssumption DEF Medianizer!NoPrice
  <2> QED BY <2>1 DEF MedianSafe
<1>2. history \in Seq(Nat)
  <2>1. PICK n \in Nat : n = Len(history) /\ history \in [1 .. n -> OraclePrices]
    BY DEF MedianSafe
  <2>2. history \in [1 .. n -> Nat]
    BY <2>1, OracleAssumption
  <2> QED BY <2>2
<1> QED BY <1>1, <1>2 DEF MedianSafe, Medianizer!TypeOK, Somebody, Medianizer!Somebody

LEMMA MediansRobust == MedianSafe => Medianizer!MedianIsRobust
<1> SUFFICES ASSUME MedianSafe, NEW low \in OraclePrices, NEW high \in OraclePrices,
                    2 * Medianizer!Cardinality({i \in DOMAIN history :
                            low <= history[i] /\ history[i] <= high}) > Len(history)
             PROVE  low <= store.median /\ store.median <= high
  BY DEF Medianizer!MedianIsRobust
<1>1. PICK n \in Nat : n = Len(history) /\ DOMAIN history = 1 .. n
  BY DEF MedianSafe
<1>2. 2 * Cardinality({i \in 1 .. n : low <= history[i] /\ history[i] <= high}) > n
  BY <1>1 DEF Medianizer!Cardinality, Cardinality
<1>3. n # 0
  <2>1. SUFFICES ASSUME n = 0 PROVE FALSE
    OBVIOUS
  <2>2. {i \in 1 .. n : low <= history[i] /\ history[i] <= high} = {}
    BY <2>1
  <2> QED BY <1>2, <2>1, <2>2, FS_EmptySet
<1>4. n \in Nat \ {0} /\ history \in [1 .. n -> Nat] /\ history # <<>>
  <2>1. history \in [1 .. n -> OraclePrices]
    BY <1>1 DEF MedianSafe
  <2>2. history # <<>>
    BY <1>1, <1>3
  <2> QED BY <1>3, <2>1, <2>2, OracleAssumption
<1>5. MiddleOf(history, n, store.median)
  BY <1>1, <1>4 DEF MedianSafe
<1>6. low \in Nat /\ high \in Nat
  BY OracleAssumption
<1> QED BY <1>2, <1>4, <1>5, <1>6, MostAreAround

LEMMA MedianInit == Medianizer!Init => MedianSafe
<1> SUFFICES ASSUME Medianizer!Init PROVE MedianSafe
  OBVIOUS
<1>1. /\ DOMAIN store = MedianFields /\ now = 0 /\ store.admin = Nobody /\ store.sources = {}
      /\ store.count = 0 /\ store.median = 0 /\ store.lastUpdate = 0
  BY DEF Medianizer!Init, MedianFields, Medianizer!Deployed, Medianizer!NoPrice
<1>2. /\ store.heartbeat = Medianizer!Unset /\ store.threshold = Medianizer!Unset
      /\ store.price = [a \in Addresses |-> Medianizer!NoPrice] /\ history = <<>>
  BY DEF Medianizer!Init
<1>3. store.price \in [Addresses -> OraclePrices \cup {Medianizer!NoPrice}]
  BY <1>2
<1>4. history \in Seq(OraclePrices)
  BY <1>2
<1> QED BY <1>1, <1>2, <1>3, <1>4 DEF MedianSafe, Somebody

LEMMA MedianIdle == MedianSafe /\ UNCHANGED contractVars => MedianSafe'
  BY DEF MedianSafe, contractVars

LEMMA MedianStep == MedianSafe /\ Medianizer!Next => MedianSafe'
<1> SUFFICES ASSUME MedianSafe, Medianizer!Next PROVE MedianSafe'
  OBVIOUS
<1>a. DOMAIN store = MedianFields
  BY DEF MedianSafe
<1>1. ASSUME NEW a \in Addresses,
             \/ Medianizer!Initialize(a) \/ Medianizer!AddOracleSource(a)
             \/ Medianizer!RemoveOracleSource(a)
      PROVE  MedianSafe'
  <2>1. /\ DOMAIN store' = MedianFields /\ now' = now /\ history' = history
        /\ store'.admin \in {store.admin, a}
        /\ store'.sources \subseteq store.sources \cup {a}
        /\ store'.count \in {store.count, store.count + 1}
              \cup (IF store.count > 0 THEN {store.count - 1} ELSE {})
        /\ store'.heartbeat = store.heartbeat /\ store'.threshold = store.threshold
        /\ store'.price = store.price /\ store'.median = store.median
        /\ store'.lastUpdate = store.lastUpdate
    BY <1>1, <1>a DEF Medianizer!Initialize, Medianizer!AddOracleSource,
       Medianizer!RemoveOracleSource, Medianizer!Call, MedianFields
  <2>2. store'.count \in Nat
    BY <2>1 DEF MedianSafe
  <2> QED BY <2>1, <2>2 DEF MedianSafe, Somebody
<1>2. ASSUME NEW a \in Addresses, NEW p \in OraclePrices, Medianizer!SubmitPrice(a, p)
      PROVE  MedianSafe'
  <2>1. /\ DOMAIN store' = MedianFields /\ now' = now /\ history' = history
        /\ store'.price = [store.price EXCEPT ![a] = p]
        /\ store'.admin = store.admin /\ store'.sources = store.sources
        /\ store'.count = store.count
        /\ store'.heartbeat = store.heartbeat /\ store'.threshold = store.threshold
        /\ store'.median = store.median /\ store'.lastUpdate = store.lastUpdate
    BY <1>2, <1>a DEF Medianizer!SubmitPrice, Medianizer!Call, MedianFields
  <2>2. store'.price \in [Addresses -> OraclePrices \cup {Medianizer!NoPrice}]
    BY <2>1 DEF MedianSafe
  <2> QED BY <2>1, <2>2 DEF MedianSafe
<1>3. ASSUME \/ \E n \in Heartbeats : Medianizer!Set("heartbeat", n)
             \/ \E n \in Deviations : Medianizer!Set("threshold", n)
      PROVE  MedianSafe'
  <2>1. PICK n \in Nat : Medianizer!Set("heartbeat", n) \/ Medianizer!Set("threshold", n)
    BY <1>3, OracleAssumption
  <2>2. /\ DOMAIN store' = MedianFields /\ now' = now /\ history' = history
        /\ store'.price = store.price
        /\ store'.admin = store.admin /\ store'.sources = store.sources
        /\ store'.count = store.count
        /\ store'.heartbeat \in {store.heartbeat, n}
        /\ store'.threshold \in {store.threshold, n}
        /\ store'.median = store.median /\ store'.lastUpdate = store.lastUpdate
    BY <1>a, <2>1 DEF Medianizer!Set, Medianizer!Call, MedianFields
  <2> QED BY <2>2 DEF MedianSafe
<1>4. ASSUME NEW list, list \in Seq(Addresses), Medianizer!CalculateMedian(list)
      PROVE  MedianSafe'
  <2> DEFINE prices == Medianizer!PricesOf(list)
             median == Medianizer!Median(prices)
  <2>1. /\ DOMAIN store' = MedianFields /\ now' = now /\ history' = prices
        /\ prices # <<>> /\ store'.median = median /\ store'.lastUpdate = now
        /\ store'.price = store.price
        /\ store'.admin = store.admin /\ store'.sources = store.sources
        /\ store'.count = store.count
        /\ store'.heartbeat = store.heartbeat /\ store'.threshold = store.threshold
    BY <1>4, <1>a DEF Medianizer!CalculateMedian, Medianizer!Call, MedianFields
  <2>2. prices \in Seq(OraclePrices)
    BY <1>4, PricesAreCollected DEF MedianSafe
  <2> HIDE DEF prices
  <2>3. PICK n \in Nat \ {0} : n = Len(prices)
    BY <2>1, <2>2
  <2>4. median \in Nat /\ MiddleOf(prices, n, median)
    BY <2>2, <2>3, MedianIsMiddle
  <2> HIDE DEF median
  <2>5. MiddleOf(history, Len(history), store.median)'
    <3>1. history' = prices /\ Len(history') = n /\ store'.median = median
      BY <2>1, <2>3
    <3>2. PICK x \in Nat, y \in Nat : /\ Medianizer!HasRank(prices, (n + 1) \div 2, x)
                                      /\ Medianizer!HasRank(prices, n \div 2 + 1, y)
                                      /\ median = (x + y) \div 2
      BY <2>4 DEF MiddleOf
    <3> QED BY <3>1, <3>2 DEF MiddleOf
  <2> QED BY <2>1, <2>2, <2>4, <2>5 DEF MedianSafe
<1>5. CASE Medianizer!TimePasses
  <2>1. now' = now + 1 /\ store' = store /\ history' = history
    BY <1>5 DEF Medianizer!TimePasses
  <2> QED BY <2>1 DEF MedianSafe
<1>6. ASSUME NEW a \in Addresses, NEW b \in Addresses, NEW c \in Addresses,
             NEW list \in {<<a, b>>, <<a, b, c>>, <<a, a, b, b, c>>},
             Medianizer!CalculateMedian(list)
      PROVE  MedianSafe'
  <2>1. list \in Seq(Addresses)
    <3>1. <<a, b>> \in Seq(Addresses)
      OBVIOUS
    <3>2. <<a, b, c>> \in Seq(Addresses)
      OBVIOUS
    <3>3. <<a, a, b, b, c>> \in Seq(Addresses)
      OBVIOUS
    <3> QED BY <3>1, <3>2, <3>3
  <2> QED BY <1>4, <1>6, <2>1
<1> QED BY <1>1, <1>2, <1>3, <1>5, <1>6 DEF Medianizer!Next

------------------------------------------------------------------------------
(* The prices over time *)

LEMMA NothingAddsUp ==
    ASSUME NEW S, IsFiniteSet(S), NEW F, \A x \in S : F[x] = 0
    PROVE  SumOver(F, S) = 0
<1>1. \A x \in S : F[x] \in Int
  OBVIOUS
<1>2. \A x \in S : F[x] = F[x] + (-1) * F[x]
  OBVIOUS
<1>3. SumOver(F, S) = SumOver(F, S) + (-1) * SumOver(F, S)
  BY <1>1, <1>2, SumOfLinear
<1>4. SumOver(F, S) \in Int
  BY <1>1, SumWithout
<1> QED BY <1>3, <1>4

\* The date of the price after the i-th, and how long the i-th is in force from b on and
\* before t.
After(dates, n, i, end) == IF i < n THEN dates[i + 1] ELSE end
Lasts(date, next, b, t) ==
    LET end == IF next < t THEN next ELSE t
        begin == IF date > b THEN date ELSE b
    IN  IF end > begin THEN end - begin ELSE 0

InOrder(n, dates) ==
    /\ dates \in [1 .. n -> Nat]
    /\ \A i, j \in 1 .. n : i <= j => dates[i] <= dates[j]
LastAt(n, dates, t, a) == a \in 1 .. n /\ dates[a] <= t /\ \A j \in 1 .. n : dates[j] <= t => j <= a

RisesAt(F, G, S, a, p) == \A x \in S : F[x] \in Int /\ G[x] = F[x] + (IF x = a THEN p ELSE 0)

LEMMA SumRisesBy ==
    ASSUME NEW S, IsFiniteSet(S), NEW a \in S, NEW p \in Int, NEW F, NEW G, RisesAt(F, G, S, a, p)
    PROVE  SumOver(G, S) = SumOver(F, S) + p
<1>0. \A x \in S : F[x] \in Int /\ G[x] = F[x] + (IF x = a THEN p ELSE 0)
  BY DEF RisesAt
<1>1. G[a] = F[a] + p /\ F[a] \in Int /\ G[a] \in Int
  BY <1>0
<1>2. \A x \in S \ {a} : G[x] = F[x]
  <2> TAKE x \in S \ {a}
  <2>1. G[x] = F[x] + 0 /\ F[x] \in Int
    BY <1>0
  <2> QED BY <2>1
<1>3. SumOver(G, S) = SumOver(F, S) + G[a] - F[a]
  BY <1>0, <1>1, <1>2, SumChanged
<1>4. SumOver(F, S) \in Int
  BY <1>0, SumWithout
<1> QED BY <1>1, <1>3, <1>4

LEMMA OneMoreSecond ==
    ASSUME NEW n \in Nat, NEW dates, InOrder(n, dates), NEW b \in Nat, NEW end \in Nat,
           NEW t \in Nat, b <= t, t < end, NEW a \in 1 .. n, LastAt(n, dates, t, a),
           NEW i \in 1 .. n
    PROVE  /\ Lasts(dates[i], After(dates, n, i, end), b, t) \in Nat
           /\ Lasts(dates[i], After(dates, n, i, end), b, t + 1) =
                 Lasts(dates[i], After(dates, n, i, end), b, t) + (IF i = a THEN 1 ELSE 0)
<1>0. dates[a] <= t /\ \A j \in 1 .. n : dates[j] <= t => j <= a
  BY DEF LastAt
<1>d. dates \in [1 .. n -> Nat]
  BY DEF InOrder
<1>1. PICK d \in Nat, next \in Nat : d = dates[i] /\ next = After(dates, n, i, end)
  <2>1. i < n => i + 1 \in 1 .. n
    OBVIOUS
  <2> QED BY <1>d, <2>1 DEF After
<1>2. CASE i = a
  <2>1. next > t
    <3>1. CASE i < n
      <4>1. i + 1 \in 1 .. n /\ ~(i + 1 <= a)
        BY <1>2, <3>1
      <4>2. ~(dates[i + 1] <= t) /\ dates[i + 1] \in Nat
        BY <1>0, <1>d, <4>1
      <4> QED BY <1>1, <3>1, <4>2 DEF After
    <3>2. CASE ~(i < n)
      BY <1>1, <3>2 DEF After
    <3> QED BY <3>1, <3>2
  <2>2. d <= t
    BY <1>0, <1>1, <1>2
  <2>3. PICK begin \in Nat : begin = (IF d > b THEN d ELSE b) /\ begin <= t
    BY <2>2
  <2>4. Lasts(d, next, b, t) = t - begin
    BY <2>1, <2>3 DEF Lasts
  <2>5. Lasts(d, next, b, t + 1) = t + 1 - begin
    BY <2>1, <2>3 DEF Lasts
  <2>6. t - begin \in Nat /\ t + 1 - begin = (t - begin) + 1
    BY <2>3
  <2> QED BY <1>1, <1>2, <2>4, <2>5, <2>6
<1>3. CASE i < a
  <2>1. next <= t
    <3>1. i < n /\ i + 1 \in 1 .. n /\ i + 1 <= a
      BY <1>3
    <3>2. dates[i + 1] <= dates[a]
      BY <3>1 DEF InOrder
    <3>3. dates[i + 1] \in Nat /\ dates[a] \in Nat
      BY <1>d, <3>1
    <3> QED BY <1>0, <1>1, <3>1, <3>2, <3>3 DEF After
  <2> QED BY <1>1, <1>3, <2>1 DEF Lasts
<1>4. CASE i > a
  <2>1. d > t
    <3>1. ~(dates[i] <= t)
      BY <1>0, <1>4
    <3> QED BY <1>1, <3>1
  <2> QED BY <1>1, <1>4, <2>1 DEF Lasts
<1> QED BY <1>2, <1>3, <1>4

\* A list of prices, each with its date.
Series(n, dates, prices) == InOrder(n, dates) /\ prices \in [1 .. n -> Nat]

\* What the prices have weighed by the second t.
Weighed(n, dates, prices, b, end, t) ==
    [i \in 1 .. n |-> prices[i] * Lasts(dates[i], After(dates, n, i, end), b, t)]

LEMMA WeighedRises ==
    ASSUME NEW n \in Nat, NEW dates, NEW prices, Series(n, dates, prices),
           NEW b \in Nat, NEW end \in Nat,
           NEW t \in Nat, b <= t, t < end, NEW a, LastAt(n, dates, t, a)
    PROVE  /\ SumOver(Weighed(n, dates, prices, b, end, t), 1 .. n) \in Int
           /\ SumOver(Weighed(n, dates, prices, b, end, t + 1), 1 .. n) =
                  SumOver(Weighed(n, dates, prices, b, end, t), 1 .. n) + prices[a]
<1>0. InOrder(n, dates) /\ prices \in [1 .. n -> Nat] /\ a \in 1 .. n
  BY DEF Series, LastAt
<1>1. PICK F : F = Weighed(n, dates, prices, b, end, t)
  OBVIOUS
<1>2. PICK G : G = Weighed(n, dates, prices, b, end, t + 1)
  OBVIOUS
<1>3. PICK p \in Nat : p = prices[a]
  BY <1>0
<1>4. \A i \in 1 .. n :
         /\ Lasts(dates[i], After(dates, n, i, end), b, t) \in Nat
         /\ Lasts(dates[i], After(dates, n, i, end), b, t + 1) =
               Lasts(dates[i], After(dates, n, i, end), b, t) + (IF i = a THEN 1 ELSE 0)
  BY <1>0, OneMoreSecond
<1>5. ASSUME NEW i \in 1 .. n PROVE F[i] \in Int /\ G[i] = F[i] + (IF i = a THEN p ELSE 0)
  <2>1. PICK q \in Nat, w \in Nat : /\ q = prices[i]
                                    /\ w = Lasts(dates[i], After(dates, n, i, end), b, t)
    BY <1>0, <1>4
  <2>2. F[i] = q * w
    BY <1>1, <2>1 DEF Weighed
  <2>3. Lasts(dates[i], After(dates, n, i, end), b, t + 1) = w + (IF i = a THEN 1 ELSE 0)
    BY <1>4, <2>1
  <2>4. G[i] = q * (w + (IF i = a THEN 1 ELSE 0))
    BY <1>2, <2>1, <2>3 DEF Weighed
  <2>5. q * (w + 1) = q * w + q /\ q * (w + 0) = q * w + 0 /\ q * w \in Int
    OBVIOUS
  <2> QED BY <1>3, <2>1, <2>2, <2>4, <2>5
<1>6. IsFiniteSet(1 .. n)
  BY FS_Interval
<1>7. SumOver(G, 1 .. n) = SumOver(F, 1 .. n) + p
  <2>1. RisesAt(F, G, 1 .. n, a, p)
    BY <1>5 DEF RisesAt
  <2>2. PICK S : S = 1 .. n
    OBVIOUS
  <2>3. IsFiniteSet(S) /\ a \in S /\ RisesAt(F, G, S, a, p) /\ p \in Int
    BY <1>0, <1>6, <2>1, <2>2
  <2>4. SumOver(G, S) = SumOver(F, S) + p
    BY <2>3, SumRisesBy
  <2> QED BY <2>2, <2>4
<1>8. SumOver(F, 1 .. n) \in Int
  BY <1>5, <1>6, SumWithout
<1> QED BY <1>1, <1>2, <1>3, <1>7, <1>8

LEMMA NothingWeighed ==
    ASSUME NEW n \in Nat, NEW dates, NEW prices, Series(n, dates, prices),
           NEW b \in Nat, NEW end \in Nat
    PROVE  SumOver(Weighed(n, dates, prices, b, end, b), 1 .. n) = 0
<1>1. PICK F : F = Weighed(n, dates, prices, b, end, b)
  OBVIOUS
<1>2. \A i \in 1 .. n : F[i] = 0
  <2> TAKE i \in 1 .. n
  <2>1. PICK d \in Nat, next \in Nat, p \in Nat :
            d = dates[i] /\ next = After(dates, n, i, end) /\ p = prices[i]
    <3>1. i < n => i + 1 \in 1 .. n
      OBVIOUS
    <3> QED BY <3>1 DEF After, InOrder, Series
  <2>2. Lasts(d, next, b, b) = 0
    BY <2>1 DEF Lasts
  <2>3. F[i] = p * 0
    BY <1>1, <2>1, <2>2 DEF Weighed
  <2> QED BY <2>3
<1>3. IsFiniteSet(1 .. n)
  BY FS_Interval
<1>4. SumOver(F, 1 .. n) = 0
  BY <1>2, <1>3, NothingAddsUp
<1> QED BY <1>1, <1>4

\* In each second the price of the last date is in force.
InForceAt(n, dates, prices, b, end, at, force) ==
    \A t \in b .. end - 1 : LastAt(n, dates, t, at[t]) /\ force[t] = prices[at[t]]

\* Second by second: every price weighed by the time it was in force gives the sum of the
\* prices in force.
LEMMA LastingAddsUp ==
    ASSUME NEW n \in Nat, NEW dates, NEW prices, Series(n, dates, prices),
           NEW b \in Nat, NEW end \in Nat, b <= end,
           NEW at, NEW force, InForceAt(n, dates, prices, b, end, at, force)
    PROVE  SumOver(Weighed(n, dates, prices, b, end, end), 1 .. n) = SumOver(force, b .. end - 1)
<1> DEFINE Total(t) == SumOver(Weighed(n, dates, prices, b, end, t), 1 .. n)
           Bad == {t \in b .. end : Total(t) # SumOver(force, b .. t - 1)}
<1> HIDE DEF Total
<1>1. SUFFICES ASSUME Bad # {} PROVE FALSE
  <2>1. end \in b .. end
    OBVIOUS
  <2>2. Total(end) = SumOver(force, b .. end - 1)
    BY <2>1
  <2> QED BY <2>2 DEF Total
<1>2. PICK t \in Nat : /\ t \in b .. end /\ Total(t) # SumOver(force, b .. t - 1)
                       /\ \A u \in Nat : u \in Bad => t <= u
  <2>1. Bad \in SUBSET Nat
    OBVIOUS
  <2>2. PICK t \in Bad : \A u \in Bad : t <= u
    <3> HIDE DEF Bad
    <3> QED BY <1>1, <2>1, LeastNumber
  <2> QED BY <2>1, <2>2
<1>3. t # b
  <2>1. Total(b) = 0
    BY NothingWeighed DEF Total
  <2>2. SumOver(force, b .. b - 1) = 0
    <3>1. b .. b - 1 = {}
      OBVIOUS
    <3> QED BY <3>1, SumOfNone
  <2> QED BY <1>2, <2>1, <2>2
<1>4. PICK u \in Nat : t = u + 1 /\ u \in b .. end - 1 /\ t - 1 = u
  <2>1. t - 1 \in Nat /\ t = (t - 1) + 1 /\ t - 1 \in b .. end - 1
    BY <1>2, <1>3
  <2> QED BY <2>1
<1>5. Total(u) = SumOver(force, b .. u - 1)
  <2>1. u \in b .. end /\ ~(t <= u)
    BY <1>4
  <2>2. u \notin Bad
    <3> HIDE DEF Bad
    <3> QED BY <1>2, <2>1
  <2> QED BY <2>1, <2>2
<1> HIDE DEF Bad
<1>6. PICK a \in 1 .. n : LastAt(n, dates, u, a) /\ force[u] = prices[a]
  BY <1>4 DEF LastAt, InForceAt
<1>7. b <= u /\ u < end
  BY <1>4
<1>8. Total(u) \in Int /\ Total(u + 1) = Total(u) + prices[a]
  <2>1. /\ SumOver(Weighed(n, dates, prices, b, end, u), 1 .. n) \in Int
        /\ SumOver(Weighed(n, dates, prices, b, end, u + 1), 1 .. n) =
               SumOver(Weighed(n, dates, prices, b, end, u), 1 .. n) + prices[a]
    BY <1>6, <1>7, WeighedRises
  <2> QED BY <2>1 DEF Total
<1>9. SumOver(force, b .. u) = force[u] + SumOver(force, b .. u - 1)
  <2>1. \A x \in b .. u : force[x] \in Int
    <3> TAKE x \in b .. u
    <3>1. x \in b .. end - 1
      BY <1>4
    <3>2. force[x] = prices[at[x]] /\ at[x] \in 1 .. n
      BY <3>1 DEF LastAt, InForceAt
    <3> QED BY <3>2 DEF Series
  <2>2. u \in b .. u /\ (b .. u) \ {u} = b .. u - 1 /\ IsFiniteSet(b .. u)
    <3>1. u \in b .. u
      BY <1>7
    <3>2. \A x : x \in (b .. u) \ {u} <=> x \in b .. u - 1
      OBVIOUS
    <3>3. b \in Int /\ u \in Int
      OBVIOUS
    <3>4. IsFiniteSet(b .. u)
      BY <3>3, FS_Interval
    <3> QED BY <3>1, <3>2, <3>4
  <2>3. SumOver(force, b .. u) = force[u] + SumOver(force, (b .. u) \ {u})
    BY <2>1, <2>2, SumWithout
  <2> QED BY <2>2, <2>3
<1>10. prices[a] \in Int
  BY DEF Series
<1> QED BY <1>2, <1>4, <1>5, <1>6, <1>8, <1>9, <1>10

------------------------------------------------------------------------------
(* The feed *)

FeedFields == {"admin", "secondary", "record", "prices", "observations", "window",
               "maxStaleness"}
Observation == [ledger : Nat, price : RecordedPrices]

\* The record is the last price, and while the oracles' dates do not go back the list is
\* in the order of its dates.
FeedSafe ==
    /\ DOMAIN store = FeedFields /\ now \in Nat /\ history \in BOOLEAN
    /\ store.admin \in Somebody /\ store.secondary \in BOOLEAN
    /\ store.prices \in Seq(Consumer!PriceData) /\ Len(store.prices) <= MaxObservations
    /\ store.observations \in Seq(Observation) /\ Len(store.observations) <= MaxObservations
    /\ store.window \in Nat /\ store.maxStaleness \in Nat
    /\ store.record \in Consumer!PriceData \cup {Consumer!NoRecord}
    /\ store.prices # <<>> => store.record = store.prices[Len(store.prices)]
    /\ history => \A i, j \in 1 .. Len(store.prices) :
                      i <= j => store.prices[i].timestamp <= store.prices[j].timestamp

LEMMA FeedTyped == FeedSafe => Consumer!TypeOK
  BY DEF FeedSafe, Consumer!TypeOK, Somebody, Consumer!Somebody, Observation

LEMMA FeedInit == Consumer!Init => FeedSafe
<1> SUFFICES ASSUME Consumer!Init PROVE FeedSafe
  OBVIOUS
<1>1. /\ DOMAIN store = FeedFields /\ now = 0 /\ history = TRUE
      /\ store.admin = Nobody /\ store.secondary = FALSE
      /\ store.record = Consumer!NoRecord /\ store.prices = <<>> /\ store.observations = <<>>
      /\ store.window = TwapWindow /\ store.maxStaleness = Staleness
  BY DEF Consumer!Init, Consumer!Deployed, FeedFields
<1>2. /\ Len(store.prices) = 0 /\ Len(store.observations) = 0
      /\ store.prices \in Seq(Consumer!PriceData) /\ store.observations \in Seq(Observation)
  BY <1>1
<1>3. \A i, j \in 1 .. Len(store.prices) :
         i <= j => store.prices[i].timestamp <= store.prices[j].timestamp
  BY <1>2
<1>4. /\ 0 <= MaxObservations /\ TwapWindow \in Nat /\ Staleness \in Nat
      /\ now \in Nat /\ Nobody \in Somebody
  BY <1>1, FeedAssumption DEF Somebody
<1>5. store.prices # <<>> => store.record = store.prices[Len(store.prices)]
  BY <1>1
<1>6. /\ Len(store.prices) <= MaxObservations /\ Len(store.observations) <= MaxObservations
  BY <1>2, <1>4
<1> QED BY <1>1, <1>2, <1>3, <1>4, <1>5, <1>6 DEF FeedSafe

LEMMA FeedIdle == FeedSafe /\ UNCHANGED contractVars => FeedSafe'
  BY DEF FeedSafe, contractVars

\* A list keeps its last elements, the new one among them.
IsKept(new, list, e, d, n) ==
    /\ d \in {0, 1} /\ n \in Nat \ {0}
    /\ n = Len(new) /\ n <= MaxObservations /\ n + d = Len(list) + 1
    /\ new[n] = e
    /\ \A i \in 1 .. n - 1 : new[i] = list[i + d] /\ i + d \in 1 .. Len(list)

LEMMA ListKept ==
    ASSUME NEW S, NEW list, list \in Seq(S), Len(list) <= MaxObservations, NEW e \in S
    PROVE  /\ Consumer!Kept(Append(list, e)) \in Seq(S)
           /\ \E d, n : IsKept(Consumer!Kept(Append(list, e)), list, e, d, n)
<1>1. PICK m \in Nat : m = Len(list)
  OBVIOUS
<1>b. PICK long : long = Append(list, e)
  OBVIOUS
<1>2. /\ long = Append(list, e) /\ long \in Seq(S) /\ Len(long) = m + 1
      /\ long[m + 1] = e /\ \A i \in 1 .. m : long[i] = list[i]
  <2>1. long \in Seq(S) /\ Len(long) = m + 1
    BY <1>1, <1>b
  <2>2. long[m + 1] = e
    BY <1>1, <1>b
  <2>3. ASSUME NEW i \in 1 .. m PROVE long[i] = list[i]
    BY <1>1, <1>b
  <2> QED BY <1>b, <2>1, <2>2, <2>3
<1>3. PICK d \in {0, 1} : d = (IF m + 1 > MaxObservations THEN 1 ELSE 0)
  OBVIOUS
<1>4. PICK n \in Nat \ {0} : n + d = m + 1 /\ n <= MaxObservations
  <2>1. MaxObservations \in Nat \ {0}
    BY FeedAssumption
  <2>2. m + 1 - d \in Nat \ {0} /\ m + 1 - d <= MaxObservations
    BY <1>1, <1>3, <2>1
  <2> QED BY <2>2
<1>5. PICK new : new = SubSeq(long, 1 + d, m + 1)
  OBVIOUS
<1>6. new = Consumer!Kept(Append(list, e))
  <2>1. CASE m + 1 > MaxObservations
    <3>1. d = 1 /\ 1 + d = 2
      BY <1>3, <2>1
    <3> QED BY <1>2, <1>5, <2>1, <3>1 DEF Consumer!Kept
  <2>2. CASE ~(m + 1 > MaxObservations)
    <3>1. d = 0 /\ 1 + d = 1
      BY <1>3, <2>2
    <3> QED BY <1>2, <1>5, <2>2, <3>1 DEF Consumer!Kept
  <2> QED BY <2>1, <2>2
<1>7. new \in Seq(S) /\ Len(new) = n /\ \A i \in 1 .. n : new[i] = long[i + d]
  <2>1. CASE d = 0
    <3>1. new = SubSeq(long, 1, m + 1) /\ n = m + 1
      BY <1>4, <1>5, <2>1
    <3> QED BY <1>2, <2>1, <3>1
  <2>2. CASE d = 1
    <3>1. new = SubSeq(long, 2, m + 1) /\ n = m
      BY <1>4, <1>5, <2>2
    <3> QED BY <1>2, <1>4, <2>2, <3>1
  <2> QED BY <2>1, <2>2
<1>8. new[n] = e
  BY <1>2, <1>4, <1>7
<1>9. ASSUME NEW i \in 1 .. n - 1
      PROVE  new[i] = list[i + d] /\ i + d \in 1 .. m
  <2>1. i \in 1 .. n /\ i + d \in 1 .. m
    BY <1>4
  <2> QED BY <1>2, <1>7, <2>1
<1>10. IsKept(new, list, e, d, n)
  BY <1>1, <1>4, <1>7, <1>8, <1>9 DEF IsKept
<1> QED BY <1>6, <1>7, <1>10

LEMMA PriceTaken ==
    ASSUME FeedSafe,
           NEW p \in [price : FeedPrices, timestamp : 0 .. now],
           NEW s \in [price : FeedPrices, timestamp : 0 .. now],
           Consumer!UpdatePrice(p, s)
    PROVE  FeedSafe'
<1>1. PICK e \in Consumer!PriceData :
        /\ DOMAIN store' = FeedFields /\ now' = now
        /\ store'.prices = Consumer!Kept(Append(store.prices, e))
        /\ store'.record = e
        /\ store'.admin = store.admin /\ store'.secondary = store.secondary
        /\ store'.observations = store.observations
        /\ store'.window = store.window /\ store'.maxStaleness = store.maxStaleness
        /\ history' = (history /\ e.timestamp >= store.record.timestamp)
  <2>1. p \in Consumer!PriceData /\ s \in Consumer!PriceData
    BY DEF FeedSafe, Consumer!PriceData
  <2>2. PICK e : /\ e = (IF ~Consumer!NotStale(p.timestamp, store.maxStaleness) THEN s ELSE p)
                 /\ Consumer!StoreObservation(e) /\ now' = now
                 /\ history' = (history /\ e.timestamp >= store.record.timestamp)
    BY DEF Consumer!UpdatePrice, Consumer!Call
  <2>3. e \in Consumer!PriceData
    BY <2>1, <2>2
  <2> QED BY <2>2, <2>3 DEF Consumer!StoreObservation, FeedSafe, FeedFields
<1>2. PICK list : /\ list \in Seq(Consumer!PriceData) /\ list = store.prices
                  /\ Len(list) <= MaxObservations
  BY DEF FeedSafe
<1>b. PICK new : new = Consumer!Kept(Append(list, e))
  OBVIOUS
<1>c. new \in Seq(Consumer!PriceData) /\ \E d, n : IsKept(new, list, e, d, n)
  BY <1>2, <1>b, ListKept
<1>3. PICK d \in {0, 1}, n \in Nat \ {0} :
        /\ n = Len(new) /\ n <= MaxObservations /\ n + d = Len(list) + 1
        /\ new[n] = e
        /\ \A i \in 1 .. n - 1 : new[i] = list[i + d] /\ i + d \in 1 .. Len(list)
  BY <1>c DEF IsKept
<1>4. store'.prices = new /\ new # <<>>
  BY <1>1, <1>2, <1>3, <1>b, <1>c
<1>5. ASSUME history', NEW i \in 1 .. n, NEW j \in 1 .. n, i <= j
      PROVE  new[i].timestamp <= new[j].timestamp
  <2>0. new[j] \in Consumer!PriceData
    BY <1>3, <1>c
  <2>1. new[j].timestamp \in Nat
    BY <2>0 DEF Consumer!PriceData
  <2>2. CASE i = j
    BY <2>1, <2>2
  <2>3. CASE i # j
    <3>1. i \in 1 .. n - 1
      BY <1>5, <2>3
    <3>2. new[i] = list[i + d] /\ i + d \in 1 .. Len(list)
      BY <1>3, <3>1
    <3>3. history /\ e.timestamp >= store.record.timestamp
      BY <1>1, <1>5
    <3>4. CASE j \in 1 .. n - 1
      <4>1. new[j] = list[j + d] /\ j + d \in 1 .. Len(list) /\ i + d <= j + d
        BY <1>3, <1>5, <3>4
      <4> QED BY <1>2, <3>2, <3>3, <4>1 DEF FeedSafe
    <3>5. CASE j = n
      <4>1. PICK m \in Nat : m = Len(list) /\ m \in 1 .. m /\ i + d <= m /\ i + d \in 1 .. m
        BY <3>2
      <4>2. list[m] = store.record
        BY <1>2, <4>1 DEF FeedSafe
      <4>3. list[i + d].timestamp <= list[m].timestamp
        BY <1>2, <3>3, <4>1 DEF FeedSafe
      <4>4. new[j] = e
        BY <1>3, <3>5
      <4>d. list[i + d] \in Consumer!PriceData /\ list[m] \in Consumer!PriceData
        BY <1>2, <4>1
      <4>5. list[i + d].timestamp \in Nat /\ list[m].timestamp \in Nat /\ e.timestamp \in Nat
        BY <4>d DEF Consumer!PriceData
      <4> QED BY <3>2, <3>3, <4>2, <4>3, <4>4, <4>5
    <3> QED BY <3>4, <3>5
  <2> QED BY <2>2, <2>3
<1>6. /\ store'.prices \in Seq(Consumer!PriceData) /\ Len(store'.prices) <= MaxObservations
      /\ store'.record = store'.prices[Len(store'.prices)]
      /\ history' => \A i, j \in 1 .. Len(store'.prices) :
                        i <= j => store'.prices[i].timestamp <= store'.prices[j].timestamp
  BY <1>1, <1>3, <1>4, <1>5, <1>c
<1>7. history' \in BOOLEAN
  BY <1>1
<1>8. store'.record \in Consumer!PriceData
  BY <1>1
<1>9. /\ DOMAIN store' = FeedFields /\ now' \in Nat
      /\ store'.admin \in Somebody /\ store'.secondary \in BOOLEAN
      /\ store'.observations \in Seq(Observation) /\ Len(store'.observations) <= MaxObservations
      /\ store'.window \in Nat /\ store'.maxStaleness \in Nat
  BY <1>1 DEF FeedSafe
<1> QED BY <1>6, <1>7, <1>8, <1>9 DEF FeedSafe

LEMMA FeedStep == FeedSafe /\ Consumer!Next => FeedSafe'
<1> SUFFICES ASSUME FeedSafe, Consumer!Next PROVE FeedSafe'
  OBVIOUS
<1>a. DOMAIN store = FeedFields
  BY DEF FeedSafe
<1>1. ASSUME \/ \E a \in Addresses : Consumer!Initialize(a)
             \/ Consumer!SetSecondaryOracle
             \/ \E n \in TwapWindows : Consumer!SetTwapWindow(n) \/ Consumer!SetMaxStaleness(n)
      PROVE  FeedSafe'
  <2> DEFINE PricesStay ==
                 /\ DOMAIN store' = FeedFields /\ now' = now /\ history' = history
                 /\ store'.admin \in Somebody /\ store'.secondary \in BOOLEAN
                 /\ store'.window \in Nat /\ store'.maxStaleness \in Nat
                 /\ store'.record = store.record /\ store'.prices = store.prices
                 /\ store'.observations = store.observations
  <2>1. PricesStay
    <3>1. ASSUME NEW a \in Addresses, Consumer!Initialize(a) PROVE PricesStay
      BY <1>a, <3>1 DEF Consumer!Initialize, Consumer!Call, FeedSafe, FeedFields, Somebody
    <3>2. CASE Consumer!SetSecondaryOracle
      BY <1>a, <3>2 DEF Consumer!SetSecondaryOracle, Consumer!Set, Consumer!Call, FeedSafe,
         FeedFields
    <3>3. ASSUME NEW n \in TwapWindows, Consumer!SetTwapWindow(n) \/ Consumer!SetMaxStaleness(n)
          PROVE  PricesStay
      BY <1>a, <3>3, FeedAssumption DEF Consumer!SetTwapWindow, Consumer!SetMaxStaleness,
         Consumer!Set, Consumer!Call, FeedSafe, FeedFields
    <3> HIDE DEF PricesStay
    <3> QED BY <1>1, <3>1, <3>2, <3>3
  <2> QED BY <2>1 DEF FeedSafe
<1>2. ASSUME NEW p \in RecordedPrices, Consumer!RecordPrice(p)
      PROVE  FeedSafe'
  <2>1. PICK e \in Observation :
        /\ DOMAIN store' = FeedFields /\ now' = now /\ history' = history
        /\ store'.observations = Consumer!Kept(Append(store.observations, e))
        /\ store'.record = store.record /\ store'.prices = store.prices
        /\ store'.admin = store.admin /\ store'.secondary = store.secondary
        /\ store'.window = store.window /\ store'.maxStaleness = store.maxStaleness
    BY <1>2, <1>a DEF Consumer!RecordPrice, Consumer!Call, Observation, FeedSafe, FeedFields
  <2>2. PICK list : /\ list \in Seq(Observation) /\ list = store.observations
                    /\ Len(list) <= MaxObservations
    BY DEF FeedSafe
  <2>b. PICK new : new = Consumer!Kept(Append(list, e))
    OBVIOUS
  <2>c. new \in Seq(Observation) /\ \E d, n : IsKept(new, list, e, d, n)
    BY <2>2, <2>b, ListKept
  <2>3. /\ store'.observations \in Seq(Observation)
        /\ Len(store'.observations) <= MaxObservations
    BY <2>1, <2>2, <2>b, <2>c DEF IsKept
  <2> QED BY <2>1, <2>3 DEF FeedSafe
<1>3. CASE Consumer!TimePasses
  <2>1. now' = now + 1 /\ store' = store /\ history' = history
    BY <1>3 DEF Consumer!TimePasses
  <2> QED BY <2>1 DEF FeedSafe
<1> QED BY <1>1, <1>2, <1>3, PriceTaken DEF Consumer!Next

LEMMA MomentsAdded ==
    \A F : Consumer!FoldFunction(+, 0, F) = SumOver(F, DOMAIN F)
  BY DEF Consumer!FoldFunction, Consumer!FoldFunctionOnSet, Consumer!MapThenFoldSet,
     SumOver, Sums, SumRule, AnyOf

\* A moment after the date of a price has a last price.
LEMMA LastExists ==
    ASSUME NEW n \in Nat, NEW dates, NEW t, NEW i \in 1 .. n, dates[i] <= t
    PROVE  \E a \in 1 .. n : LastAt(n, dates, t, a)
<1> DEFINE Early(k) == \E j \in 1 .. n : dates[j] <= t /\ k = n - j
           T == {k \in Nat : Early(k)}
<1>1. T \in SUBSET Nat /\ n - i \in T
  OBVIOUS
<1>2. PICK k \in T : \A m \in T : k <= m
  <2> HIDE DEF T
  <2> QED BY <1>1, LeastNumber
<1>3. PICK a \in 1 .. n : dates[a] <= t /\ k = n - a
  BY <1>2
<1>4. ASSUME NEW j \in 1 .. n, dates[j] <= t
      PROVE  j <= a
  <2>1. n - j \in T
    BY <1>4
  <2>2. k <= n - j
    <3> HIDE DEF T
    <3> QED BY <1>2, <2>1
  <2> QED BY <1>3, <2>2
<1> QED BY <1>3, <1>4 DEF LastAt

\* The average over the window, as the seconds of the window have it.
LEMMA TwapKept == FeedSafe => Consumer!TwapIsAverage
<1> SUFFICES ASSUME FeedSafe, history, store.window <= now,
                    Consumer!Answers(store.window, store.maxStaleness)
             PROVE  Consumer!GetPrice =
                        Consumer!FoldFunction(+, 0,
                            [t \in now - store.window .. now - 1 |-> Consumer!InForce(t)])
                        \div store.window
  BY DEF Consumer!TwapIsAverage
<1>1. PICK w \in Nat, end \in Nat, b \in Nat :
        /\ w = store.window /\ end = now /\ w <= end /\ b = end - w /\ b <= end
  BY DEF FeedSafe
<1>2. Consumer!WindowStart(w) = b
  BY <1>1 DEF Consumer!WindowStart
<1>3. PICK list : list = store.prices
  OBVIOUS
<1>4. PICK n \in Nat : n = Len(list) /\ DOMAIN list = 1 .. n
  BY <1>3 DEF FeedSafe
<1>5. \A i \in 1 .. n : list[i] \in Consumer!PriceData
  BY <1>3, <1>4 DEF FeedSafe
<1>6. \A i \in 1 .. n : list[i].timestamp \in Nat /\ list[i].price \in Nat
  BY <1>5, FeedAssumption DEF Consumer!PriceData
<1>7. PICK dates : dates = [i \in 1 .. n |-> list[i].timestamp]
  OBVIOUS
<1>8. PICK prices : prices = [i \in 1 .. n |-> list[i].price]
  OBVIOUS
<1>9. InOrder(n, dates) /\ Series(n, dates, prices)
  <2>1. dates \in [1 .. n -> Nat] /\ prices \in [1 .. n -> Nat]
    BY <1>6, <1>7, <1>8
  <2>2. \A i, j \in 1 .. n : i <= j => list[i].timestamp <= list[j].timestamp
    BY <1>3, <1>4 DEF FeedSafe
  <2>3. \A i, j \in 1 .. n : i <= j => dates[i] <= dates[j]
    BY <1>7, <2>2
  <2> QED BY <2>1, <2>3 DEF InOrder, Series
<1> DEFINE LastOf(t) ==
        CHOOSE i \in DOMAIN store.prices :
            /\ store.prices[i].timestamp <= t
            /\ \A j \in DOMAIN store.prices : store.prices[j].timestamp <= t => j <= i
<1>10. PICK at : at = [t \in b .. end - 1 |-> LastOf(t)]
  OBVIOUS
<1>11. PICK force : force = [t \in b .. end - 1 |-> Consumer!InForce(t)]
  OBVIOUS
<1>12. ASSUME NEW t \in b .. end - 1
       PROVE  LastAt(n, dates, t, at[t]) /\ force[t] = prices[at[t]]
  <2>1. PICK i \in 1 .. n : list[i].timestamp <= b
    BY <1>1, <1>2, <1>3, <1>4 DEF Consumer!Answers, Consumer!Covered
  <2>2. dates[i] <= t
    BY <1>6, <1>7, <2>1
  <2>3. PICK a \in 1 .. n : LastAt(n, dates, t, a)
    BY <2>2, LastExists
  <2>4. /\ a \in DOMAIN store.prices /\ store.prices[a].timestamp <= t
        /\ \A j \in DOMAIN store.prices : store.prices[j].timestamp <= t => j <= a
    BY <1>3, <1>4, <1>7, <2>3 DEF LastAt
  <2>5. /\ LastOf(t) \in DOMAIN store.prices
        /\ store.prices[LastOf(t)].timestamp <= t
        /\ \A j \in DOMAIN store.prices : store.prices[j].timestamp <= t => j <= LastOf(t)
    BY <2>4
  <2>6. Consumer!InForce(t) = store.prices[LastOf(t)].price
    BY DEF Consumer!InForce
  <2>7. PICK c : c = LastOf(t)
    OBVIOUS
  <2> HIDE DEF LastOf
  <2>8. at[t] = c /\ force[t] = Consumer!InForce(t)
    BY <1>10, <1>11, <2>7
  <2>9. c \in 1 .. n /\ force[t] = list[c].price
    BY <1>3, <1>4, <2>5, <2>6, <2>7, <2>8
  <2>10. LastAt(n, dates, t, c)
    BY <1>3, <1>4, <1>7, <2>5, <2>7, <2>9 DEF LastAt
  <2> QED BY <1>8, <2>8, <2>9, <2>10
<1> HIDE DEF LastOf
<1>13. SumOver(Weighed(n, dates, prices, b, end, end), 1 .. n) = SumOver(force, b .. end - 1)
  <2>1. InForceAt(n, dates, prices, b, end, at, force)
    BY <1>12 DEF InForceAt
  <2> QED BY <1>1, <1>9, <2>1, LastingAddsUp
<1>14. [i \in DOMAIN store.prices |-> store.prices[i].price * Consumer!Weight(i, w)] =
            Weighed(n, dates, prices, b, end, end)
  <2>1. ASSUME NEW i \in 1 .. n
        PROVE  Consumer!Weight(i, w) = Lasts(dates[i], After(dates, n, i, end), b, end)
    <3>1. i < n => i + 1 \in 1 .. n
      OBVIOUS
    <3>2. After(dates, n, i, end) =
             IF i < Len(store.prices) THEN store.prices[i + 1].timestamp ELSE now
      BY <1>1, <1>3, <1>4, <1>7, <3>1 DEF After
    <3>3. dates[i] = store.prices[i].timestamp
      BY <1>3, <1>7
    <3> QED BY <1>1, <1>2, <3>2, <3>3 DEF Consumer!Weight, Lasts
  <2>2. \A i \in 1 .. n : prices[i] = store.prices[i].price
    BY <1>3, <1>8
  <2> QED BY <1>3, <1>4, <2>1, <2>2 DEF Weighed
<1>15. Consumer!GetPrice = SumOver(force, b .. end - 1) \div w
  <2>1. Consumer!GetTwapPrice(w) =
            Consumer!FoldFunction(+, 0, [i \in DOMAIN store.prices |->
                store.prices[i].price * Consumer!Weight(i, w)]) \div w
    BY DEF Consumer!GetTwapPrice
  <2>2. DOMAIN Weighed(n, dates, prices, b, end, end) = 1 .. n
    BY DEF Weighed
  <2>3. Consumer!GetPrice = Consumer!GetTwapPrice(w)
    BY <1>1 DEF Consumer!GetPrice
  <2> QED BY <1>13, <1>14, <2>1, <2>2, <2>3, MomentsAdded
<1>16. Consumer!FoldFunction(+, 0, force) = SumOver(force, b .. end - 1)
  <2>1. DOMAIN force = b .. end - 1
    BY <1>11
  <2> QED BY <2>1, MomentsAdded
<1> QED BY <1>1, <1>11, <1>15, <1>16

------------------------------------------------------------------------------
(* The contracts together: a behaviour has one, and each step is a call of it. *)

LEMMA OwnSteps ==
    [ContractsNext]_<<vars, contractVars>> =>
        /\ contract' = contract
        /\ contract = "proxy" => [Proxy!Next]_contractVars
        /\ contract = "upgradeable" => [Upgradeable!Next]_contractVars
        /\ contract = "registry" => [Registry!Next]_contractVars
        /\ contract = "breaker" => [Breaker!Next]_contractVars
        /\ contract = "multisig" => [Multisig!Next]_contractVars
        /\ contract = "bridge" => [Bridge!Next]_contractVars
        /\ contract = "nft" => [NFT!Next]_contractVars
        /\ contract = "vesting" => [Vesting!Next]_contractVars
        /\ contract = "governance" => [Governance!Next]_contractVars
        /\ contract = "token" => [Token!Next]_contractVars
        /\ contract = "xlm_wrapper" => [Wrapper!Next]_contractVars
        /\ contract = "flash_loan" => [FlashLoan!Next]_contractVars
        /\ contract = "amm" => [AMM!Next]_contractVars
        /\ contract = "multistaking" => [MultiToken!Next]_contractVars
  BY DEF ContractsNext, Step, contractVars

ContractsSafe ==
    /\ contract = "proxy" => ProxySafe
    /\ contract = "upgradeable" => UpgradeableSafe
    /\ contract = "registry" => RegistrySafe
    /\ contract = "breaker" => BreakerSafe
    /\ contract = "multisig" => MultisigSafe
    /\ contract = "bridge" => BridgeSafe
    /\ contract = "nft" => NftSafe
    /\ contract = "vesting" => VestingSafe
    /\ contract = "governance" => GovernanceSafe
    /\ contract = "token" => TokenSafe
    /\ contract = "xlm_wrapper" => WrapperSafe
    /\ contract = "flash_loan" => LoanSafe
    /\ contract = "amm" => PoolSafe /\ PoolHeld
    /\ contract = "multistaking" => StakeSafe

LEMMA DeployedSafe == ContractsInit => ContractsSafe
  BY ProxyInit, UpgradeableInit, RegistryInit, BreakerInit, MultisigInit, BridgeInit,
     NftInit, VestingInit, GovernanceInit, TokenInit, WrapperInit, LoanInit, PoolInit,
     PoolHeldInit, StakeInit
  DEF ContractsInit, Start, ContractsSafe

LEMMA ProxyIdle == ProxySafe /\ UNCHANGED contractVars => ProxySafe'
  BY DEF ProxySafe, Proxy!TypeOK, contractVars

LEMMA UpgradeableIdle == UpgradeableSafe /\ UNCHANGED contractVars => UpgradeableSafe'
  BY DEF UpgradeableSafe, Upgradeable!TypeOK, Upgradeable!Pending, contractVars

LEMMA RegistryIdle == RegistrySafe /\ UNCHANGED contractVars => RegistrySafe'
  BY DEF RegistrySafe, Registry!TypeOK, contractVars

LEMMA BreakerIdle == BreakerSafe /\ UNCHANGED contractVars => BreakerSafe'
  BY DEF BreakerSafe, contractVars

LEMMA MultisigIdle == MultisigSafe /\ UNCHANGED contractVars => MultisigSafe'
  BY DEF MultisigSafe, Multisig!TypeOK, Multisig!ReleasedByQuorum, contractVars

LEMMA BridgeIdle == BridgeSafe /\ UNCHANGED contractVars => BridgeSafe'
  BY DEF BridgeSafe, contractVars

LEMMA NftIdle == NftSafe /\ UNCHANGED contractVars => NftSafe'
  BY DEF NftSafe, NFT!ApprovalsEndWithOwnership, NFT!OwnerOf, contractVars

LEMMA VestingIdle == VestingSafe /\ UNCHANGED contractVars => VestingSafe'
  BY DEF VestingSafe, Vesting!Left, contractVars

LEMMA GovernanceIdle == GovernanceSafe /\ UNCHANGED contractVars => GovernanceSafe'
  BY DEF GovernanceSafe, contractVars

LEMMA TokenIdle == TokenSafe /\ UNCHANGED contractVars => TokenSafe'
  BY DEF TokenSafe, contractVars

LEMMA WrapperIdle == WrapperSafe /\ UNCHANGED contractVars => WrapperSafe'
  BY DEF WrapperSafe, contractVars

LEMMA LoanIdle == LoanSafe /\ UNCHANGED contractVars => LoanSafe'
  BY DEF LoanSafe, FlashLoan!FeesAreEarned, contractVars

LEMMA PoolIdle ==
    PoolSafe /\ PoolHeld /\ UNCHANGED contractVars => PoolSafe' /\ PoolHeld'
  BY DEF PoolSafe, PoolHeld, contractVars

LEMMA StakeIdle == StakeSafe /\ UNCHANGED contractVars => StakeSafe'
  BY AccountsStay DEF StakeSafe, StakeTyped, contractVars

LEMMA StaysSafe == ContractsSafe /\ [ContractsNext]_<<vars, contractVars>> => ContractsSafe'
  BY OwnSteps, ProxyStep, UpgradeableStep, RegistryStep, MultisigStep, NftStep,
     BreakerStep, BridgeStep, ProxyIdle, UpgradeableIdle, RegistryIdle, BreakerIdle,
     MultisigIdle, BridgeIdle, NftIdle, VestingStep, GovernanceStep, TokenStep,
     WrapperStep, LoanStep, PoolStep, PoolHeldStep, StakeStep, VestingIdle, GovernanceIdle, TokenIdle,
     WrapperIdle, LoanIdle, PoolIdle, StakeIdle
  DEF ContractsSafe

LEMMA ContractsInvariance == ContractsSpec => []ContractsSafe
  BY DeployedSafe, StaysSafe, PTL DEF ContractsSpec

\* execute_upgrade of the proxy, approve_upgrade, accept_admin, release and all calls on
\* an immutable token: however proposals, approvals, cancellations and replacements are
\* interleaved, whatever the numbers of approvers, administrators and signers, nothing
\* changes without the consent it needs.
THEOREM Authorised == ContractsSpec => ChangesAreAuthorised
<1> DEFINE Consented ==
        /\ contract = "proxy" => Proxy!CodeIsApprovedStep
        /\ contract = "upgradeable" => Upgradeable!UpgradedByQuorumStep
        /\ contract = "registry" => Registry!BothSidesAgreeStep
        /\ contract = "multisig" => Multisig!ReleasedByQuorum'
        /\ contract = "nft" => NFT!ImmutableStaysStep
<1>1. ContractsSafe /\ [ContractsNext]_<<vars, contractVars>> => [Consented]_contractVars
  <2> SUFFICES ASSUME ContractsSafe, [ContractsNext]_<<vars, contractVars>>,
                      contractVars' # contractVars
               PROVE  Consented
    OBVIOUS
  <2>1. ContractsSafe'
    BY StaysSafe
  <2> QED
    BY <2>1, OwnSteps, ProxyCode, UpgradeableStep, RegistryStep, NftStep
    DEF ContractsSafe, MultisigSafe
<1> QED BY ContractsInvariance, <1>1, PTL DEF ContractsSpec, ChangesAreAuthorised

\* The proxy implements TimelockedChange for what it forwards to and for its own code:
\* whatever the delay, both change only to what stood proposed for all of it.
THEOREM Timelocked == ContractsSpec => UpgradesAreTimelocked
<1>1. ContractsInit => ImplementationLock!Init /\ CodeLock!Init
  BY DEF ContractsInit, Start, Proxy!Init, ImplementationLock!Init, CodeLock!Init,
     InProxy, ProxyTime
<1>2. ContractsSafe /\ [ContractsNext]_<<vars, contractVars>> =>
          /\ [ImplementationLock!Next]_ImplementationLock!vars
          /\ [CodeLock!Next]_CodeLock!vars
  <2> SUFFICES ASSUME ContractsSafe, [ContractsNext]_<<vars, contractVars>>
               PROVE  /\ [ImplementationLock!Next]_ImplementationLock!vars
                      /\ [CodeLock!Next]_CodeLock!vars
    OBVIOUS
  <2>1. contract' = contract /\ (contract = "proxy" => [Proxy!Next]_contractVars)
    BY OwnSteps
  <2>2. CASE contract = "proxy" /\ Proxy!Next
    BY <2>1, <2>2, ProxyLocks DEF ContractsSafe
  <2>3. CASE contract # "proxy" \/ UNCHANGED contractVars
    BY <2>1, <2>3
    DEF ImplementationLock!vars, CodeLock!vars, InProxy, ProxyTime, contractVars
  <2> QED BY <2>1, <2>2, <2>3
<1> QED
  BY ContractsInvariance, <1>1, <1>2, PTL
  DEF ContractsSpec, UpgradesAreTimelocked, ImplementationLock!Spec, CodeLock!Spec

\* initiate_unpause, execute_unpause and record_volume of the breaker, process_message and
\* activate_emergency_mode of the bridge: whatever the time locks, windows, thresholds and
\* the calls in between, nothing opens or repeats before its time.
THEOREM InTime == ContractsSpec => NothingBeforeItsTime
<1> DEFINE Due ==
        /\ contract = "breaker" => Breaker!ReopensInTimeStep /\ Breaker!CooldownHoldsStep
        /\ contract = "bridge" => Bridge!NotReplayedStep /\ Bridge!EmergencyAfterSilenceStep
<1>1. ContractsSafe /\ [ContractsNext]_<<vars, contractVars>> => [Due]_contractVars
  BY OwnSteps, BreakerStep, BridgeStep DEF ContractsSafe
<1> QED BY ContractsInvariance, <1>1, PTL DEF ContractsSpec, NothingBeforeItsTime

\* Every call of the vesting, staking, token, wrapper, pool and flash loan contracts, in
\* whatever order and for all amounts, schedules, fees and rates: what is owed to the
\* users together is held, to the last unit that a division leaves; of the pool, what it
\* books of tokens that take no fee of transfers.
THEOREM Owed == ContractsSpec => []OwedIsHeld
<1>1. ContractsSafe => OwedIsHeld
  BY VestingSolvent, TokenSolvent, WrapperSolvent, LoanSolvent, PoolSolvent, PoolHolds,
     StakeSolvent
  DEF ContractsSafe, OwedIsHeld
<1> QED BY ContractsInvariance, <1>1, PTL

\* Revocation, the passing of time, votes and deposits of rewards: the linear schedule
\* never steps down, a decision made at the deadline stays made, and what a stake has
\* earned is only ever lost by claiming it.
THEOREM NothingTaken == ContractsSpec => NothingIsTakenBack
<1> DEFINE Stays ==
        /\ contract = "vesting" => Vesting!VestedStaysStep
        /\ contract = "governance" => Governance!DecidedStaysStep
        /\ contract = "multistaking" => MultiToken!EarnedStaysStep
<1>1. ContractsSafe /\ [ContractsNext]_<<vars, contractVars>> => [Stays]_contractVars
  BY OwnSteps, VestedStay, GovernanceStep, StakeStep DEF ContractsSafe
<1> QED BY ContractsInvariance, <1>1, PTL DEF ContractsSpec, NothingIsTakenBack
==============================================================================
