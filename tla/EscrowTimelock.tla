---------------------------- MODULE EscrowTimelock ----------------------------
(***************************************************************************)
(* The time-locked escrow contract src/escrow_timelock/lib.rs: a sender    *)
(* deposits, the beneficiary claims after the release time, the sender may *)
(* cancel before it and take a refund after it, and a recovery key may     *)
(* replace a beneficiary who lost the wallet, after a delay in which the   *)
(* beneficiary can veto.  A contract call is one step: it succeeds as a    *)
(* whole or panics and changes nothing.  Authorisation is implied by who   *)
(* makes the call.                                                         *)
(***************************************************************************)
EXTENDS Integers

CONSTANTS
    Addresses,
    Nobody,         \* Option::None, and an address that is not stored yet
    Delay,          \* BENEFICIARY_UPDATE_DELAY, in units of the ledger's clock
    MaxTime,        \* bound on the ledger's clock
    MaxAmount       \* bound on the tokens that come into the contract

ASSUME EscrowAssumption ==
    /\ Nobody \notin Addresses
    /\ Delay \in Nat /\ MaxTime \in Nat /\ MaxAmount \in Nat

Somebody == Addresses \cup {Nobody}

VARIABLES
    sender, recipient, unlockTime, conditionsMet, recoveryKey,
                    \* EscrowDetails; sender = Nobody before initialize
    pending,        \* PendingBeneficiaryUpdate
    refundClaimed, cancelled,
    registry,       \* a security registry is set
    paused,         \* what the registry answers
    balance,        \* tokens the contract holds
    received,       \* tokens it has paid to each address
    now,
    keySince,       \* ghost: when the recovery key was last set
    proposal        \* ghost: who made the last proposal, and when

details == <<sender, recipient, unlockTime, conditionsMet, recoveryKey>>
settlement == <<refundClaimed, cancelled, received>>
environment == <<registry, paused, now>>
ghosts == <<keySince, proposal>>
vars == <<details, pending, settlement, environment, balance, ghosts>>

NoPending == [newBeneficiary |-> Nobody, effectiveAt |-> 0]

TypeOK ==
    /\ sender \in Somebody /\ recipient \in Somebody
    /\ recoveryKey \in Somebody
    /\ unlockTime \in Nat /\ balance \in Nat
    /\ now \in Nat /\ keySince \in Nat
    /\ conditionsMet \in BOOLEAN /\ refundClaimed \in BOOLEAN
    /\ cancelled \in BOOLEAN /\ registry \in BOOLEAN /\ paused \in BOOLEAN
    /\ pending \in [newBeneficiary : Somebody, effectiveAt : Nat]
    /\ received \in [Addresses -> Nat]
    /\ proposal \in [by : Somebody, at : Nat]

Init ==
    /\ sender = Nobody /\ recipient = Nobody /\ recoveryKey = Nobody
    /\ unlockTime = 0
    /\ conditionsMet = FALSE
    /\ pending = NoPending
    /\ refundClaimed = FALSE /\ cancelled = FALSE
    /\ registry = FALSE /\ paused = FALSE
    /\ balance = 0
    /\ received = [a \in Addresses |-> 0]
    /\ now = 0
    /\ keySince = 0
    /\ proposal = [by |-> Nobody, at |-> 0]

Initialized == sender # Nobody
IsPaused == registry /\ paused
Active == Initialized /\ ~cancelled /\ ~refundClaimed      \* assert_active

Initialize(from, to, amount, unlock) ==
    /\ ~Initialized
    /\ amount > 0
    /\ sender' = from /\ recipient' = to /\ unlockTime' = unlock
    /\ conditionsMet' = FALSE /\ recoveryKey' = Nobody
    /\ refundClaimed' = FALSE /\ cancelled' = FALSE
    /\ balance' = balance + amount
    /\ UNCHANGED <<pending, received, environment, ghosts>>

MarkConditionsMet ==
    /\ Initialized
    /\ conditionsMet' = TRUE
    /\ UNCHANGED <<sender, recipient, unlockTime, recoveryKey, pending,
                   settlement, environment, balance, ghosts>>

\* The whole balance, stray deposits included, goes to one address.
PayOut(to) ==
    /\ balance' = 0
    /\ received' = [received EXCEPT ![to] = @ + balance]

\* mutant: the flag that claim and refund look at is not set
CancelEscrow_FlagOnly ==
    /\ Active
    /\ now < unlockTime
    /\ cancelled' = TRUE
    /\ PayOut(sender)
    /\ UNCHANGED <<details, pending, environment, refundClaimed, ghosts>>

CancelEscrow ==
    /\ Active
    /\ now < unlockTime
    /\ cancelled' = TRUE /\ refundClaimed' = TRUE
    /\ PayOut(sender)
    /\ UNCHANGED <<details, pending, environment, ghosts>>

\* mutant: the escrow is not marked as settled
Claim_Unmarked ==
    /\ ~IsPaused
    /\ Active
    /\ now >= unlockTime
    /\ PayOut(recipient)
    /\ UNCHANGED <<details, pending, environment, refundClaimed, cancelled,
                   ghosts>>

\* release_timestamp is initialised to unlock_time and never changed;
\* conditions_met is not looked at.
Claim ==
    /\ ~IsPaused
    /\ Active
    /\ now >= unlockTime
    /\ refundClaimed' = TRUE
    /\ PayOut(recipient)
    /\ UNCHANGED <<details, pending, environment, cancelled, ghosts>>

Refund ==
    /\ ~IsPaused
    /\ Initialized /\ ~refundClaimed
    /\ now >= unlockTime
    /\ refundClaimed' = TRUE
    /\ PayOut(sender)
    /\ UNCHANGED <<details, pending, environment, cancelled, ghosts>>

\* mutant: a proposal of the previous key survives
SetRecoveryKey_KeepsProposal(key) ==
    /\ Active
    /\ key # recipient
    /\ recoveryKey' = key
    /\ keySince' = now
    /\ UNCHANGED <<sender, recipient, unlockTime, conditionsMet, pending,
                   settlement, environment, balance, proposal>>

SetRecoveryKey(key) ==
    /\ Active
    /\ key # recipient
    /\ recoveryKey' = key
    /\ pending' = NoPending
    /\ keySince' = now
    /\ UNCHANGED <<sender, recipient, unlockTime, conditionsMet, settlement,
                   environment, balance, proposal>>

UpdateBeneficiary(new) ==
    /\ Active
    /\ recoveryKey # Nobody
    /\ new # recipient
    /\ pending' = [newBeneficiary |-> new,
                   effectiveAt |-> now + Delay]
    /\ proposal' = [by |-> recoveryKey, at |-> now]
    /\ UNCHANGED <<details, settlement, environment, balance, keySince>>

\* Anybody may call it.
ExecuteBeneficiaryUpdate ==
    /\ Active
    /\ pending # NoPending
    /\ now >= pending.effectiveAt
    /\ recipient' = pending.newBeneficiary
    /\ pending' = NoPending
    /\ UNCHANGED <<sender, unlockTime, conditionsMet, recoveryKey, settlement,
                   environment, balance, ghosts>>

\* The beneficiary's veto, or the key's withdrawal of its own proposal.
CancelBeneficiaryUpdate ==
    /\ Initialized
    /\ pending # NoPending
    /\ pending' = NoPending
    /\ UNCHANGED <<details, settlement, environment, balance, ghosts>>

SetSecurityRegistry ==
    /\ ~registry
    /\ registry' = TRUE
    /\ UNCHANGED <<details, pending, settlement, paused, now, balance, ghosts>>

------------------------------------------------------------------------------
(* The registry contract, the token contract and the ledger *)

SetPaused ==
    /\ paused' = ~paused
    /\ UNCHANGED <<details, pending, settlement, registry, now, balance,
                   ghosts>>

Deposit ==
    /\ balance < MaxAmount
    /\ balance' = balance + 1
    /\ UNCHANGED <<details, pending, settlement, environment, ghosts>>

TimePasses ==
    /\ now < MaxTime
    /\ now' = now + 1
    /\ UNCHANGED <<details, pending, settlement, registry, paused, balance,
                   ghosts>>

------------------------------------------------------------------------------
Next ==
    \/ \E from, to \in Addresses, unlock \in 0..MaxTime :
          Initialize(from, to, 1, unlock)
    \/ MarkConditionsMet \/ CancelEscrow \/ Claim \/ Refund
    \/ \E key \in Somebody : SetRecoveryKey(key)
    \/ \E new \in Addresses : UpdateBeneficiary(new)
    \/ ExecuteBeneficiaryUpdate \/ CancelBeneficiaryUpdate
    \/ SetSecurityRegistry \/ SetPaused \/ Deposit \/ TimePasses

Spec == Init /\ [][Next]_vars

------------------------------------------------------------------------------
(* Properties *)

\* Claim, refund and cancellation exclude each other: whatever the order of
\* calls, at most one address is ever paid from the escrow.
OnePayee ==
    \A a, b \in Addresses : received[a] > 0 /\ received[b] > 0 => a = b

\* Once the escrow is settled or cancelled no call changes who is its beneficiary, who may
\* replace the beneficiary, or what was paid.
SettledIsFrozen ==
    [][refundClaimed \/ cancelled => UNCHANGED <<recipient, recoveryKey, received>>]_vars

\* The beneficiary changes only after a proposal of the key that is still
\* designated has stood for the whole delay, during which it could be vetoed.
ChangeHasWaited ==
    [][Initialized /\ recipient' # recipient =>
          /\ proposal.by = recoveryKey /\ keySince <= proposal.at
          /\ now >= proposal.at + Delay]_vars
==============================================================================
