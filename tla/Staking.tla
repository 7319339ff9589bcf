------------------------------- MODULE Staking -------------------------------
(***************************************************************************)
(* The staking contract src/staking/lib.rs: users lock tokens for a tier's *)
(* time and earn rewards that shrink as the pool fills up.  Locks are      *)
(* compared by their ends in seconds and served in ledgers; the sequence   *)
(* of the ledger, which no other contract reads beside the time, is kept   *)
(* in store.sequence.  Rates are in whole multiples, the emission          *)
(* multiplier in quarters.  Nobody pays rewards in: they leave the same    *)
(* balance.                                                                *)
(***************************************************************************)
EXTENDS Soroban, Sequences, Folds

CONSTANTS
    TierLists,      \* the lists of [lock, multiplier] that the admin sets
    Capacities,     \* the target capacities that the admin sets
    SecondsPerLedger,   \* SECONDS_PER_LEDGER
    CloseTimes,     \* how long a ledger takes to close
    BaseRate,
    Penalty         \* PenaltyBps, in percent

NoStake == [amount |-> 0, updated |-> 0, rewards |-> 0, lockEnd |-> 0,
            multiplier |-> 1, stakeLedger |-> 0, lockLedgers |-> 0]

\* history.until is until when each user has agreed to lock what is staked, .early by
\* how much ledgers have closed sooner than SecondsPerLedger, all together.
TypeOK ==
    /\ store.admin \in Somebody
    /\ store.stake \in [Addresses -> [amount : Nat, updated : Nat, rewards : Nat,
          lockEnd : Nat, multiplier : Nat, stakeLedger : Nat, lockLedgers : Nat]]
    /\ store.totalStaked \in Nat /\ store.sequence \in Nat
    /\ held \in Nat /\ now \in Nat
    /\ history \in [until : [Addresses -> Nat], early : Nat]

Init ==
    /\ Deployed("staking")
    /\ store = [admin |-> Nobody, registry |-> FALSE,
                tiers |-> CHOOSE l \in TierLists : TRUE, capacity |-> 0,
                pool |-> FALSE, recipient |-> FALSE,
                stake |-> [a \in Addresses |-> NoStake], totalStaked |-> 0,
                sequence |-> 0]
    /\ history = [until |-> [a \in Addresses |-> 0], early |-> 0]
    /\ held = 0

Initialize(admin) ==
    /\ Call("staking")
    /\ store.admin = Nobody
    /\ store' = [store EXCEPT !.admin = admin]
    /\ UNCHANGED <<held, history>>

\* set_tiers, set_emission_params, set_penalty_pool, set_penalty_recipient and
\* set_security_registry
Set(field, value) ==
    /\ Call("staking")
    /\ field = "registry" \/ store.admin # Nobody
    /\ store[field] # value
    /\ store' = [store EXCEPT ![field] = value]
    /\ UNCHANGED <<held, history>>

NotPaused(paused) == store.registry => ~paused

\* emission_multiplier_bps: twice the rate in an empty pool, a quarter of it in
\* one that holds twice its capacity
Emission ==
    LET raw == 8 - (store.totalStaked * 4) \div store.capacity IN
    IF store.capacity = 0 THEN 4 ELSE IF raw < 1 THEN 1 ELSE raw

\* A stake made in the very first second counts as never updated.
Accrued(s) ==
    IF s.amount = 0 \/ s.updated = 0 \/ now <= s.updated THEN 0
    ELSE (s.amount * BaseRate * (now - s.updated) * s.multiplier * Emission) \div 4

\* lock_seconds_to_ledgers: rounded up
Ledgers(seconds) == (seconds + SecondsPerLedger - 1) \div SecondsPerLedger

IsUnlocked(s) == store.sequence - s.stakeLedger >= s.lockLedgers

Stake(user, amount, i, paused) ==
    LET s == [store.stake[user] EXCEPT !.amount = @ + amount, !.updated = now,
                  !.rewards = @ + Accrued(store.stake[user])]
        tier == store.tiers[i]
        end == now + tier.lock
    IN  /\ Call("staking")
        /\ store.admin # Nobody /\ NotPaused(paused)
        /\ store.totalStaked + amount <= MaxAmount
        /\ held' = held + amount
        /\ store' = [store EXCEPT
              !.stake[user] =
                  IF end > s.lockEnd
                  THEN [s EXCEPT !.lockEnd = end, !.multiplier = tier.multiplier,
                                 !.stakeLedger = store.sequence,
                                 !.lockLedgers = Ledgers(tier.lock)]
                  ELSE s,
              !.totalStaked = @ + amount]
        /\ history' = [history EXCEPT !.until[user] = IF end > @ THEN end ELSE @]

\* The penalty and the rest leave together with the rewards.
Withdraw(user, paused) ==
    LET s == store.stake[user]
        penalty == IF IsUnlocked(s) THEN 0 ELSE (s.amount * Penalty) \div 100
        out == s.amount + s.rewards + Accrued(s)
    IN  /\ Call("staking")
        /\ NotPaused(paused)
        /\ s.amount > 0
        /\ penalty > 0 => store.recipient
        /\ out <= held
        /\ held' = held - out
        /\ store' = [store EXCEPT !.stake[user] = NoStake,
                                  !.totalStaked = @ - s.amount]
        /\ history' = [history EXCEPT !.until[user] = 0]

ClaimRewards(user, paused) ==
    LET s == store.stake[user]
        rewards == s.rewards + Accrued(s)
    IN  /\ Call("staking")
        /\ NotPaused(paused)
        /\ rewards > 0
        /\ rewards <= held
        /\ held' = held - rewards
        /\ store' = [store EXCEPT !.stake[user].rewards = 0,
                                  !.stake[user].updated = now]
        /\ UNCHANGED history

\* The total is left as it was.
EmergencyWithdraw(user) ==
    LET s == store.stake[user] IN
    /\ Call("staking")
    /\ s.amount > 0
    /\ store.pool
    /\ s.amount <= held
    /\ held' = held - s.amount
    /\ store' = [store EXCEPT !.stake[user] = NoStake]
    /\ history' = [history EXCEPT !.until[user] = 0]

Fund ==
    /\ Call("staking")
    /\ held < MaxAmount
    /\ held' = held + 1
    /\ UNCHANGED <<store, history>>

\* The next ledger closes: the network's doing, five seconds or less or more after
\* the one before.
LedgerCloses(seconds) ==
    /\ now + seconds <= MaxTime
    /\ now' = now + seconds
    /\ store' = [store EXCEPT !.sequence = @ + 1]
    /\ history' = [history EXCEPT !.early =
          IF seconds < SecondsPerLedger THEN @ + SecondsPerLedger - seconds ELSE @]
    /\ UNCHANGED <<contract, held>>

Next ==
    \/ \E a \in Addresses, paused \in BOOLEAN :
          \/ Initialize(a)
          \/ \E i \in DOMAIN store.tiers : Stake(a, 1, i, paused)
          \/ Withdraw(a, paused) \/ ClaimRewards(a, paused)
          \/ EmergencyWithdraw(a)
    \/ \E l \in TierLists : Set("tiers", l)
    \/ \E n \in Capacities : Set("capacity", n)
    \/ \E field \in {"pool", "recipient", "registry"} : Set(field, TRUE)
    \/ \E seconds \in CloseTimes : LedgerCloses(seconds)
    \/ Fund

Spec == Init /\ [][Next]_vars

------------------------------------------------------------------------------
(* Properties *)

\* Nobody leaves without the penalty before the end, in seconds, of the longest lock
\* agreed to, whatever tier a later stake chose and whatever the tiers became, but
\* for what ledgers took less than the seconds by which the lock was converted.
LockIsServed ==
    \A a \in Addresses :
        store.stake[a].amount > 0 /\ IsUnlocked(store.stake[a]) =>
            now + history.early >= history.until[a]

------------------------------------------------------------------------------
(* What a comment says and the code does not do *)

\* "Total tokens staked across every user" (lib.rs:19): emergency_withdraw leaves the
\* total as it was.
TotalIsSum ==
    store.totalStaked = MapThenFoldSet(LAMBDA a, b : a + b, 0,
        LAMBDA a : store.stake[a].amount, LAMBDA S : CHOOSE a \in S : TRUE, Addresses)
==============================================================================
