----------------------------- MODULE YieldFarming -----------------------------
(***************************************************************************)
(* The yield farm src/yield_farming/src/lib.rs.  It emits rewards per      *)
(* ledger, at a rate that decays by epoch, to the holders of the pool's    *)
(* shares, and keeps a vault that shares what it earns.  It asks the pool  *)
(* for the shares whenever it needs them.  held: lp is the pool's shares   *)
(* by holder, Vault being the contract, and rewards its reward tokens.     *)
(***************************************************************************)
EXTENDS Soroban, FiniteSetsExt

CONSTANTS
    Vault,                      \* the contract's own address
    Rates,                      \* the reward rates that are set
    EpochLength,                \* 100_000 ledgers
    DecayNumerator, DecayDenominator,       \* 95 and 100
    Precision

Holders == Addresses \cup {Vault}
NoRewards == [paid |-> 0, remainder |-> 0, rewards |-> 0]
Least(a, b) == IF a < b THEN a ELSE b
Greatest(a, b) == IF a < b THEN b ELSE a

\* history: what was emitted, ledger by ledger, and what of it was given to shares.
TypeOK ==
    /\ store.admin \in Somebody /\ store.rate \in Nat /\ store.last \in Nat
    /\ store.perShare \in Nat /\ store.remainder \in Nat
    /\ store.user \in [Holders -> [paid : Nat, remainder : Nat, rewards : Nat]]
    /\ store.shares \in [Addresses -> Nat] /\ store.total \in Nat
    /\ held.lp \in [Holders -> Nat] /\ held.rewards \in Nat
    /\ history.emitted \in Nat /\ history.shared \in Nat

Init ==
    /\ Deployed("yield_farming")
    /\ store = [admin |-> Nobody, rate |-> 0, last |-> 0, perShare |-> 0, remainder |-> 0,
                user |-> [a \in Holders |-> NoRewards],
                shares |-> [a \in Addresses |-> 0], total |-> 0]
    /\ held = [lp |-> [a \in Holders |-> 0], rewards |-> 0]
    /\ history = [emitted |-> 0, shared |-> 0]

PoolShares(lp) == MapThenSumSet(LAMBDA a : lp[a], Holders)

Initialize(admin, rate) ==
    /\ Call("yield_farming")
    /\ store.admin = Nobody
    /\ store' = [store EXCEPT !.admin = admin, !.rate = rate, !.last = now]
    /\ UNCHANGED <<held, history>>

------------------------------------------------------------------------------
(* Rewards *)

\* get_effective_reward_rate: rounded down in every epoch
EffectiveRate(rate, ledger) ==
    LET decayed[n \in Nat] ==
            IF n = 0 THEN rate ELSE (decayed[n - 1] * DecayNumerator) \div DecayDenominator
    IN  decayed[ledger \div EpochLength]

\* calculate_rewards_for_period, epoch by epoch
RewardsForPeriod(rate, start, end) ==
    LET From(e) == Greatest(start, e * EpochLength)
        To(e) == Least(end, (e + 1) * EpochLength)
        epochs == start \div EpochLength .. (end - 1) \div EpochLength
        part == [e \in epochs |-> (To(e) - From(e)) * EffectiveRate(rate, From(e))]
    IN  IF start >= end THEN 0 ELSE MapThenSumSet(LAMBDA e : part[e], epochs)

\* The reference: ledger by ledger.
Emission(rate, start, end) ==
    LET emitted == [i \in start .. end - 1 |-> EffectiveRate(rate, i)]
    IN  MapThenSumSet(LAMBDA i : emitted[i], start .. end - 1)

\* What the rewards since the last update are among the shares.
Distributed(s, total) ==
    LET distributable == RewardsForPeriod(s.rate, s.last, now) * Precision + s.remainder IN
    [s EXCEPT !.perShare = @ + distributable \div total, !.remainder = distributable % total,
              !.last = now]

\* _update_global_reward: without shares the rewards of the time are not emitted.
Updated ==
    LET total == PoolShares(held.lp) IN
    IF now <= store.last THEN store
    ELSE IF total > 0 THEN Distributed(store, total)
    ELSE [store EXCEPT !.last = now]

UpdatedHistory ==
    LET total == PoolShares(held.lp) IN
    IF now <= store.last \/ total = 0 THEN history
    ELSE [emitted |-> history.emitted + Emission(store.rate, store.last, now) * Precision,
          shared |-> history.shared + (Updated.perShare - store.perShare) * total]

\* _update_user_reward, by the shares that the user has in the pool now
UserUpdated(a) ==
    LET u == Updated.user[a]
        numerator == held.lp[a] * (Updated.perShare - u.paid) + u.remainder
    IN  [Updated EXCEPT !.user[a] = [paid |-> Updated.perShare,
                                     remainder |-> numerator % Precision,
                                     rewards |-> u.rewards + numerator \div Precision]]

SetRewardRate(rate) ==
    /\ Call("yield_farming")
    /\ store.admin # Nobody
    /\ store' = [Updated EXCEPT !.rate = rate]
    /\ history' = UpdatedHistory
    /\ UNCHANGED held

\* harvest_yield always fails: nothing ever adds to the protocol's fees.
ClaimRewards(a) ==
    LET s == UserUpdated(a)
        reward == s.user[a].rewards
    IN  /\ Call("yield_farming")
        /\ store.admin # Nobody
        /\ reward <= held.rewards
        /\ store' = [s EXCEPT !.user[a].rewards = 0]
        /\ held' = [held EXCEPT !.rewards = @ - reward]
        /\ history' = UpdatedHistory

------------------------------------------------------------------------------
(* The vault *)

Minted(amount, before) ==
    IF store.total = 0 \/ before = 0 THEN amount ELSE (amount * store.total) \div before

VaultDeposit(user, amount) ==
    LET minted == Minted(amount, held.lp[Vault]) IN
    /\ Call("yield_farming")
    /\ store.admin # Nobody
    /\ amount <= held.lp[user]
    /\ minted > 0
    /\ store' = [store EXCEPT !.shares[user] = @ + minted, !.total = @ + minted]
    /\ held' = [held EXCEPT !.lp[user] = @ - amount, !.lp[Vault] = @ + amount]
    /\ UNCHANGED history

VaultWithdraw(user, shares) ==
    LET returned == (shares * held.lp[Vault]) \div store.total IN
    /\ Call("yield_farming")
    /\ shares <= store.shares[user]
    /\ returned > 0
    /\ store' = [store EXCEPT !.shares[user] = @ - shares, !.total = @ - shares]
    /\ held' = [held EXCEPT !.lp[user] = @ + returned, !.lp[Vault] = @ - returned]
    /\ UNCHANGED history

\* The vault's own rewards go to the pool, which answers with new shares.
Compound(newLP) ==
    LET s == UserUpdated(Vault)
        pending == s.user[Vault].rewards
    IN  /\ Call("yield_farming")
        /\ store.admin # Nobody
        /\ 0 < pending /\ pending <= held.rewards
        /\ PoolShares(held.lp) + newLP <= MaxAmount
        /\ store' = [s EXCEPT !.user[Vault].rewards = 0]
        /\ held' = [held EXCEPT !.rewards = @ - pending, !.lp[Vault] = @ + newLP]
        /\ history' = UpdatedHistory

------------------------------------------------------------------------------
(* The pool, and whoever funds the rewards *)

PoolMoves(a, shares) ==
    /\ Call("yield_farming")
    /\ PoolShares([held.lp EXCEPT ![a] = shares]) <= MaxAmount
    /\ held' = [held EXCEPT !.lp[a] = shares]
    /\ UNCHANGED <<store, history>>

Fund ==
    /\ Call("yield_farming")
    /\ held.rewards < MaxAmount
    /\ held' = [held EXCEPT !.rewards = MaxAmount]
    /\ UNCHANGED <<store, history>>

Next ==
    \/ \E a \in Addresses, rate \in Rates : Initialize(a, rate)
    \/ \E rate \in Rates : SetRewardRate(rate)
    \/ \E a \in Addresses :
          \/ ClaimRewards(a)
          \/ \E n \in 1 .. MaxAmount : VaultDeposit(a, n)
          \/ \E n \in 1 .. store.shares[a] : VaultWithdraw(a, n)
          \/ \E n \in {0, 1} : PoolMoves(a, n)
    \/ \E n \in 1 .. MaxAmount : Compound(n)
    \/ Fund \/ TimePasses

Spec == Init /\ [][Next]_vars

------------------------------------------------------------------------------
(* Properties *)

\* However seldom the farm is touched, through however many epochs, what it has
\* given to the shares and what it keeps as the remainder is the emission of each
\* ledger, no more and no less.
EmissionIsExact == history.shared + store.remainder = history.emitted

\* What a share of the vault is worth never falls: neither rounding, nor a deposit
\* after a compounding, nor a withdrawal takes from the others.
VaultShareNeverFallsStep ==
    store.total > 0 /\ store'.total > 0 =>
        held'.lp[Vault] * store.total >= held.lp[Vault] * store'.total
VaultShareNeverFalls == [][VaultShareNeverFallsStep]_vars
==============================================================================
