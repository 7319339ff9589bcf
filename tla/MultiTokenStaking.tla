--------------------------- MODULE MultiTokenStaking ---------------------------
(***************************************************************************)
(* The staking contract contracts/staking: one token is staked, rewards    *)
(* are deposited in several, and are shared by the stakes of the moment    *)
(* through a running reward per token.  held is by token.                  *)
(***************************************************************************)
EXTENDS Soroban, FiniteSetsExt

CONSTANTS
    Tokens,         \* the reward tokens
    StakeToken,     \* one of them is also what is staked
    Precision,      \* PRECISION
    MaxDeposit      \* bound on the rewards that come in, per token

Zero == [t \in Tokens |-> 0]

\* The list of reward tokens and the whitelist are one set.  history is what of
\* each token has been deposited as rewards.
TypeOK ==
    /\ store.admin \in Somebody /\ store.paused \in BOOLEAN
    /\ store.whitelist \subseteq Tokens
    /\ store.totalStaked \in Nat /\ store.stake \in [Addresses -> Nat]
    /\ store.rpt \in [Tokens -> Nat]
    /\ store.paid \in [Addresses -> [Tokens -> Nat]]
    /\ store.rewards \in [Addresses -> [Tokens -> Nat]]
    /\ held \in [Tokens -> Nat] /\ history \in [Tokens -> Nat]

Init ==
    /\ Deployed("multistaking")
    /\ store = [admin |-> Nobody, paused |-> FALSE, whitelist |-> {},
                totalStaked |-> 0, stake |-> [a \in Addresses |-> 0], rpt |-> Zero,
                paid |-> [a \in Addresses |-> Zero],
                rewards |-> [a \in Addresses |-> Zero]]
    /\ held = Zero
    /\ history = Zero

Initialize(admin) ==
    /\ Call("multistaking")
    /\ store.admin = Nobody
    /\ store' = [store EXCEPT !.admin = admin]
    /\ UNCHANGED <<held, history>>

Running == Call("multistaking") /\ store.admin # Nobody /\ ~store.paused

AddRewardToken(t) ==
    /\ Running
    /\ t \notin store.whitelist
    /\ store' = [store EXCEPT !.whitelist = @ \cup {t}, !.rpt[t] = 0]
    /\ UNCHANGED <<held, history>>

\* Rewards that come while nobody has staked are kept by the contract.
DepositRewards(t, amount) ==
    /\ Running
    /\ t \in store.whitelist
    /\ history[t] + amount <= MaxDeposit
    /\ store' = IF store.totalStaked = 0 THEN store
                ELSE [store EXCEPT !.rpt[t] = @ + (amount * Precision) \div store.totalStaked]
    /\ held' = [held EXCEPT ![t] = @ + amount]
    /\ history' = [history EXCEPT ![t] = @ + amount]

SetPaused(paused) ==
    /\ Call("multistaking")
    /\ store.admin # Nobody /\ store.paused # paused
    /\ store' = [store EXCEPT !.paused = paused]
    /\ UNCHANGED <<held, history>>

\* what a user has earned of a token, in units of 1 / Precision
Owed(user, t) ==
    store.rewards[user][t] + store.stake[user] * (store.rpt[t] - store.paid[user][t])

Earned(t) == [user \in Addresses |-> Owed(user, t)]

\* _update_rewards
Updated(user, tokens) ==
    [store EXCEPT
        !.rewards[user] = [t \in Tokens |-> IF t \in tokens THEN Owed(user, t) ELSE @[t]],
        !.paid[user] = [t \in Tokens |-> IF t \in tokens THEN store.rpt[t] ELSE @[t]]]

Stake(user, amount) ==
    /\ Running
    /\ store.totalStaked + amount <= MaxAmount
    /\ store' = [Updated(user, store.whitelist) EXCEPT
                    !.stake[user] = @ + amount, !.totalStaked = @ + amount]
    /\ held' = [held EXCEPT ![StakeToken] = @ + amount]
    /\ UNCHANGED history

\* mutant: the rewards are not settled before the stake shrinks
Unstake_Unsettled(user, amount) ==
    /\ Running
    /\ store.stake[user] >= amount
    /\ amount <= held[StakeToken]
    /\ store' = [store EXCEPT !.stake[user] = @ - amount, !.totalStaked = @ - amount]
    /\ held' = [held EXCEPT ![StakeToken] = @ - amount]
    /\ UNCHANGED history

Unstake(user, amount) ==
    /\ Running
    /\ store.stake[user] >= amount
    /\ amount <= held[StakeToken]
    /\ store' = [Updated(user, store.whitelist) EXCEPT
                    !.stake[user] = @ - amount, !.totalStaked = @ - amount]
    /\ held' = [held EXCEPT ![StakeToken] = @ - amount]
    /\ UNCHANGED history

\* Gives up what has been earned since the last settlement.
EmergencyWithdraw(user) ==
    LET amount == store.stake[user] IN
    /\ Call("multistaking")
    /\ store.paused
    /\ amount > 0
    /\ amount <= held[StakeToken]
    /\ store' = [store EXCEPT !.stake[user] = 0, !.totalStaked = @ - amount]
    /\ held' = [held EXCEPT ![StakeToken] = @ - amount]
    /\ UNCHANGED history

\* claim of one token, claim_all of all that are listed; what is less than one
\* unit stays owed
Claim(user, tokens) ==
    LET s == Updated(user, tokens)
        Reward(t) == IF t \in tokens THEN s.rewards[user][t] \div Precision ELSE 0
    IN  /\ Running
        /\ \A t \in tokens : Reward(t) <= held[t]
        /\ store' = [s EXCEPT !.rewards[user] = [t \in Tokens |-> @[t] - Reward(t) * Precision]]
        /\ held' = [t \in Tokens |-> held[t] - Reward(t)]
        /\ UNCHANGED history

Next ==
    \/ \E a \in Addresses :
          \/ Initialize(a)
          \/ Stake(a, 1) \/ Unstake(a, 1)
          \/ EmergencyWithdraw(a)
          \/ \E t \in Tokens : Claim(a, {t})
          \/ Claim(a, store.whitelist)
    \/ \E t \in Tokens : AddRewardToken(t) \/ DepositRewards(t, 1)
    \/ \E paused \in BOOLEAN : SetPaused(paused)

Spec == Init /\ [][Next]_vars

------------------------------------------------------------------------------
(* Properties *)

\* What the contract holds of each token covers every stake and everything owed:
\* whoever joins late gets nothing of the rewards of before, and rounding never
\* gives more than came in.
Covered ==
    \A t \in Tokens :
        (IF t = StakeToken THEN store.totalStaked * Precision ELSE 0)
            + MapThenSumSet(LAMBDA a : Earned(t)[a], Addresses) <= held[t] * Precision

\* While the contract runs, a user loses what is owed only by claiming it; other
\* users' calls, a new stake or a withdrawal of the own one take nothing.
EarnedStaysStep ==
    \A a \in Addresses, t \in Tokens :
       ~store.paused /\ Owed(a, t)' < Owed(a, t) => held'[t] < held[t]
           /\ Owed(a, t) - Owed(a, t)' = (held[t] - held'[t]) * Precision
EarnedStays == [][EarnedStaysStep]_vars
==============================================================================
