--------------------------- MODULE YieldDistribution ---------------------------
(***************************************************************************)
(* The yield contract contracts/yield/src/lib.rs: rewards that are         *)
(* deposited are shared among the stakes of the moment, and a user's part  *)
(* is settled, rounded down, whenever the user's stake changes.  Each call *)
(* first asks the security registry whether it is paused.  held: the stake *)
(* tokens and the reward tokens of the contract.                           *)
(***************************************************************************)
EXTENDS Soroban, FiniteSetsExt

CONSTANTS
    Precision,      \* PRECISION
    MaxDeposits     \* bound: the rewards that are deposited

TypeOK ==
    /\ store.admin \in Somebody /\ store.registry \in BOOLEAN
    /\ store.total \in Nat /\ store.perToken \in Nat
    /\ store.user \in [Addresses -> [stake : Nat, paid : Nat, rewards : Nat]]
    /\ held \in [{"stake", "reward"} -> Nat]
    /\ history.deposits \in Nat /\ history.gained \in [Addresses -> Nat]

\* history: the rewards deposited, and what each user would have by now of each
\* deposit alone, unrounded, in units of 1/Precision.
Init ==
    /\ Deployed("yield")
    /\ store = [admin |-> Nobody, registry |-> FALSE, total |-> 0, perToken |-> 0,
                user |-> [a \in Addresses |-> [stake |-> 0, paid |-> 0, rewards |-> 0]]]
    /\ held = [stake |-> 0, reward |-> 0]
    /\ history = [deposits |-> 0, gained |-> [a \in Addresses |-> 0]]

SetSecurityRegistry ==
    /\ Call("yield")
    /\ ~store.registry
    /\ store' = [store EXCEPT !.registry = TRUE]
    /\ UNCHANGED <<held, history>>

Initialize(admin) ==
    /\ Call("yield")
    /\ store.admin = Nobody
    /\ store' = [store EXCEPT !.admin = admin]
    /\ UNCHANGED <<held, history>>

Running(paused) == Call("yield") /\ store.admin # Nobody /\ ~(store.registry /\ paused)

\* Without a stake the rewards are taken and shared by nobody.
DepositRewards(amount, paused) ==
    LET delta == IF store.total = 0 THEN 0 ELSE (amount * Precision) \div store.total IN
    /\ Running(paused)
    /\ history.deposits + amount <= MaxDeposits
    /\ store' = [store EXCEPT !.perToken = @ + delta]
    /\ held' = [held EXCEPT !.reward = @ + amount]
    /\ history' = [deposits |-> history.deposits + amount,
                   gained |-> [a \in Addresses |->
                                  history.gained[a] + store.user[a].stake * delta]]

\* What the user's stake has earned since it was settled, as _update_reward and
\* pending_rewards round it.
Earned(u) == (u.stake * (store.perToken - u.paid)) \div Precision
Settled(u) == [u EXCEPT !.rewards = @ + Earned(u), !.paid = store.perToken]
Restaked(u, n) == [Settled(u) EXCEPT !.stake = u.stake + n]
Pending == [a \in Addresses |-> store.user[a].rewards + Earned(store.user[a])]

Stake(user, amount, paused) ==
    /\ Running(paused)
    /\ store.total + amount <= MaxAmount
    /\ store' = [store EXCEPT !.user[user] = Restaked(@, amount),
                              !.total = @ + amount]
    /\ held' = [held EXCEPT !.stake = @ + amount]
    /\ UNCHANGED history

Unstake(user, amount, paused) ==
    /\ Running(paused)
    /\ amount <= store.user[user].stake
    /\ store' = [store EXCEPT !.user[user] = Restaked(@, -amount),
                              !.total = @ - amount]
    /\ held' = [held EXCEPT !.stake = @ - amount]
    /\ UNCHANGED history

Claim(user, paused) ==
    LET reward == Pending[user] IN
    /\ Running(paused)
    /\ reward <= held.reward
    /\ store' = [store EXCEPT !.user[user] = [Settled(@) EXCEPT !.rewards = 0]]
    /\ held' = [held EXCEPT !.reward = @ - reward]
    /\ history' = [history EXCEPT !.gained[user] = @ - reward * Precision]

Next ==
    \/ SetSecurityRegistry
    \/ \E a \in Addresses : Initialize(a)
    \/ \E paused \in BOOLEAN :
          \/ \E n \in {1, 2} : DepositRewards(n, paused)
          \/ \E a \in Addresses : \/ Stake(a, 1, paused) \/ Unstake(a, 1, paused)
                                  \/ Claim(a, paused)

Spec == Init /\ [][Next]_vars

------------------------------------------------------------------------------
(* Properties *)

\* Nobody gets more than the parts of the deposits made while they had a stake,
\* and all that is owed can be paid: who stakes after a deposit has nothing of it.
Stakes == [a \in Addresses |-> store.user[a].stake]
PaidFromOwnTime ==
    /\ \A a \in Addresses : Pending[a] * Precision <= history.gained[a]
    /\ MapThenSumSet(LAMBDA a : Pending[a], Addresses) <= held.reward
    /\ held.stake = MapThenSumSet(LAMBDA a : Stakes[a], Addresses)
==============================================================================
