---------------------- MODULE MCContracts_fairness_proofs ----------------------
(* Theorems about what each user of a contract gets and may do, for every set of  *)
(* addresses and all schedules, tiers, rates and amounts that satisfy the         *)
(* assumptions of MCContracts.  They strengthen the invariants of                 *)
(* MCContracts_proofs, contract by contract; the theorems are at the end.         *)
EXTENDS MCContracts_proofs

------------------------------------------------------------------------------
(* The distributor of the revenue *)

RevenueFields ==
    {"admin", "govShare", "payoutTokens", "cursor", "cap", "totalDeposits", "operators"}

\* What is left of a pass is still ahead of it.
RevenueSafe ==
    /\ DOMAIN store = RevenueFields /\ store.payoutTokens \in Seq(PayoutTokens)
    /\ DOMAIN history = {"next", "left"} /\ history.next \in Nat
    /\ history.next = 0 => history.left = {}
    /\ \A t \in history.left :
          \E i \in 1 .. Len(store.payoutTokens) : i > history.next /\ t = store.payoutTokens[i]

LEMMA RevenueInit == Revenue!Init => RevenueSafe
  BY DEF Revenue!Init, RevenueSafe, RevenueFields, Revenue!NoPass

LEMMA BatchGoes ==
    ASSUME RevenueSafe, NEW start \in 0 .. 3, NEW most \in 0 .. 3,
           Revenue!DistributeBatch(start, most)
    PROVE  RevenueSafe'
<1> DEFINE n == Len(store.payoutTokens)
           limit == IF most \in 1 .. MaxPerBatch THEN most ELSE MaxPerBatch
           end == IF start + limit < n THEN start + limit ELSE n
           batch == {store.payoutTokens[i] : i \in start + 1 .. end}
           next == IF start + limit >= n THEN 0 ELSE start + limit
           pass == IF start = 0 THEN [next |-> 0, left |-> Revenue!Range(store.payoutTokens)]
                   ELSE history
<1>1. /\ store' = [store EXCEPT !.cursor = next]
      /\ history' = [next |-> IF start = pass.next THEN next ELSE pass.next,
                     left |-> pass.left \ batch]
  BY DEF Revenue!DistributeBatch
<1>2. limit \in Nat \ {0} /\ n \in Nat /\ start \in Nat
  BY RevenueAssumption DEF RevenueSafe
<1>3. /\ store'.payoutTokens = store.payoutTokens /\ DOMAIN store' = RevenueFields
      /\ DOMAIN history' = {"next", "left"}
      /\ history'.next = IF start = pass.next THEN next ELSE pass.next
      /\ history'.left = pass.left \ batch
  BY <1>1 DEF RevenueSafe, RevenueFields
\* Every token that is left is ahead of where the pass stands.
<1>4. \A t \in pass.left : \E i \in 1 .. n : i > pass.next /\ t = store.payoutTokens[i]
  <2>1. \A t \in Revenue!Range(store.payoutTokens) : \E i \in 1 .. n : t = store.payoutTokens[i]
    BY DEF RevenueSafe, Revenue!Range
  <2> QED BY <2>1 DEF RevenueSafe
<1>5. pass.next \in Nat /\ (pass.next = 0 /\ start # 0 => pass.left = {})
  BY DEF RevenueSafe
<1>6. /\ next \in Nat
      /\ \A i \in 1 .. n : i > start => store.payoutTokens[i] \in batch \/ (next # 0 /\ i > next)
  <2>1. next \in Nat
    BY <1>2
  <2>2. ASSUME NEW i \in 1 .. n, i > start, ~(next # 0 /\ i > next)
        PROVE  i \in start + 1 .. end
    BY <1>2, <2>2
  <2> QED BY <2>1, <2>2
<1> HIDE DEF n, limit, end, batch, next, pass
<1>7. CASE start = pass.next
  <2>1. history'.next = next /\ history'.left = pass.left \ batch
    BY <1>3, <1>7
  <2>2. \A t \in history'.left : next # 0 /\ \E i \in 1 .. n : i > next /\ t = store.payoutTokens[i]
    BY <1>4, <1>6, <1>7, <2>1
  <2> QED BY <1>3, <1>6, <2>1, <2>2 DEF RevenueSafe, n
<1>8. CASE start # pass.next
  <2>1. history'.next = pass.next /\ history'.left \subseteq pass.left
    BY <1>3, <1>8
  <2>2. pass.next = 0 => history'.left = {}
    BY <1>5, <1>8, <2>1
  <2> QED BY <1>3, <1>4, <1>5, <2>1, <2>2 DEF RevenueSafe, n
<1> QED BY <1>7, <1>8

LEMMA RevenueStep == RevenueSafe /\ Revenue!Next => RevenueSafe'
<1> SUFFICES ASSUME RevenueSafe, Revenue!Next PROVE RevenueSafe'
  OBVIOUS
<1> USE DEF RevenueFields
<1>1. CASE /\ DOMAIN store' = DOMAIN store /\ store'.payoutTokens = store.payoutTokens
           /\ history' = history
  BY <1>1 DEF RevenueSafe
<1>2. ASSUME NEW a \in Addresses, NEW share \in {0, 1},
             \/ Revenue!Initialize(a, share) \/ Revenue!AddSweepOperator(a)
             \/ Revenue!RemoveSweepOperator(a)
      PROVE  RevenueSafe'
  BY <1>1, <1>2
  DEF RevenueSafe, Revenue!Initialize, Revenue!AddSweepOperator,
      Revenue!RemoveSweepOperator, Revenue!RequireAdmin
<1>3. ASSUME NEW a, NEW t, NEW u, Revenue!SweepAmm(a, t, u)
      PROVE  RevenueSafe'
  BY <1>1, <1>3 DEF Revenue!SweepAmm
<1>4. ASSUME NEW n, Revenue!SetShares(n) \/ Revenue!SetMaxDepositCap(n)
      PROVE  RevenueSafe'
  BY <1>1, <1>4
  DEF RevenueSafe, Revenue!SetShares, Revenue!SetMaxDepositCap, Revenue!RequireAdmin
<1>5. ASSUME NEW t \in PayoutTokens, Revenue!Deposit(t, 1)
      PROVE  RevenueSafe'
  BY <1>1, <1>5 DEF RevenueSafe, Revenue!Deposit
<1>6. ASSUME NEW t \in PayoutTokens, Revenue!Distribute(t)
      PROVE  RevenueSafe'
  <2>1. store' = store /\ history' = [history EXCEPT !.left = history.left \ {t}]
    BY <1>6 DEF Revenue!Distribute
  <2> QED BY <2>1 DEF RevenueSafe
<1>7. ASSUME NEW t \in PayoutTokens, Revenue!RegisterPayoutToken(t)
      PROVE  RevenueSafe'
  <2> DEFINE tokens == Append(store.payoutTokens, t)
  <2>1. /\ DOMAIN store' = DOMAIN store /\ store'.payoutTokens = tokens
        /\ history' = history
    BY <1>7 DEF RevenueSafe, Revenue!RegisterPayoutToken, Revenue!RequireAdmin
  <2>2. /\ tokens \in Seq(PayoutTokens) /\ Len(tokens) = Len(store.payoutTokens) + 1
        /\ \A i \in 1 .. Len(store.payoutTokens) : tokens[i] = store.payoutTokens[i]
        /\ Len(store.payoutTokens) \in Nat
    BY DEF RevenueSafe
  <2> HIDE DEF tokens
  <2>3. 1 .. Len(store.payoutTokens) \subseteq 1 .. Len(tokens)
    BY <2>2
  <2> QED BY <2>1, <2>2, <2>3 DEF RevenueSafe
<1> QED BY <1>2, <1>3, <1>4, <1>5, <1>6, <1>7, BatchGoes DEF Revenue!Next

LEMMA PassCompletes == RevenueSafe => Revenue!PassIsComplete
  BY DEF RevenueSafe, Revenue!PassIsComplete

------------------------------------------------------------------------------
(* Staking with tiers *)

\* How many seconds a number of ledgers stands for.
Seconds(ledgers) == SecondsPerLedger * ledgers

LEMMA SecondsAddUp ==
    /\ \A m \in Int : Seconds(m) \in Int /\ Seconds(m + 1) = Seconds(m) + SecondsPerLedger
    /\ \A m \in Nat : Seconds(m) \in Nat
    /\ \A m \in Int : Seconds(-m) = -Seconds(m)
<1>1. PICK d \in Nat : d = SecondsPerLedger
  BY LockAssumption
<1>2. ASSUME NEW m \in Int
      PROVE  d * m \in Int /\ d * (m + 1) = d * m + d /\ d * (-m) = -(d * m)
  OBVIOUS
<1>3. ASSUME NEW m \in Nat
      PROVE  d * m \in Nat
  OBVIOUS
<1> QED BY <1>1, <1>2, <1>3 DEF Seconds

\* A lock is converted to no fewer ledgers than it takes.
LEMMA LedgersSuffice ==
    ASSUME NEW lock \in Nat
    PROVE  Staking!Ledgers(lock) \in Nat /\ Seconds(Staking!Ledgers(lock)) >= lock
<1>1. PICK d \in Nat \ {0} : d = SecondsPerLedger
  BY LockAssumption
<1>2. PICK n \in Nat : n = lock + d - 1
  BY <1>1
<1>3. PICK q \in Nat : q = n \div d
  OBVIOUS
<1>4. n < d * q + d
  BY <1>3
<1>5. PICK x \in Nat : x = d * q
  OBVIOUS
<1>6. x >= lock
  BY <1>1, <1>2, <1>4, <1>5
<1> QED BY <1>1, <1>2, <1>3, <1>5, <1>6 DEF Staking!Ledgers, Seconds

LockFields ==
    {"amount", "updated", "rewards", "lockEnd", "multiplier", "stakeLedger", "lockLedgers"}

\* A stake is locked until h: what its unlocking is computed from allows for it at
\* ledger l of time t, but for the seconds by which ledgers have closed early.
LockedUntil(s, h, l, t) ==
    /\ DOMAIN s = LockFields
    /\ s.stakeLedger \in Nat /\ s.lockLedgers \in Nat
    /\ s.lockEnd = h /\ h \in Nat
    /\ h + Seconds(l - s.stakeLedger - s.lockLedgers) <= t

StakingFields ==
    {"admin", "registry", "tiers", "capacity", "pool", "recipient", "stake", "totalStaked",
     "sequence"}

StakingSafe ==
    /\ DOMAIN store = StakingFields /\ store.tiers \in StakingTiers
    /\ now \in Nat /\ store.sequence \in Nat
    /\ history \in [until : [Addresses -> Nat], early : Nat]
    /\ DOMAIN store.stake = Addresses
    /\ Seconds(store.sequence) <= now + history.early
    /\ \A a \in Addresses :
          LockedUntil(store.stake[a], history.until[a], store.sequence, now + history.early)

LEMMA NothingIsLocked ==
    ASSUME NEW l \in Nat, NEW t \in Nat, Seconds(l) <= t
    PROVE  LockedUntil(Staking!NoStake, 0, l, t)
<1>1. l - 0 - 0 = l /\ Seconds(l) \in Int
  BY SecondsAddUp
<1> QED BY <1>1 DEF LockedUntil, LockFields, Staking!NoStake

LEMMA StakingInit == Staking!Init => StakingSafe
<1> SUFFICES ASSUME Staking!Init PROVE StakingSafe
  OBVIOUS
<1>1. /\ DOMAIN store = StakingFields /\ now = 0 /\ store.sequence = 0
      /\ store.tiers = CHOOSE l \in StakingTiers : TRUE
      /\ store.stake = [a \in Addresses |-> Staking!NoStake]
      /\ history = [until |-> [a \in Addresses |-> 0], early |-> 0]
  BY DEF Staking!Init, Staking!Deployed, StakingFields
<1>2. store.tiers \in StakingTiers
  BY <1>1, LockAssumption
<1>3. Seconds(0) = 0
  BY LockAssumption DEF Seconds
<1> QED BY <1>1, <1>2, <1>3, NothingIsLocked DEF StakingSafe

LEMMA LocksAreServed == StakingSafe => Staking!LockIsServed
<1> SUFFICES ASSUME StakingSafe, NEW a \in Addresses, Staking!IsUnlocked(store.stake[a])
             PROVE  now + history.early >= history.until[a]
  BY DEF Staking!LockIsServed
<1>1. PICK t \in Nat, l \in Nat, h \in Nat :
          t = now + history.early /\ l = store.sequence /\ h = history.until[a]
  BY DEF StakingSafe
<1>2. LockedUntil(store.stake[a], h, l, t)
  BY <1>1 DEF StakingSafe
<1>3. PICK m \in Int : m = l - store.stake[a].stakeLedger - store.stake[a].lockLedgers
  BY <1>2 DEF LockedUntil
<1>4. m >= 0
  BY <1>1, <1>2, <1>3 DEF Staking!IsUnlocked, LockedUntil
<1>5. Seconds(m) \in Nat
  BY <1>4, SecondsAddUp
<1> QED BY <1>1, <1>2, <1>3, <1>5 DEF LockedUntil

\* One user's stake becomes s, which the user has agreed to lock until h.
LEMMA StakeBecomes ==
    ASSUME StakingSafe, NEW a \in Addresses, NEW s, NEW h,
           LockedUntil(s, h, store.sequence, now + history.early),
           DOMAIN store' = DOMAIN store, store'.tiers = store.tiers, now' = now,
           store'.sequence = store.sequence,
           store'.stake = [store.stake EXCEPT ![a] = s],
           history' = [history EXCEPT !.until = [history.until EXCEPT ![a] = h]]
    PROVE  StakingSafe'
<1>1. /\ history' \in [until : [Addresses -> Nat], early : Nat]
      /\ history'.early = history.early
      /\ history'.until = [history.until EXCEPT ![a] = h]
  BY DEF StakingSafe, LockedUntil
<1>2. \A b \in Addresses :
          LockedUntil(store'.stake[b], history'.until[b], store.sequence, now + history.early)
  BY <1>1 DEF StakingSafe
<1> QED BY <1>1, <1>2 DEF StakingSafe

\* A ledger closes: it counts for the seconds it stands for, early or not.
LEMMA LedgerIsCounted ==
    ASSUME StakingSafe, NEW seconds \in CloseTimes, Staking!LedgerCloses(seconds)
    PROVE  StakingSafe'
<1>1. PICK l \in Nat, t \in Nat, e \in Nat : l = store.sequence /\ t = now /\ e = history.early
  BY DEF StakingSafe
<1>2. PICK d \in Nat, n \in Nat : d = SecondsPerLedger /\ n = seconds
  BY LockAssumption
<1>3. PICK f \in Nat : f = IF n < d THEN e + d - n ELSE e
  <2>1. n < d => e + d - n \in Nat
    OBVIOUS
  <2> QED BY <2>1
<1>4. /\ DOMAIN store' = StakingFields /\ store'.tiers = store.tiers
      /\ store'.stake = store.stake /\ store'.sequence = l + 1 /\ now' = t + n
      /\ history' \in [until : [Addresses -> Nat], early : Nat]
      /\ history'.until = history.until /\ history'.early = f
  BY <1>1, <1>2, <1>3 DEF StakingSafe, StakingFields, Staking!LedgerCloses
<1>5. t + n + f >= t + e + d
  BY <1>3
<1>6. ASSUME NEW a \in Addresses
      PROVE  LockedUntil(store.stake[a], history.until[a], l + 1, t + n + f)
  <2>1. PICK s, h : s = store.stake[a] /\ h = history.until[a] /\ LockedUntil(s, h, l, t + e)
    BY <1>1 DEF StakingSafe
  <2>2. PICK m \in Int : m = l - s.stakeLedger - s.lockLedgers
    BY <2>1 DEF LockedUntil
  <2>3. l + 1 - s.stakeLedger - s.lockLedgers = m + 1
    BY <2>1, <2>2 DEF LockedUntil
  <2>4. Seconds(m) \in Int /\ Seconds(m + 1) = Seconds(m) + d
    BY <1>2, SecondsAddUp
  <2>5. h \in Nat /\ h + Seconds(m) <= t + e
    BY <2>1, <2>2 DEF LockedUntil
  <2>6. h + Seconds(m + 1) <= t + n + f
    BY <1>5, <2>4, <2>5
  <2> QED BY <2>1, <2>3, <2>6 DEF LockedUntil
<1>7. Seconds(l + 1) <= t + n + f
  <2>1. Seconds(l) \in Int /\ Seconds(l + 1) = Seconds(l) + d
    <3>1. PICK m \in Int : m = l
      BY <1>1
    <3>2. Seconds(m) \in Int /\ Seconds(m + 1) = Seconds(m) + d
      BY <1>2, SecondsAddUp
    <3> QED BY <3>1, <3>2
  <2>2. Seconds(l) <= t + e
    BY <1>1 DEF StakingSafe
  <2> QED BY <1>5, <2>1, <2>2
<1> QED BY <1>4, <1>6, <1>7 DEF StakingSafe

LEMMA StakingStep == StakingSafe /\ Staking!Next => StakingSafe'
<1> SUFFICES ASSUME StakingSafe, Staking!Next PROVE StakingSafe'
  OBVIOUS
<1>a. /\ DOMAIN store = StakingFields /\ store.tiers \in StakingTiers
      /\ now \in Nat /\ store.sequence \in Nat
      /\ history \in [until : [Addresses -> Nat], early : Nat]
      /\ DOMAIN store.stake = Addresses
      /\ \A a \in Addresses :
            LockedUntil(store.stake[a], history.until[a], store.sequence, now + history.early)
  BY DEF StakingSafe
<1>b. CASE /\ DOMAIN store' = DOMAIN store /\ store'.tiers \in StakingTiers
           /\ store'.stake = store.stake /\ store'.sequence = store.sequence
           /\ history' = history /\ now' = now
  BY <1>b DEF StakingSafe
\* Whoever leaves has nothing locked any more.
<1>c. ASSUME NEW a \in Addresses, now' = now, DOMAIN store' = DOMAIN store,
             store'.stake = [store.stake EXCEPT ![a] = Staking!NoStake],
             store'.tiers = store.tiers, store'.sequence = store.sequence,
             history' = [history EXCEPT !.until = [history.until EXCEPT ![a] = 0]]
      PROVE  StakingSafe'
  <2>1. LockedUntil(Staking!NoStake, 0, store.sequence, now + history.early)
    <3>1. PICK l \in Nat, t \in Nat : l = store.sequence /\ t = now + history.early
      BY <1>a
    <3>2. Seconds(l) <= t
      BY <3>1 DEF StakingSafe
    <3> QED BY <3>1, <3>2, NothingIsLocked
  <2> QED BY <1>c, <2>1, StakeBecomes
<1>1. ASSUME NEW a \in Addresses, Staking!Initialize(a)
      PROVE  StakingSafe'
  BY <1>1, <1>a, <1>b DEF Staking!Initialize, Staking!Call, StakingFields
<1>2. ASSUME NEW field, NEW value, Staking!Set(field, value),
             field \in {"tiers", "capacity", "pool", "recipient", "registry"},
             field = "tiers" => value \in StakingTiers
      PROVE  StakingSafe'
  <2>1. /\ store' = [store EXCEPT ![field] = value] /\ history' = history /\ now' = now
    BY <1>2 DEF Staking!Set, Staking!Call
  <2> QED BY <1>2, <1>a, <1>b, <2>1 DEF StakingFields
<1>3. ASSUME NEW a \in Addresses, NEW i \in DOMAIN store.tiers, NEW halted \in BOOLEAN,
             Staking!Stake(a, 1, i, halted)
      PROVE  StakingSafe'
  <2> DEFINE old == store.stake[a]
             s == [old EXCEPT !.amount = @ + 1, !.updated = now,
                              !.rewards = @ + Staking!Accrued(old)]
             lock == store.tiers[i].lock
             end == now + lock
             longer == [s EXCEPT !.lockEnd = end, !.multiplier = store.tiers[i].multiplier,
                                 !.stakeLedger = store.sequence,
                                 !.lockLedgers = Staking!Ledgers(lock)]
             new == IF end > s.lockEnd THEN longer ELSE s
             until == IF end > history.until[a] THEN end ELSE history.until[a]
  <2>1. /\ store'.stake = [store.stake EXCEPT ![a] = new] /\ store'.tiers = store.tiers
        /\ DOMAIN store' = DOMAIN store /\ now' = now /\ store'.sequence = store.sequence
        /\ history' = [history EXCEPT !.until = [history.until EXCEPT ![a] = until]]
    BY <1>3, <1>a DEF Staking!Stake, Staking!Call, StakingFields
  <2>2. LockedUntil(old, history.until[a], store.sequence, now + history.early) /\ lock \in Nat
    BY <1>a, LockAssumption
  <2>3. LockedUntil(s, history.until[a], store.sequence, now + history.early)
    BY <2>2 DEF LockedUntil, LockFields
  <2> HIDE DEF s, lock
  <2>4. LockedUntil(longer, end, store.sequence, now + history.early)
    <3>1. PICK n \in Nat : n = Staking!Ledgers(lock) /\ Seconds(n) >= lock
      BY <2>2, LedgersSuffice
    <3>2. PICK l \in Nat : l = store.sequence /\ l - l - n = -n
      BY <1>a
    <3>3. Seconds(-n) = -Seconds(n) /\ Seconds(n) \in Int
      BY SecondsAddUp
    <3>4. PICK t \in Nat : t = now /\ t \in Nat /\ end \in Nat /\ end = t + lock
      BY <1>a, <2>2
    <3>5. end + Seconds(-n) <= now + history.early
      BY <1>a, <2>2, <3>1, <3>3, <3>4
    <3>6. /\ DOMAIN longer = LockFields /\ longer.stakeLedger = l /\ longer.lockLedgers = n
          /\ longer.lockEnd = end
      BY <2>3, <3>1, <3>2 DEF LockedUntil, LockFields
    <3> HIDE DEF longer, end
    <3> QED BY <3>2, <3>4, <3>5, <3>6 DEF LockedUntil
  <2> HIDE DEF longer, end
  <2>5. LockedUntil(new, until, store.sequence, now + history.early)
    BY <2>3, <2>4 DEF LockedUntil
  <2> HIDE DEF new, until
  <2> QED BY <2>1, <2>5, StakeBecomes
<1>4. ASSUME NEW a \in Addresses, NEW halted, Staking!Withdraw(a, halted)
      PROVE  StakingSafe'
  <2>1. /\ store'.stake = [store.stake EXCEPT ![a] = Staking!NoStake] /\ now' = now
        /\ store'.tiers = store.tiers /\ DOMAIN store' = DOMAIN store
        /\ store'.sequence = store.sequence
        /\ history' = [history EXCEPT !.until = [history.until EXCEPT ![a] = 0]]
    BY <1>4, <1>a DEF Staking!Withdraw, Staking!Call, StakingFields
  <2> QED BY <1>c, <2>1
<1>5. ASSUME NEW a \in Addresses, Staking!EmergencyWithdraw(a)
      PROVE  StakingSafe'
  <2>1. /\ store'.stake = [store.stake EXCEPT ![a] = Staking!NoStake] /\ now' = now
        /\ store'.tiers = store.tiers /\ DOMAIN store' = DOMAIN store
        /\ store'.sequence = store.sequence
        /\ history' = [history EXCEPT !.until = [history.until EXCEPT ![a] = 0]]
    BY <1>5, <1>a DEF Staking!EmergencyWithdraw, Staking!Call, StakingFields
  <2> QED BY <1>c, <2>1
<1>6. ASSUME NEW a \in Addresses, NEW halted, Staking!ClaimRewards(a, halted)
      PROVE  StakingSafe'
  <2> DEFINE s == [store.stake[a] EXCEPT !.rewards = 0, !.updated = now]
  <2>1. /\ store'.stake = [store.stake EXCEPT ![a] = s] /\ store'.tiers = store.tiers
        /\ DOMAIN store' = DOMAIN store /\ now' = now /\ history' = history
        /\ store'.sequence = store.sequence
    BY <1>6, <1>a DEF Staking!ClaimRewards, Staking!Call, StakingFields
  <2>2. LockedUntil(s, history.until[a], store.sequence, now + history.early)
    BY <1>a DEF LockedUntil, LockFields
  <2> HIDE DEF s
  <2>3. history' = [history EXCEPT !.until = [history.until EXCEPT ![a] = history.until[a]]]
    <3>1. [history.until EXCEPT ![a] = history.until[a]] = history.until
      BY <1>a
    <3>2. history = [history EXCEPT !.until = history.until]
      BY <1>a
    <3> QED BY <2>1, <3>1, <3>2
  <2> QED BY <2>1, <2>2, <2>3, StakeBecomes
<1>7. CASE Staking!Fund
  BY <1>7, <1>a, <1>b DEF Staking!Fund, Staking!Call
<1>8. ASSUME NEW seconds \in CloseTimes, Staking!LedgerCloses(seconds)
      PROVE  StakingSafe'
  BY <1>8, LedgerIsCounted
<1> QED BY <1>1, <1>2, <1>3, <1>4, <1>5, <1>6, <1>7, <1>8 DEF Staking!Next

------------------------------------------------------------------------------
(* Grants that vest *)

GrantFair(g, n) == g.claimed <= Vesting!Vested(g) /\ g.total <= n

GrantsFair ==
    /\ history \in Seq(Nat) /\ Len(history) = Len(store.grants)
    /\ \A id \in 1 .. Len(store.grants) : GrantFair(store.grants[id], history[id])

\* Vested, at any time.
VestedAt(g, t) ==
    CASE g.revoked -> g.total
      [] ~g.revoked /\ t < g.start + g.cliff -> 0
      [] ~g.revoked /\ t >= g.start + g.cliff /\ t >= g.start + g.duration -> g.total
      [] OTHER -> (g.total * (t - g.start)) \div g.duration

LEMMA VestedIsPart ==
    ASSUME NEW g \in VestingGrant, NEW time \in Nat
    PROVE  VestedAt(g, time) \in Nat /\ VestedAt(g, time) <= g.total
<1>1. /\ g.total \in Nat /\ g.revoked \in BOOLEAN /\ g.start \in Nat
      /\ g.cliff \in Nat /\ g.duration \in Nat \ {0}
  BY DEF VestingGrant
<1>2. CASE g.revoked \/ time < g.start + g.cliff
  BY <1>1, <1>2 DEF VestedAt
<1>3. CASE ~g.revoked /\ ~(time < g.start + g.cliff)
  <2>1. time >= g.start + g.cliff
    BY <1>1, <1>3
  <2>2. CASE time >= g.start + g.duration
    BY <1>1, <1>3, <2>1, <2>2 DEF VestedAt
  <2>3. CASE ~(time >= g.start + g.duration)
    <3>1. PICK t \in Nat : t = time - g.start /\ t <= g.duration
      BY <1>1, <2>1, <2>3
    <3>2. PICK total \in Nat, d \in Nat \ {0} : total = g.total /\ d = g.duration
      BY <1>1
    <3>3. VestedAt(g, time) = (total * t) \div d
      BY <1>3, <2>1, <2>3, <3>1, <3>2 DEF VestedAt
    <3>4. (total * t) \div d \in Nat /\ (total * t) \div d <= total
      BY <3>1, <3>2, LinearSchedule
    <3> QED BY <3>2, <3>3, <3>4
  <2> QED BY <2>2, <2>3
<1> QED BY <1>2, <1>3

LEMMA VestedNow == \A g : Vesting!Vested(g) = VestedAt(g, now)
  BY DEF Vesting!Vested, VestedAt

LEMMA VestedNext == \A g : Vesting!Vested(g)' = VestedAt(g, now')
  BY DEF Vesting!Vested, VestedAt

LEMMA GrantsStart == Vesting!Init => GrantsFair
<1> SUFFICES ASSUME Vesting!Init PROVE GrantsFair
  OBVIOUS
<1>1. store.grants = <<>> /\ history = <<>>
  BY DEF Vesting!Init
<1> QED BY <1>1 DEF GrantsFair

LEMMA GrantsAreFair == VestingSafe /\ GrantsFair => Vesting!ClaimedIsVested
<1> SUFFICES ASSUME VestingSafe, GrantsFair, NEW id \in DOMAIN store.grants
             PROVE  /\ store.grants[id].claimed <= Vesting!Vested(store.grants[id])
                    /\ Vesting!Vested(store.grants[id]) <= history[id]
  BY DEF Vesting!ClaimedIsVested
<1>1. id \in 1 .. Len(store.grants)
  BY GrantIds
<1>2. PICK g \in VestingGrant : g = store.grants[id]
  BY DEF VestingSafe
<1>3. GrantFair(g, history[id]) /\ history[id] \in Nat
  BY <1>1, <1>2 DEF GrantsFair
<1>4. Vesting!Vested(g) \in Nat /\ Vesting!Vested(g) <= g.total /\ g.total \in Nat
  BY VestedNow, VestedIsPart DEF VestingSafe, VestingGrant
<1> QED BY <1>2, <1>3, <1>4 DEF GrantFair

LEMMA GrantsStep == VestingSafe /\ GrantsFair /\ Vesting!Next => GrantsFair'
<1> SUFFICES ASSUME VestingSafe, GrantsFair, Vesting!Next PROVE GrantsFair'
  OBVIOUS
<1> DEFINE n == Len(store.grants)
<1>a. /\ store \in [admin : Somebody, grants : Seq(VestingGrant)] /\ now \in Nat
      /\ store.grants \in Seq(VestingGrant) /\ n \in Nat /\ DOMAIN store.grants = 1 .. n
      /\ history \in Seq(Nat) /\ Len(history) = n
  BY DEF VestingSafe, GrantsFair
<1>b. \A id \in 1 .. n : Vesting!Vested(store.grants[id]) <= Vesting!Vested(store.grants[id])'
  BY <1>a, VestedStay DEF Vesting!VestedStaysStep
<1>c. \A id \in 1 .. n :
          /\ store.grants[id] \in VestingGrant /\ history[id] \in Nat
          /\ store.grants[id].claimed \in Nat /\ store.grants[id].total \in Nat
          /\ Vesting!Vested(store.grants[id]) \in Nat
          /\ Vesting!Vested(store.grants[id]) <= store.grants[id].total
          /\ GrantFair(store.grants[id], history[id])
  <2> TAKE id \in 1 .. n
  <2>1. PICK g \in VestingGrant : g = store.grants[id]
    BY <1>a
  <2>2. Vesting!Vested(g) \in Nat /\ Vesting!Vested(g) <= g.total
    BY <1>a, VestedNow, VestedIsPart
  <2>3. g.claimed \in Nat /\ g.total \in Nat
    BY DEF VestingGrant
  <2> QED BY <1>a, <2>1, <2>2, <2>3 DEF GrantsFair
<1>d. VestingSafe'
  BY VestingStep
<1>e. now' \in Nat /\ store'.grants \in Seq(VestingGrant)
  BY <1>d DEF VestingSafe
\* A grant may have claimed what had vested, and its total may have become that.
<1>f. ASSUME NEW id \in 1 .. n, Len(store'.grants) >= n, history'[id] = history[id],
             \/ store'.grants[id].claimed = store.grants[id].claimed
             \/ store'.grants[id].claimed = Vesting!Vested(store.grants[id]),
             \/ store'.grants[id].total = store.grants[id].total
             \/ store'.grants[id].total = Vesting!Vested(store.grants[id])
      PROVE  GrantFair(store.grants[id], history[id])'
  <2>1. /\ Vesting!Vested(store.grants[id]) <= Vesting!Vested(store.grants[id])'
        /\ store.grants[id].claimed <= Vesting!Vested(store.grants[id])
        /\ store.grants[id].total <= history[id]
    BY <1>b, <1>c DEF GrantFair
  <2>2. PICK h \in VestingGrant : h = store'.grants[id]
    BY <1>e, <1>f
  <2>3. Vesting!Vested(store.grants[id])' \in Nat
    <3>1. Vesting!Vested(h)' \in Nat
      BY <1>e, VestedNext, VestedIsPart
    <3>2. Vesting!Vested(store.grants[id])' = Vesting!Vested(h)'
      BY <2>2 DEF Vesting!Vested
    <3> QED BY <3>1, <3>2
  <2>4. /\ store'.grants[id].claimed <= Vesting!Vested(store.grants[id])'
        /\ store'.grants[id].total <= history'[id]
    BY <1>c, <1>f, <2>1, <2>3
  <2> QED BY <2>4 DEF GrantFair
\* No grant comes or goes, and each of those that are there may change so.
<1>g. ASSUME Len(store'.grants) = n, history' = history,
             \A id \in 1 .. n :
                 /\ \/ store'.grants[id].claimed = store.grants[id].claimed
                    \/ store'.grants[id].claimed = Vesting!Vested(store.grants[id])
                 /\ \/ store'.grants[id].total = store.grants[id].total
                    \/ store'.grants[id].total = Vesting!Vested(store.grants[id])
      PROVE  GrantsFair'
  <2>1. \A id \in 1 .. n : GrantFair(store.grants[id], history[id])'
    BY <1>a, <1>f, <1>g
  <2> QED BY <1>a, <1>g, <2>1 DEF GrantsFair
<1>1. ASSUME NEW a, Vesting!Initialize(a) \/ Vesting!SetAdmin(a)
      PROVE  GrantsFair'
  <2>1. store'.grants = store.grants /\ history' = history
    BY <1>1, <1>a DEF Vesting!Initialize, Vesting!SetAdmin
  <2> QED BY <1>g, <2>1
<1>2. CASE Vesting!TimePasses
  BY <1>2, <1>g DEF Vesting!TimePasses
<1>3. ASSUME NEW id \in DOMAIN store.grants, Vesting!Claim(id)
      PROVE  GrantsFair'
  <2> DEFINE g == store.grants[id]
             h == [g EXCEPT !.claimed = g.claimed + (Vesting!Vested(g) - g.claimed)]
  <2>1. history' = history /\ store' = [store EXCEPT !.grants = [store.grants EXCEPT ![id] = h]]
    BY <1>3 DEF Vesting!Claim, Vesting!SetGrant
  <2>2. h.total = g.total /\ h.claimed = Vesting!Vested(g)
    <3>1. g \in VestingGrant
      BY <1>a
    <3>2. g.claimed + (Vesting!Vested(g) - g.claimed) = Vesting!Vested(g)
      BY <1>a, <1>c
    <3> HIDE DEF g
    <3> QED BY <3>1, <3>2 DEF VestingGrant
  <2> HIDE DEF h
  <2>3. /\ store'.grants[id] = h /\ Len(store'.grants) = n
        /\ \A i \in 1 .. n : i # id => store'.grants[i] = store.grants[i]
    BY <1>a, <2>1
  <2> QED BY <1>g, <2>1, <2>2, <2>3
<1>4. ASSUME NEW id \in DOMAIN store.grants, Vesting!RevokeGrant(id)
      PROVE  GrantsFair'
  <2> DEFINE g == store.grants[id]
             h == [g EXCEPT !.total = Vesting!Vested(g), !.revoked = TRUE]
  <2>1. history' = history /\ store' = [store EXCEPT !.grants = [store.grants EXCEPT ![id] = h]]
    BY <1>4 DEF Vesting!RevokeGrant, Vesting!SetGrant
  <2>2. h.total = Vesting!Vested(g) /\ h.claimed = g.claimed
    <3>1. g \in VestingGrant
      BY <1>a
    <3> HIDE DEF g
    <3> QED BY <3>1 DEF VestingGrant
  <2> HIDE DEF h
  <2>3. /\ store'.grants[id] = h /\ Len(store'.grants) = n
        /\ \A i \in 1 .. n : i # id => store'.grants[i] = store.grants[i]
    BY <1>a, <2>1
  <2> QED BY <1>g, <2>1, <2>2, <2>3
<1>5. ASSUME NEW amount \in {1, GrantAmount}, NEW s \in Schedules, NEW revocable \in BOOLEAN,
             Vesting!CreateGrant(amount, s, revocable)
      PROVE  GrantsFair'
  <2> DEFINE g == [total |-> amount, claimed |-> 0, start |-> s.start,
                   cliff |-> s.cliff, duration |-> s.duration,
                   revocable |-> revocable, revoked |-> FALSE]
  <2>1. /\ store' = [store EXCEPT !.grants = Append(store.grants, g)]
        /\ history' = Append(history, amount)
    BY <1>5 DEF Vesting!CreateGrant
  <2>2. g.claimed = 0 /\ g.total = amount /\ amount \in Nat
    BY VestingAssumption
  <2> HIDE DEF g
  <2>3. /\ Len(store'.grants) = n + 1 /\ store'.grants[n + 1] = g
        /\ \A i \in 1 .. n : store'.grants[i] = store.grants[i]
        /\ history' \in Seq(Nat) /\ Len(history') = n + 1 /\ history'[n + 1] = amount
        /\ \A i \in 1 .. n : history'[i] = history[i]
    BY <1>a, <2>1, <2>2
  <2>4. \A i \in 1 .. n : GrantFair(store.grants[i], history[i])'
    <3>1. Len(store'.grants) >= n
      BY <1>a, <2>3
    <3> QED BY <1>f, <2>3, <3>1
  <2>5. PICK k \in Nat : k = n + 1
    BY <1>a
  <2>8. GrantFair(store.grants[k], history[k])'
    <3>1. store'.grants[k] \in VestingGrant
      BY <1>a, <1>e, <2>3, <2>5
    <3>2. PICK h \in VestingGrant : h = store'.grants[k]
      BY <3>1
    <3>3. VestedAt(h, now') \in Nat /\ Vesting!Vested(store.grants[k])' = VestedAt(h, now')
      BY <1>e, <3>2, VestedNext, VestedIsPart DEF Vesting!Vested, VestedAt
    <3>4. h.claimed = 0 /\ h.total = amount /\ history'[k] = amount
      BY <2>2, <2>3, <2>5, <3>2
    <3> QED BY <2>2, <3>2, <3>3, <3>4 DEF GrantFair
  <2>6. \A i \in 1 .. n + 1 : i \in 1 .. n \/ i = n + 1
    BY <1>a
  <2> HIDE DEF n
  <2>7. \A i \in 1 .. n + 1 : GrantFair(store.grants[i], history[i])'
    BY <2>4, <2>5, <2>6, <2>8
  <2> QED BY <2>3, <2>7 DEF GrantsFair
<1> QED BY <1>1, <1>2, <1>3, <1>4, <1>5 DEF Vesting!Next

------------------------------------------------------------------------------
(* Snapshots of the stakes *)

\* A user's checkpoints c, of which the last is that of epoch last, are what the user had
\* at the end of the epochs up to e, which is h: the last one stands for all since.
Recorded(c, last, h, e) ==
    /\ c \in [Snapshot!Epochs -> Nat \cup {-1}] /\ h \in [Snapshot!Epochs -> Nat]
    /\ last \in Snapshot!Epochs \cup {-1} /\ last <= e
    /\ \A i \in Snapshot!Epochs : i > last => c[i] = -1
    /\ last = -1 => \A i \in Snapshot!Epochs : i <= e => h[i] = 0
    /\ last # -1 => c[last] # -1 /\ \A i \in Snapshot!Epochs : last <= i /\ i <= e => h[i] = c[last]

StakedOf(h, e) == [a \in Addresses |-> h[a][e]]

SnapshotFields ==
    {"epoch", "registry", "totalStaked", "snapshots", "epochTotal", "checkpoint", "lastEpoch"}

\* What all have staked at the end of epoch e and the total counts.
CountedOf(h, e) == SumOver(StakedOf(h.staked, e), Addresses) - h.forgotten

SnapshotSafe ==
    /\ DOMAIN store = SnapshotFields
    /\ store.epoch \in Snapshot!Epochs \cup {-1}
    /\ DOMAIN store.checkpoint = Addresses /\ DOMAIN store.lastEpoch = Addresses
    /\ DOMAIN history = {"staked", "forgotten"} /\ DOMAIN history.staked = Addresses
    /\ history.forgotten \in Nat /\ (store.epoch = -1 => history.forgotten = 0)
    /\ DOMAIN store.epochTotal = Snapshot!Epochs
    /\ \A a \in Addresses : Recorded(store.checkpoint[a], store.lastEpoch[a],
                                     history.staked[a], Snapshot!CurrentEpoch)
    /\ store.totalStaked = CountedOf(history, Snapshot!CurrentEpoch)
    /\ \A e \in Snapshot!Epochs :
          e < Snapshot!CurrentEpoch => store.epochTotal[e] = CountedOf(history, e)

LEMMA EpochsAreNumbers == Snapshot!Epochs = 0 .. LastEpoch /\ LastEpoch \in Nat
  BY SnapshotAssumption DEF Snapshot!Epochs

LEMMA LastStands ==
    ASSUME NEW c, NEW last, NEW h, NEW e \in Int, Recorded(c, last, h, e),
           NEW i \in Snapshot!Epochs, last <= i, i <= e
    PROVE  h[i] = IF c[i] # -1 THEN c[i] ELSE IF last = -1 \/ last > i THEN 0 ELSE c[last]
  BY EpochsAreNumbers DEF Recorded

LEMMA EpochAdvances ==
    ASSUME NEW c, NEW last, NEW h, NEW e \in Snapshot!Epochs, Recorded(c, last, h, e),
           e + 1 \in Snapshot!Epochs
    PROVE  Recorded(c, last, [h EXCEPT ![e + 1] = h[e]], e + 1)
  BY EpochsAreNumbers DEF Recorded

LEMMA CheckpointIsLast ==
    ASSUME NEW c, NEW last, NEW h, NEW e \in Snapshot!Epochs, Recorded(c, last, h, e),
           NEW n \in Nat
    PROVE  Recorded([c EXCEPT ![e] = n], e, [h EXCEPT ![e] = n], e)
  BY EpochsAreNumbers DEF Recorded

LEMMA StakesHaveSum ==
    ASSUME NEW h, NEW e \in Snapshot!Epochs, \A a \in Addresses : h[a] \in [Snapshot!Epochs -> Nat]
    PROVE  SumOver(StakedOf(h, e), Addresses) \in Nat
  BY UsersAssumption, SumOfNumbers DEF StakedOf

LEMMA SnapshotInit == Snapshot!Init => SnapshotSafe
<1> SUFFICES ASSUME Snapshot!Init PROVE SnapshotSafe
  OBVIOUS
<1>1. /\ DOMAIN store = SnapshotFields /\ store.epoch = -1 /\ store.totalStaked = 0
      /\ store.checkpoint = [a \in Addresses |-> [e \in Snapshot!Epochs |-> -1]]
      /\ store.lastEpoch = [a \in Addresses |-> -1]
      /\ DOMAIN store.epochTotal = Snapshot!Epochs
      /\ history = [staked |-> [a \in Addresses |-> [e \in Snapshot!Epochs |-> 0]], forgotten |-> 0]
  BY DEF Snapshot!Init, Snapshot!Absent, SnapshotFields
<1>2. Snapshot!CurrentEpoch = 0
  BY <1>1 DEF Snapshot!CurrentEpoch, Snapshot!Absent
<1>3. \A a \in Addresses : Recorded(store.checkpoint[a], store.lastEpoch[a], history.staked[a], 0)
  <2> DEFINE none == [e \in Snapshot!Epochs |-> -1]
             zero == [e \in Snapshot!Epochs |-> 0]
  <2>1. Recorded(none, -1, zero, 0)
    BY DEF Recorded
  <2> QED BY <1>1, <2>1
<1>4. \A e \in Snapshot!Epochs : ~(e < 0)
  BY EpochsAreNumbers
<1>5. CountedOf(history, 0) = 0
  <2>1. StakedOf(history.staked, 0) = [a \in Addresses |-> 0]
    BY <1>1, EpochsAreNumbers DEF StakedOf
  <2> QED BY <1>1, <2>1, NoBalances DEF CountedOf
<1> QED BY <1>1, <1>2, <1>3, <1>4, <1>5 DEF SnapshotSafe

LEMMA SharesOfEpoch == SnapshotSafe => Snapshot!SharesAreOfTheEpoch
<1> SUFFICES ASSUME SnapshotSafe, NEW e \in Snapshot!Epochs, e < store.epoch
             PROVE  /\ store.epochTotal[e] = Snapshot!StakedAt(e) - history.forgotten
                    /\ \A a \in Addresses : store.lastEpoch[a] <= e =>
                           Snapshot!BalanceAt(a, e) = history.staked[a][e]
  BY DEF Snapshot!SharesAreOfTheEpoch
<1>1. Snapshot!StakedAt(e) = SumOver(StakedOf(history.staked, e), Addresses)
  BY DEF Snapshot!StakedAt, Snapshot!MapThenSumSet, Snapshot!MapThenFoldSet, StakedOf,
     SumOver, Sums, SumRule, AnyOf
<1>2. store.epoch \in Snapshot!Epochs /\ Snapshot!CurrentEpoch = store.epoch
  BY EpochsAreNumbers DEF SnapshotSafe, Snapshot!CurrentEpoch, Snapshot!Absent
<1>3. ASSUME NEW a \in Addresses, store.lastEpoch[a] <= e
      PROVE  Snapshot!BalanceAt(a, e) = history.staked[a][e]
  <2>1. /\ Recorded(store.checkpoint[a], store.lastEpoch[a], history.staked[a], store.epoch)
        /\ store.epoch \in Int /\ e <= store.epoch
    BY <1>2, EpochsAreNumbers DEF SnapshotSafe
  <2> QED BY <1>3, <2>1, LastStands DEF Snapshot!BalanceAt, Snapshot!Absent
<1> QED BY <1>1, <1>2, <1>3 DEF SnapshotSafe, CountedOf

LEMMA SnapshotStep == SnapshotSafe /\ Snapshot!Next => SnapshotSafe'
<1> SUFFICES ASSUME SnapshotSafe, Snapshot!Next PROVE SnapshotSafe'
  OBVIOUS
<1> USE DEF SnapshotFields
<1> DEFINE s == history.staked
<1>a. /\ DOMAIN store = SnapshotFields /\ store.epoch \in Snapshot!Epochs \cup {-1}
      /\ DOMAIN store.checkpoint = Addresses /\ DOMAIN store.lastEpoch = Addresses
      /\ DOMAIN history = {"staked", "forgotten"} /\ DOMAIN s = Addresses
      /\ history.forgotten \in Nat /\ (store.epoch = -1 => history.forgotten = 0)
      /\ DOMAIN store.epochTotal = Snapshot!Epochs
  BY DEF SnapshotSafe
<1>b. PICK e \in Snapshot!Epochs : e = Snapshot!CurrentEpoch /\ e # -1
  BY <1>a, EpochsAreNumbers DEF Snapshot!CurrentEpoch, Snapshot!Absent
<1>c. /\ \A a \in Addresses : Recorded(store.checkpoint[a], store.lastEpoch[a], s[a], e)
      /\ store.totalStaked = CountedOf(history, e)
      /\ \A i \in Snapshot!Epochs : i < e => store.epochTotal[i] = CountedOf(history, i)
  BY <1>b DEF SnapshotSafe
<1>d. \A a \in Addresses : s[a] \in [Snapshot!Epochs -> Nat]
  BY <1>c DEF Recorded
<1>e. store.epoch \in {-1, e} /\ (store.epoch = -1 => e = 0)
  BY <1>a, <1>b DEF Snapshot!CurrentEpoch, Snapshot!Absent
<1>1. CASE Snapshot!Initialize
  <2>1. /\ store.epoch = -1 /\ store' = [store EXCEPT !.epoch = 0, !.totalStaked = 0]
        /\ history' = [history EXCEPT !.forgotten = store.totalStaked]
    BY <1>1 DEF Snapshot!Initialize, Snapshot!Absent
  <2>2. PICK n \in Nat : n = SumOver(StakedOf(s, 0), Addresses)
    BY <1>b, <1>d, <1>e, <2>1, StakesHaveSum
  <2>3. /\ history'.staked = s /\ history'.forgotten = n
        /\ DOMAIN history' = {"staked", "forgotten"}
    BY <1>a, <1>c, <1>e, <2>1, <2>2 DEF CountedOf
  <2>4. Snapshot!CurrentEpoch' = 0
    BY <1>a, <2>1 DEF Snapshot!CurrentEpoch, Snapshot!Absent
  <2>5. CountedOf(history', 0) = 0
    BY <2>2, <2>3 DEF CountedOf
  <2>6. \A i \in Snapshot!Epochs : ~(i < 0)
    BY EpochsAreNumbers
  <2>7. 0 \in Snapshot!Epochs /\ e = 0
    BY <1>e, <2>1, <1>b
  <2>8. /\ DOMAIN store' = SnapshotFields /\ store'.epoch = 0 /\ store'.totalStaked = 0
        /\ store'.checkpoint = store.checkpoint /\ store'.lastEpoch = store.lastEpoch
        /\ store'.epochTotal = store.epochTotal
    BY <1>a, <2>1
  <2> QED BY <1>a, <1>c, <2>3, <2>4, <2>5, <2>6, <2>7, <2>8 DEF SnapshotSafe
<1>2. CASE Snapshot!SetSecurityRegistry
  BY <1>2, <1>a
  DEF SnapshotSafe, Snapshot!SetSecurityRegistry, Snapshot!CurrentEpoch, CountedOf, StakedOf
<1>3. ASSUME NEW i, Snapshot!RecordEpochSnapshot(i)
      PROVE  SnapshotSafe'
  BY <1>3, <1>a
  DEF SnapshotSafe, Snapshot!RecordEpochSnapshot, Snapshot!CurrentEpoch, CountedOf, StakedOf
<1>4. CASE Snapshot!AdvanceEpoch
  <2> DEFINE t == [a \in Addresses |-> [s[a] EXCEPT ![e + 1] = s[a][e]]]
  <2>1. /\ e < LastEpoch
        /\ store' = [store EXCEPT !.epoch = e + 1,
                        !.epochTotal = [store.epochTotal EXCEPT ![e] = store.totalStaked],
                        !.snapshots = store.snapshots \cup {e}]
        /\ history' = [history EXCEPT !.staked = t]
    BY <1>4, <1>b DEF Snapshot!AdvanceEpoch
  <2>2. /\ history'.staked = t /\ history'.forgotten = history.forgotten
        /\ DOMAIN history' = {"staked", "forgotten"} /\ DOMAIN history'.staked = Addresses
    BY <1>a, <2>1
  <2>3. e \in Nat /\ e + 1 \in Snapshot!Epochs /\ e + 1 # -1
    BY <2>1, EpochsAreNumbers
  <2>4. \A a \in Addresses : Recorded(store.checkpoint[a], store.lastEpoch[a], t[a], e + 1)
    BY <1>c, <2>3, EpochAdvances
  <2>5. \A i \in Snapshot!Epochs : i <= e => StakedOf(t, i) = StakedOf(s, i)
    <3> SUFFICES ASSUME NEW i \in Snapshot!Epochs, i <= e, NEW a \in Addresses
                 PROVE  t[a][i] = s[a][i]
      BY DEF StakedOf
    <3>1. s[a] \in [Snapshot!Epochs -> Nat] /\ i # e + 1
      BY <1>d, <2>3, EpochsAreNumbers
    <3> QED BY <3>1
  <2>6. StakedOf(t, e + 1) = StakedOf(s, e)
    BY <1>d, <2>3 DEF StakedOf
  <2>7. /\ \A i \in Snapshot!Epochs : i <= e => CountedOf(history', i) = CountedOf(history, i)
        /\ CountedOf(history', e + 1) = CountedOf(history, e)
    BY <2>2, <2>5, <2>6 DEF CountedOf
  <2> HIDE DEF t
  <2>8. /\ DOMAIN store' = SnapshotFields /\ store'.epoch = e + 1
        /\ store'.totalStaked = store.totalStaked /\ store'.checkpoint = store.checkpoint
        /\ store'.lastEpoch = store.lastEpoch /\ DOMAIN store'.epochTotal = Snapshot!Epochs
        /\ \A i \in Snapshot!Epochs : store'.epochTotal[i]
               = IF i = e THEN store.totalStaked ELSE store.epochTotal[i]
    BY <1>a, <2>1
  <2>9. Snapshot!CurrentEpoch' = e + 1
    BY <2>3, <2>8 DEF Snapshot!CurrentEpoch, Snapshot!Absent
  <2>10. \A i \in Snapshot!Epochs :
            i < e + 1 => store'.epochTotal[i] = CountedOf(history', i)
    <3> SUFFICES ASSUME NEW i \in Snapshot!Epochs, i < e + 1
                 PROVE  store'.epochTotal[i] = CountedOf(history', i)
      OBVIOUS
    <3>1. i <= e /\ (i = e \/ i < e)
      BY <2>3, EpochsAreNumbers
    <3> QED BY <1>c, <2>7, <2>8, <3>1
  <2>11. store'.totalStaked = CountedOf(history', e + 1)
    BY <1>c, <2>7, <2>8
  <2> QED BY <1>a, <2>2, <2>3, <2>4, <2>8, <2>9, <2>10, <2>11 DEF SnapshotSafe
\* The stake of one user becomes n, and is recorded under the open epoch.
<1>5. ASSUME NEW a \in Addresses, NEW n \in Nat,
             store' = [store EXCEPT
                 !.checkpoint = [store.checkpoint EXCEPT ![a] = [store.checkpoint[a] EXCEPT ![e] = n]],
                 !.lastEpoch = [store.lastEpoch EXCEPT ![a] = e],
                 !.totalStaked = store.totalStaked + n - s[a][e]],
             history' = [history EXCEPT !.staked = [s EXCEPT ![a] = [s[a] EXCEPT ![e] = n]]]
      PROVE  SnapshotSafe'
  <2> DEFINE t == [s EXCEPT ![a] = [s[a] EXCEPT ![e] = n]]
  <2>1. /\ history'.staked = t /\ history'.forgotten = history.forgotten
        /\ DOMAIN history' = {"staked", "forgotten"} /\ DOMAIN t = Addresses
    BY <1>a, <1>5
  <2>2. \A b \in Addresses : Recorded(store'.checkpoint[b], store'.lastEpoch[b], t[b], e)
    <3>1. Recorded(store'.checkpoint[a], store'.lastEpoch[a], t[a], e)
      BY <1>a, <1>c, <1>5, CheckpointIsLast
    <3>2. \A b \in Addresses \ {a} : Recorded(store'.checkpoint[b], store'.lastEpoch[b], t[b], e)
      BY <1>a, <1>c, <1>5
    <3> QED BY <3>1, <3>2
  <2>4. \A i \in Snapshot!Epochs : i # e => StakedOf(t, i) = StakedOf(s, i)
    BY <1>a, <1>d DEF StakedOf
  <2> DEFINE staked == StakedOf(s, e)
  <2>5. /\ StakedOf(t, e) = [staked EXCEPT ![a] = n]
        /\ staked \in [Addresses -> Nat] /\ staked[a] = s[a][e]
    BY <1>a, <1>d DEF StakedOf
  <2>6. PICK b \in [Addresses -> Nat] : b = staked
    BY <2>5
  <2> HIDE DEF staked, t
  <2>7. /\ SumOver(StakedOf(t, e), Addresses) = SumOver(staked, Addresses) + n - s[a][e]
        /\ SumOver(staked, Addresses) \in Nat /\ s[a][e] \in Nat
    <3>1. PICK c : BalanceBecomes(c, b, a, n) /\ c = StakedOf(t, e)
      BY <2>5, <2>6 DEF BalanceBecomes
    <3>2. /\ SumOver(c, Addresses) = SumOver(b, Addresses) + n - b[a]
          /\ SumOver(b, Addresses) \in Nat
      BY <3>1, BalanceIs
    <3> QED BY <2>5, <2>6, <3>1, <3>2
  <2>8. store.totalStaked = SumOver(staked, Addresses) - history.forgotten
    BY <1>c DEF staked, CountedOf
  <2>9. /\ DOMAIN store' = SnapshotFields /\ store'.epoch = store.epoch
        /\ store'.totalStaked = store.totalStaked + n - s[a][e]
        /\ DOMAIN store'.checkpoint = Addresses /\ DOMAIN store'.lastEpoch = Addresses
        /\ store'.epochTotal = store.epochTotal
    BY <1>a, <1>5
  <2>10. Snapshot!CurrentEpoch' = e
    BY <1>b, <2>9 DEF Snapshot!CurrentEpoch
  <2>11. \A i \in Snapshot!Epochs : i < e => CountedOf(history', i) = CountedOf(history, i)
    BY <2>1, <2>4, EpochsAreNumbers DEF CountedOf
  <2>12. store'.totalStaked = CountedOf(history', e)
    BY <1>a, <2>1, <2>7, <2>8, <2>9 DEF CountedOf
  <2> QED BY <1>a, <1>c, <2>1, <2>2, <2>9, <2>10, <2>11, <2>12 DEF SnapshotSafe
<1>6. ASSUME NEW a \in Addresses, NEW amount \in {1, 2}, NEW halted,
             Snapshot!Stake(a, amount, halted) \/ Snapshot!Unstake(a, amount, halted)
      PROVE  SnapshotSafe'
  <2>1. PICK prev \in Nat : prev = s[a][e] /\ prev = Snapshot!BalanceAt(a, e)
    <3>1. /\ Recorded(store.checkpoint[a], store.lastEpoch[a], s[a], e)
          /\ e \in Int /\ e <= e
      BY <1>c, EpochsAreNumbers
    <3>2. store.lastEpoch[a] <= e /\ s[a][e] \in Nat
      BY <3>1 DEF Recorded
    <3>3. Snapshot!BalanceAt(a, e) = s[a][e]
      BY <3>1, <3>2, LastStands DEF Snapshot!BalanceAt, Snapshot!Absent
    <3> QED BY <3>2, <3>3
  <2>2. store.totalStaked \in Int
    BY <1>a, <1>c, <1>d, StakesHaveSum DEF CountedOf
  <2>3. PICK n \in Nat, total \in Int : /\ total = store.totalStaked + n - prev
            /\ store' = [[store EXCEPT !.checkpoint[a][e] = n, !.lastEpoch[a] = e]
                             EXCEPT !.totalStaked = total]
            /\ history' = [history EXCEPT !.staked[a][e] = n]
    <3>1. CASE Snapshot!Stake(a, amount, halted)
      <4>1. /\ prev + amount \in Nat
            /\ store.totalStaked + amount \in Int
            /\ store.totalStaked + amount = store.totalStaked + (prev + amount) - prev
        BY <2>2
      <4>2. /\ store' = [[store EXCEPT !.checkpoint[a][e] = prev + amount, !.lastEpoch[a] = e]
                             EXCEPT !.totalStaked = store.totalStaked + amount]
            /\ history' = [history EXCEPT !.staked[a][e] = prev + amount]
        BY <3>1, <1>b, <2>1, <1>a DEF Snapshot!Stake, Snapshot!Checkpoint
      <4> QED BY <4>1, <4>2
    <3>2. CASE Snapshot!Unstake(a, amount, halted)
      <4>1. prev >= amount
        BY <3>2, <1>b, <2>1 DEF Snapshot!Unstake
      <4>2. /\ prev - amount \in Nat
            /\ store.totalStaked - amount \in Int
            /\ store.totalStaked - amount = store.totalStaked + (prev - amount) - prev
        BY <2>2, <4>1
      <4>3. /\ store' = [[store EXCEPT !.checkpoint[a][e] = prev - amount, !.lastEpoch[a] = e]
                             EXCEPT !.totalStaked = store.totalStaked - amount]
            /\ history' = [history EXCEPT !.staked[a][e] = prev - amount]
        BY <3>2, <1>b, <2>1, <1>a DEF Snapshot!Unstake, Snapshot!Checkpoint
      <4> QED BY <4>2, <4>3
    <3> QED BY <1>6, <3>1, <3>2
  <2>4. /\ store' = [store EXCEPT
                 !.checkpoint = [store.checkpoint EXCEPT ![a] = [store.checkpoint[a] EXCEPT ![e] = n]],
                 !.lastEpoch = [store.lastEpoch EXCEPT ![a] = e],
                 !.totalStaked = store.totalStaked + n - s[a][e]]
        /\ history' = [history EXCEPT !.staked = [s EXCEPT ![a] = [s[a] EXCEPT ![e] = n]]]
    BY <1>a, <2>1, <2>3
  <2> QED BY <1>5, <2>4
<1> QED BY <1>1, <1>2, <1>3, <1>4, <1>6 DEF Snapshot!Next

------------------------------------------------------------------------------
(* Rewards by the stake of the moment *)

YieldUser == [stake : Nat, paid : Nat, rewards : Nat]

\* What was settled for a user and what accrued since, unrounded, has been gained.
Gained(u, perToken, gained) ==
    /\ u \in YieldUser /\ u.paid <= perToken /\ gained \in Nat
    /\ u.rewards * YieldPrecision + u.stake * (perToken - u.paid) <= gained

YieldFields == {"admin", "registry", "total", "perToken", "user"}

YieldSafe ==
    /\ DOMAIN store = YieldFields /\ DOMAIN store.user = Addresses
    /\ store.total \in Nat /\ store.perToken \in Nat
    /\ held \in [{"stake", "reward"} -> Nat]
    /\ DOMAIN history = {"deposits", "gained"} /\ history.gained \in [Addresses -> Nat]
    /\ \A a \in Addresses : Gained(store.user[a], store.perToken, history.gained[a])
    /\ store.total = held.stake /\ held.stake = SumOver(Yield!Stakes, Addresses)
    /\ SumOver(history.gained, Addresses) <= held.reward * YieldPrecision

LEMMA EarnedIsGained ==
    ASSUME NEW u, NEW gained, store.perToken \in Nat, Gained(u, store.perToken, gained)
    PROVE  /\ Yield!Earned(u) \in Nat /\ u.rewards + Yield!Earned(u) \in Nat
           /\ (u.rewards + Yield!Earned(u)) * YieldPrecision <= gained
<1>1. PICK stake \in Nat, paid \in Nat, rewards \in Nat, p \in Nat :
          stake = u.stake /\ paid = u.paid /\ rewards = u.rewards /\ p = store.perToken
  BY DEF Gained, YieldUser
<1>2. PICK since \in Nat : since = p - paid
  BY <1>1 DEF Gained
<1>3. PICK x \in Nat, unit \in Nat \ {0} : x = stake * since /\ unit = YieldPrecision
  BY YieldAssumption
<1>4. PICK q \in Nat : q = x \div unit
  OBVIOUS
<1>5. unit * q <= x
  BY <1>4
<1>6. Yield!Earned(u) = q
  BY <1>1, <1>2, <1>3, <1>4 DEF Yield!Earned
<1>7. rewards * unit + x <= gained /\ gained \in Nat
  BY <1>1, <1>2, <1>3 DEF Gained
<1>8. (rewards + q) * unit = rewards * unit + unit * q /\ unit * q \in Int /\ rewards * unit \in Int
  OBVIOUS
<1> QED BY <1>1, <1>3, <1>5, <1>6, <1>7, <1>8

LEMMA YieldInit == Yield!Init => YieldSafe
<1> SUFFICES ASSUME Yield!Init PROVE YieldSafe
  OBVIOUS
<1> DEFINE none == [stake |-> 0, paid |-> 0, rewards |-> 0]
           zero == [a \in Addresses |-> 0]
<1>1. /\ DOMAIN store = YieldFields /\ store.user = [a \in Addresses |-> none]
      /\ store.total = 0 /\ store.perToken = 0
      /\ held = [stake |-> 0, reward |-> 0]
      /\ history = [deposits |-> 0, gained |-> zero]
  BY DEF Yield!Init, YieldFields
<1>2. Gained(none, 0, 0)
  <2>1. 0 * YieldPrecision + 0 * (0 - 0) = 0
    BY YieldAssumption
  <2> QED BY <2>1 DEF Gained, YieldUser
<1>3. Yield!Stakes = zero
  BY <1>1 DEF Yield!Stakes
<1>4. SumOver(zero, Addresses) = 0
  BY NoBalances
<1>5. 0 <= 0 * YieldPrecision
  BY YieldAssumption
<1>6. held \in [{"stake", "reward"} -> Nat] /\ held.stake = 0 /\ held.reward = 0
  BY <1>1
<1> HIDE DEF none, zero
<1>7. \A a \in Addresses : Gained(store.user[a], store.perToken, history.gained[a])
  <2> TAKE a \in Addresses
  <2>1. store.user[a] = none /\ history.gained[a] = 0
    BY <1>1 DEF zero
  <2> QED BY <1>1, <1>2, <2>1
<1>8. history.gained \in [Addresses -> Nat]
  BY <1>1 DEF zero
<1> QED BY <1>1, <1>3, <1>4, <1>5, <1>6, <1>7, <1>8 DEF YieldSafe

LEMMA YieldPaid == YieldSafe => Yield!PaidFromOwnTime
<1> SUFFICES ASSUME YieldSafe PROVE Yield!PaidFromOwnTime
  OBVIOUS
<1> DEFINE sum == SumOver(Yield!Pending, Addresses)
<1>1. /\ Yield!PaidFromOwnTime <=>
             /\ \A a \in Addresses : Yield!Pending[a] * YieldPrecision <= history.gained[a]
             /\ sum <= held.reward
             /\ held.stake = SumOver(Yield!Stakes, Addresses)
  BY DEF Yield!PaidFromOwnTime, Yield!MapThenSumSet, Yield!MapThenFoldSet, SumOver, Sums,
     SumRule, AnyOf
<1>2. \A a \in Addresses :
          /\ Yield!Pending[a] \in Nat /\ history.gained[a] \in Nat
          /\ Yield!Pending[a] * YieldPrecision <= history.gained[a]
  <2> TAKE a \in Addresses
  <2>1. Gained(store.user[a], store.perToken, history.gained[a]) /\ store.perToken \in Nat
    BY DEF YieldSafe
  <2>2. Yield!Pending[a] = store.user[a].rewards + Yield!Earned(store.user[a])
    BY DEF Yield!Pending
  <2>3. history.gained[a] \in Nat
    BY <2>1 DEF Gained
  <2> QED BY <2>1, <2>2, <2>3, EarnedIsGained
<1>3. sum <= held.reward
  <2>1. PICK F, G : F = Yield!Pending /\ G = history.gained
    OBVIOUS
  <2>2. PICK unit \in Nat \ {0} : unit = YieldPrecision
    BY YieldAssumption
  <2> DEFINE rest == [a \in Addresses |-> G[a] - unit * F[a]]
  <2>3. \A a \in Addresses : /\ F[a] \in Nat /\ G[a] \in Nat /\ unit * F[a] <= G[a]
                             /\ unit * F[a] \in Nat
    <3> TAKE a \in Addresses
    <3>1. F[a] \in Nat /\ G[a] \in Nat /\ F[a] * unit <= G[a]
      BY <1>2, <2>1, <2>2
    <3>2. F[a] * unit = unit * F[a] /\ unit * F[a] \in Nat
      BY <3>1
    <3> QED BY <3>1, <3>2
  <2>4. \A a \in Addresses : /\ rest[a] \in Nat /\ G[a] = rest[a] + unit * F[a]
                             /\ rest[a] \in Int /\ F[a] \in Int
    <3> TAKE a \in Addresses
    <3>1. PICK f \in Nat, g \in Nat, x \in Nat : f = F[a] /\ g = G[a] /\ x = unit * F[a]
      BY <2>3
    <3>2. x <= g /\ rest[a] = g - x
      BY <2>3, <3>1
    <3> QED BY <3>1, <3>2
  <2> HIDE DEF rest
  <2>5. SumOver(G, Addresses) = SumOver(rest, Addresses) + unit * SumOver(F, Addresses)
    BY <2>4, UsersAssumption, SumOfLinear
  <2>6. SumOver(rest, Addresses) \in Nat /\ SumOver(F, Addresses) \in Nat
    BY <2>3, <2>4, UsersAssumption, SumOfNumbers
  <2>7. PICK x \in Nat, r \in Nat, s \in Nat :
            x = SumOver(rest, Addresses) /\ s = SumOver(F, Addresses) /\ r = held.reward
    BY <2>6 DEF YieldSafe
  <2>8. x + unit * s <= r * unit
    BY <2>1, <2>2, <2>5, <2>7 DEF YieldSafe
  <2>9. s <= r
    <3>1. SUFFICES ASSUME s > r PROVE FALSE
      BY <2>7
    <3>2. PICK k \in Nat : s = r + 1 + k
      <4>1. s - (r + 1) \in Nat /\ s = r + 1 + (s - (r + 1))
        BY <3>1, <2>7
      <4> QED BY <4>1
    <3>3. unit * s = r * unit + unit + unit * k /\ unit * k \in Nat /\ r * unit \in Nat
      BY <3>2
    <3> QED BY <2>8, <3>3
  <2> QED BY <2>1, <2>7, <2>9
<1> QED BY <1>1, <1>2, <1>3 DEF YieldSafe

LEMMA SettledIsGained ==
    ASSUME NEW u, NEW gained, store.perToken \in Nat, Gained(u, store.perToken, gained)
    PROVE  /\ Yield!Settled(u).stake = u.stake
           /\ \A n \in Int :
                 u.stake + n \in Nat =>
                    /\ Gained(Yield!Restaked(u, n), store.perToken, gained)
                    /\ Yield!Restaked(u, n).stake = u.stake + n
           /\ (u.rewards + Yield!Earned(u)) * YieldPrecision \in Nat
           /\ Gained([Yield!Settled(u) EXCEPT !.rewards = 0], store.perToken,
                     gained - (u.rewards + Yield!Earned(u)) * YieldPrecision)
<1>1. PICK stake \in Nat, paid \in Nat, rewards \in Nat :
          u = [stake |-> stake, paid |-> paid, rewards |-> rewards]
  BY DEF Gained, YieldUser
<1>2. PICK p \in Nat, unit \in Nat \ {0}, r \in Nat :
          p = store.perToken /\ unit = YieldPrecision /\ r = u.rewards + Yield!Earned(u)
  BY YieldAssumption, EarnedIsGained
<1>3. r * unit \in Nat /\ r * unit <= gained /\ gained \in Nat
  BY <1>2, EarnedIsGained DEF Gained
<1>4. Yield!Settled(u) = [stake |-> stake, paid |-> p, rewards |-> r]
  <2>1. PICK v : v = [u EXCEPT !.rewards = r]
    OBVIOUS
  <2>2. v = [stake |-> stake, paid |-> paid, rewards |-> r]
    BY <1>1, <2>1
  <2>3. [v EXCEPT !.paid = p] = [stake |-> stake, paid |-> p, rewards |-> r]
    BY <2>2
  <2>4. Yield!Settled(u) = [[u EXCEPT !.rewards = r] EXCEPT !.paid = p]
    BY <1>2 DEF Yield!Settled
  <2> QED BY <2>1, <2>3, <2>4
<1>5. ASSUME NEW n \in Int, u.stake + n \in Nat
      PROVE  /\ Gained(Yield!Restaked(u, n), store.perToken, gained)
             /\ Yield!Restaked(u, n).stake = u.stake + n
  <2>1. PICK k \in Nat : k = u.stake + n
    BY <1>5
  <2>2. [Yield!Settled(u) EXCEPT !.stake = k] = [stake |-> k, paid |-> p, rewards |-> r]
    BY <1>4
  <2>3. k * (p - p) = 0
    OBVIOUS
  <2>4. Yield!Restaked(u, n) = [stake |-> k, paid |-> p, rewards |-> r]
    BY <2>1, <2>2 DEF Yield!Restaked
  <2> QED BY <1>2, <1>3, <2>1, <2>3, <2>4 DEF Gained, YieldUser
<1>6. Gained([Yield!Settled(u) EXCEPT !.rewards = 0], store.perToken, gained - r * unit)
  <2>1. [Yield!Settled(u) EXCEPT !.rewards = 0] = [stake |-> stake, paid |-> p, rewards |-> 0]
    BY <1>4
  <2>2. stake * (p - p) = 0 /\ 0 * unit = 0
    OBVIOUS
  <2>3. gained - r * unit \in Nat
    BY <1>3
  <2> QED BY <1>2, <1>3, <2>1, <2>2, <2>3 DEF Gained, YieldUser
<1> QED BY <1>1, <1>2, <1>3, <1>4, <1>5, <1>6

\* One user's record has changed, and its stake with the total.
LEMMA YieldUserBecomes ==
    ASSUME YieldSafe, NEW a \in Addresses, NEW u, NEW g, NEW h,
           DOMAIN store' = YieldFields, store'.perToken = store.perToken,
           store'.user = [store.user EXCEPT ![a] = u],
           Gained(u, store.perToken, g),
           store'.total = store.total + u.stake - store.user[a].stake,
           held' = [held EXCEPT !.stake = @ + u.stake - store.user[a].stake, !.reward = h],
           h \in Nat, DOMAIN history' = {"deposits", "gained"},
           history'.gained = [history.gained EXCEPT ![a] = g],
           g - history.gained[a] <= (h - held.reward) * YieldPrecision
    PROVE  YieldSafe'
<1>1. PICK S, G : S = Yield!Stakes /\ G = history.gained
  OBVIOUS
<1>2. S \in [Addresses -> Nat] /\ G \in [Addresses -> Nat]
  <2>1. \A b \in Addresses : store.user[b].stake \in Nat
    BY DEF YieldSafe, Gained, YieldUser
  <2>2. history.gained \in [Addresses -> Nat]
    BY DEF YieldSafe
  <2> QED BY <1>1, <2>1, <2>2 DEF Yield!Stakes
<1>3. PICK n \in Nat, k \in Nat : n = u.stake /\ k = g
  BY DEF Gained, YieldUser
<1>4. PICK S2, G2 : S2 = Yield!Stakes' /\ G2 = history'.gained
  OBVIOUS
<1>5. BalanceBecomes(S2, S, a, n)
  BY <1>1, <1>3, <1>4 DEF Yield!Stakes, BalanceBecomes, YieldSafe
<1>6. BalanceBecomes(G2, G, a, k)
  BY <1>1, <1>3, <1>4 DEF BalanceBecomes
<1>7. /\ S2 \in [Addresses -> Nat] /\ SumOver(S2, Addresses) = SumOver(S, Addresses) + n - S[a]
      /\ SumOver(S, Addresses) \in Nat /\ S[a] <= SumOver(S, Addresses)
  BY <1>2, <1>5, BalanceIs
<1>8. /\ G2 \in [Addresses -> Nat] /\ SumOver(G2, Addresses) = SumOver(G, Addresses) + k - G[a]
      /\ SumOver(G, Addresses) \in Nat
  BY <1>2, <1>6, BalanceIs
<1>9. S[a] = store.user[a].stake /\ S[a] \in Nat /\ G[a] = history.gained[a] /\ G[a] \in Nat
  BY <1>1, <1>2 DEF Yield!Stakes
<1>10. PICK unit \in Nat, r \in Nat, q \in Nat : unit = YieldPrecision /\ r = held.reward /\ q = h
  BY YieldAssumption DEF YieldSafe
<1>11. SumOver(G2, Addresses) <= q * unit
  <2>1. SumOver(G, Addresses) <= r * unit /\ k - G[a] <= (q - r) * unit
    BY <1>1, <1>3, <1>9, <1>10 DEF YieldSafe
  <2>2. (q - r) * unit = q * unit - r * unit /\ q * unit \in Int /\ r * unit \in Int
    OBVIOUS
  <2> QED BY <1>8, <1>9, <2>1, <2>2
<1>12. /\ held' \in [{"stake", "reward"} -> Nat] /\ held'.reward = h
       /\ held'.stake = held.stake + n - S[a]
  <2>1. held.stake = SumOver(S, Addresses) /\ held \in [{"stake", "reward"} -> Nat]
    BY <1>1 DEF YieldSafe
  <2>2. held.stake + n - S[a] \in Nat
    BY <2>1, <1>7, <1>9
  <2> QED BY <2>1, <2>2, <1>3, <1>9
<1>13. held'.stake = SumOver(S2, Addresses) /\ store'.total = held'.stake
  BY <1>1, <1>3, <1>7, <1>9, <1>12 DEF YieldSafe
<1>14. \A b \in Addresses : Gained(store'.user[b], store.perToken, history'.gained[b])
  BY DEF YieldSafe
<1>15. DOMAIN store'.user = Addresses /\ history'.gained \in [Addresses -> Nat]
  BY <1>4, <1>8 DEF YieldSafe
<1>16. SumOver(history'.gained, Addresses) <= held'.reward * YieldPrecision
  BY <1>4, <1>10, <1>11, <1>12
<1>17. held'.stake = SumOver(Yield!Stakes', Addresses) /\ store'.total \in Nat
  BY <1>4, <1>12, <1>13
<1>18. store'.perToken \in Nat
  BY DEF YieldSafe
<1>19. \A b \in Addresses : Gained(store'.user[b], store'.perToken, history'.gained[b])
  BY <1>14
<1> QED BY <1>12, <1>13, <1>15, <1>16, <1>17, <1>18, <1>19 DEF YieldSafe

LEMMA SharesTogether ==
    ASSUME NEW F \in [Addresses -> Nat], NEW G \in [Addresses -> Nat], NEW d \in Int, NEW H,
           \A a \in Addresses : H[a] = F[a] + d * G[a]
    PROVE  SumOver(H, Addresses) = SumOver(F, Addresses) + d * SumOver(G, Addresses)
<1>1. /\ \A a \in Addresses : F[a] \in Int
      /\ \A a \in Addresses : G[a] \in Int
  OBVIOUS
<1> QED BY <1>1, UsersAssumption, SumOfLinear

\* A deposit: who has a stake gains of it, and what they gain together has come in.
LEMMA DepositIsShared ==
    ASSUME YieldSafe, NEW amount \in Nat, NEW delta,
           delta = IF store.total = 0 THEN 0 ELSE (amount * YieldPrecision) \div store.total,
           DOMAIN store' = YieldFields, store'.user = store.user, store'.total = store.total,
           store'.perToken = store.perToken + delta,
           held' = [held EXCEPT !.reward = @ + amount],
           DOMAIN history' = {"deposits", "gained"},
           history'.gained = [a \in Addresses |->
                                 history.gained[a] + store.user[a].stake * delta]
    PROVE  YieldSafe'
<1>1. PICK S, G, G2 : S = Yield!Stakes /\ G = history.gained /\ G2 = history'.gained
  OBVIOUS
<1>2. PICK unit \in Nat, total \in Nat, r \in Nat, p \in Nat :
          /\ unit = YieldPrecision /\ total = store.total /\ r = held.reward
          /\ p = store.perToken
  BY YieldAssumption DEF YieldSafe
<1>3. delta \in Nat /\ delta * total \in Nat /\ delta * total <= amount * unit
  <2>1. CASE total = 0
    BY <1>2, <2>1
  <2>2. CASE total # 0
    <3>1. PICK x \in Nat : x = amount * unit
      OBVIOUS
    <3>2. delta = x \div total
      BY <1>2, <2>2, <3>1
    <3>3. delta \in Nat /\ total * delta <= x
      BY <3>2, <2>2
    <3>4. total * delta = delta * total /\ delta * total \in Nat
      BY <3>3
    <3> QED BY <3>1, <3>3, <3>4
  <2> QED BY <2>1, <2>2
<1>4. \A a \in Addresses :
          /\ S[a] \in Nat /\ G[a] \in Nat /\ G2[a] = G[a] + delta * S[a] /\ G2[a] \in Nat
          /\ Gained(store.user[a], p + delta, G2[a])
  <2> TAKE a \in Addresses
  <2>1. PICK u \in YieldUser : u = store.user[a]
    BY DEF YieldSafe, Gained
  <2>2. PICK stake \in Nat, paid \in Nat, rewards \in Nat :
            stake = u.stake /\ paid = u.paid /\ rewards = u.rewards
    BY DEF YieldUser
  <2>3. /\ G[a] \in Nat /\ paid <= p /\ rewards * unit + stake * (p - paid) <= G[a]
        /\ S[a] = stake /\ G2[a] = G[a] + stake * delta
    BY <1>1, <1>2, <2>1, <2>2 DEF YieldSafe, Gained, Yield!Stakes
  <2>4. stake * delta \in Nat /\ stake * delta = delta * stake
    BY <1>3
  <2>5. stake * (p + delta - paid) = stake * (p - paid) + stake * delta
    BY <1>3
  <2>6. rewards * unit \in Int /\ stake * (p - paid) \in Int
    BY <2>3
  <2>7. rewards * unit + stake * (p + delta - paid) <= G2[a] /\ paid <= p + delta
    <3>1. PICK x \in Int, y \in Int, z \in Nat, g \in Nat :
              /\ x = rewards * unit /\ y = stake * (p - paid) /\ z = stake * delta /\ g = G[a]
      BY <2>3, <2>4, <2>6
    <3>2. x + y <= g /\ G2[a] = g + z /\ stake * (p + delta - paid) = y + z
      BY <2>3, <2>5, <3>1
    <3>3. rewards * unit + stake * (p + delta - paid) = x + (y + z)
      BY <3>1, <3>2
    <3>4. x + (y + z) <= G2[a]
      <4>1. G2[a] = g + z /\ x + y <= g
        BY <3>2
      <4> QED BY <4>1
    <3> QED BY <1>3, <2>3, <3>3, <3>4
  <2>8. G2[a] = G[a] + delta * S[a] /\ G2[a] \in Nat
    BY <2>3, <2>4
  <2>9. Gained(store.user[a], p + delta, G2[a])
    BY <1>2, <2>1, <2>2, <2>7, <2>8 DEF Gained
  <2> QED BY <2>3, <2>8, <2>9
<1>5. SumOver(G2, Addresses) = SumOver(G, Addresses) + delta * SumOver(S, Addresses)
  <2>1. PICK d \in Int : d = delta
    BY <1>3
  <2>2. \A a \in Addresses : G2[a] = G[a] + d * S[a]
    BY <1>4, <2>1
  <2>3. G \in [Addresses -> Nat] /\ S \in [Addresses -> Nat]
    BY <1>1, <1>4 DEF YieldSafe, Yield!Stakes
  <2>4. SumOver(G2, Addresses) = SumOver(G, Addresses) + d * SumOver(S, Addresses)
    BY <2>2, <2>3, SharesTogether
  <2> QED BY <2>1, <2>4
<1>6. SumOver(G, Addresses) \in Nat /\ SumOver(G, Addresses) <= r * unit
  BY <1>1, <1>2, <1>4, UsersAssumption, SumOfNumbers DEF YieldSafe
<1>7. SumOver(S, Addresses) = total
  BY <1>1, <1>2 DEF YieldSafe
<1>8. SumOver(G2, Addresses) <= (r + amount) * unit
  <2>1. (r + amount) * unit = r * unit + amount * unit /\ r * unit \in Int /\ amount * unit \in Int
    OBVIOUS
  <2> QED BY <1>3, <1>5, <1>6, <1>7, <2>1
<1>9. /\ held' \in [{"stake", "reward"} -> Nat] /\ held'.reward = r + amount
      /\ held'.stake = held.stake
  <2>1. held \in [{"stake", "reward"} -> Nat]
    BY DEF YieldSafe
  <2> QED BY <1>2, <2>1
<1>10. Yield!Stakes' = Yield!Stakes
  BY DEF Yield!Stakes
<1>11. history'.gained \in [Addresses -> Nat]
  BY <1>1, <1>4
<1>12. \A a \in Addresses : Gained(store'.user[a], store'.perToken, history'.gained[a])
  BY <1>1, <1>2, <1>4
<1>13. store'.perToken \in Nat
  BY <1>2, <1>3
<1>14. SumOver(history'.gained, Addresses) <= held'.reward * YieldPrecision
  BY <1>1, <1>2, <1>8, <1>9
<1> QED BY <1>9, <1>10, <1>11, <1>12, <1>13, <1>14 DEF YieldSafe

LEMMA YieldStep == YieldSafe /\ Yield!Next => YieldSafe'
<1> SUFFICES ASSUME YieldSafe, Yield!Next PROVE YieldSafe'
  OBVIOUS
<1>a. /\ DOMAIN store = YieldFields /\ held \in [{"stake", "reward"} -> Nat]
      /\ DOMAIN history = {"deposits", "gained"} /\ history.gained \in [Addresses -> Nat]
      /\ store.perToken \in Nat
      /\ \A a \in Addresses : Gained(store.user[a], store.perToken, history.gained[a])
  BY DEF YieldSafe
<1>b. ASSUME DOMAIN store' = YieldFields, store'.user = store.user,
             store'.perToken = store.perToken, store'.total = store.total,
             held' = held, history' = history
      PROVE  YieldSafe'
  <2>1. Yield!Stakes' = Yield!Stakes
    BY <1>b DEF Yield!Stakes
  <2> QED BY <1>b, <2>1 DEF YieldSafe
<1>1. CASE Yield!SetSecurityRegistry
  BY <1>1, <1>a, <1>b DEF Yield!SetSecurityRegistry, Yield!Call, YieldFields
<1>2. ASSUME NEW a \in Addresses, Yield!Initialize(a)
      PROVE  YieldSafe'
  BY <1>2, <1>a, <1>b DEF Yield!Initialize, Yield!Call, YieldFields
<1>3. ASSUME NEW n \in {1, 2}, NEW halted, Yield!DepositRewards(n, halted)
      PROVE  YieldSafe'
  <2>1. PICK delta : delta = IF store.total = 0 THEN 0 ELSE (n * YieldPrecision) \div store.total
    OBVIOUS
  <2>2. /\ store' = [store EXCEPT !.perToken = @ + delta]
        /\ held' = [held EXCEPT !.reward = @ + n]
        /\ history' = [deposits |-> history.deposits + n,
                       gained |-> [a \in Addresses |->
                                      history.gained[a] + store.user[a].stake * delta]]
    BY <1>3, <2>1 DEF Yield!DepositRewards
  <2>3. /\ DOMAIN store' = YieldFields /\ store'.user = store.user
        /\ store'.total = store.total /\ store'.perToken = store.perToken + delta
    BY <2>2, <1>a DEF YieldFields
  <2>4. /\ DOMAIN history' = {"deposits", "gained"}
        /\ history'.gained = [a \in Addresses |->
                                 history.gained[a] + store.user[a].stake * delta]
    BY <2>2
  <2>5. n \in Nat
    OBVIOUS
  <2> QED BY <2>1, <2>2, <2>3, <2>4, <2>5, DepositIsShared
<1>4. ASSUME NEW a \in Addresses, NEW n \in Int, store.user[a].stake + n \in Nat,
             store' = [store EXCEPT !.user[a] = Yield!Restaked(@, n), !.total = @ + n],
             held' = [held EXCEPT !.stake = @ + n], history' = history
      PROVE  YieldSafe'
  <2>1. PICK u, g, new : u = store.user[a] /\ g = history.gained[a] /\ new = Yield!Restaked(u, n)
    OBVIOUS
  <2>2. Gained(u, store.perToken, g) /\ g \in Nat /\ u.stake \in Nat
    BY <1>a, <2>1 DEF Gained, YieldUser
  <2>3. Gained(new, store.perToken, g) /\ new.stake = u.stake + n
    BY <1>4, <1>a, <2>1, <2>2, SettledIsGained
  <2>4. store' = [store EXCEPT !.user[a] = new, !.total = @ + n]
    BY <1>4, <2>1
  <2>5. /\ DOMAIN store' = YieldFields /\ store'.user = [store.user EXCEPT ![a] = new]
        /\ store'.total = store.total + n /\ store'.perToken = store.perToken
    BY <2>4, <1>a DEF YieldFields
  <2>6. PICK t \in Nat, h \in Nat, r \in Nat, unit \in Nat :
            t = store.total /\ h = held.stake /\ r = held.reward /\ unit = YieldPrecision
    BY <1>a, YieldAssumption DEF YieldSafe
  <2>7. store'.total = store.total + new.stake - store.user[a].stake
    BY <2>1, <2>2, <2>3, <2>5, <2>6
  <2>8. held' = [held EXCEPT !.stake = @ + new.stake - store.user[a].stake, !.reward = r]
    <3>1. h + n = h + new.stake - store.user[a].stake
      BY <2>1, <2>2, <2>3
    <3>2. held' = [held EXCEPT !.stake = h + n]
      BY <1>4, <2>6
    <3>3. [held EXCEPT !.stake = h + n, !.reward = r] = [held EXCEPT !.stake = h + n]
      BY <1>a, <2>6
    <3> QED BY <2>6, <3>1, <3>2, <3>3
  <2>9. history'.gained = [history.gained EXCEPT ![a] = g]
    BY <1>4, <1>a, <2>1
  <2>10. g - history.gained[a] <= (r - held.reward) * YieldPrecision
    <3>1. (r - r) * unit = 0
      OBVIOUS
    <3> QED BY <2>1, <2>2, <2>6, <3>1
  <2>11. DOMAIN history' = {"deposits", "gained"}
    BY <1>4, <1>a
  <2> QED BY <2>3, <2>5, <2>6, <2>7, <2>8, <2>9, <2>10, <2>11, YieldUserBecomes
<1>5. \A a \in Addresses : store.user[a].stake \in Nat
  BY <1>a DEF Gained, YieldUser
<1>6. ASSUME NEW a \in Addresses, NEW halted, Yield!Stake(a, 1, halted)
      PROVE  YieldSafe'
  <2>1. PICK n \in Int : n = 1
    OBVIOUS
  <2>2. store.user[a].stake + n \in Nat
    BY <1>5, <2>1
  <2>3. /\ store' = [store EXCEPT !.user[a] = Yield!Restaked(@, n), !.total = @ + n]
        /\ held' = [held EXCEPT !.stake = @ + n] /\ history' = history
    BY <1>6, <2>1 DEF Yield!Stake
  <2> QED BY <1>4, <2>2, <2>3
<1>7. ASSUME NEW a \in Addresses, NEW halted, Yield!Unstake(a, 1, halted)
      PROVE  YieldSafe'
  <2>1. PICK n \in Int : n = -1
    OBVIOUS
  <2>2. store.user[a].stake + n \in Nat
    BY <1>5, <1>7, <2>1 DEF Yield!Unstake
  <2>3. /\ store.total - 1 = store.total + n /\ held.stake - 1 = held.stake + n
    BY <1>a, <2>1 DEF YieldSafe
  <2>4. /\ store' = [store EXCEPT !.user[a] = Yield!Restaked(@, n), !.total = @ + n]
        /\ held' = [held EXCEPT !.stake = @ + n] /\ history' = history
    BY <1>7, <2>1, <2>3 DEF Yield!Unstake
  <2> QED BY <1>4, <2>2, <2>4
<1>8. ASSUME NEW a \in Addresses, NEW halted, Yield!Claim(a, halted)
      PROVE  YieldSafe'
  <2>1. PICK u, g : u = store.user[a] /\ g = history.gained[a]
    OBVIOUS
  <2>2. Gained(u, store.perToken, g) /\ g \in Nat
    BY <1>a, <2>1
  <2>3. PICK reward \in Nat, unit \in Nat, r \in Nat :
            /\ reward = u.rewards + Yield!Earned(u) /\ unit = YieldPrecision
            /\ r = held.reward
    BY <1>a, <2>2, EarnedIsGained, YieldAssumption
  <2>4. Yield!Pending[a] = reward
    BY <2>1, <2>3 DEF Yield!Pending
  <2>5. PICK new : new = [Yield!Settled(u) EXCEPT !.rewards = 0]
    OBVIOUS
  <2>6. Gained(new, store.perToken, g - reward * unit)
    BY <1>a, <2>2, <2>3, <2>5, SettledIsGained
  <2>7. new.stake = u.stake /\ u.stake \in Nat
    BY <2>2, <2>5 DEF Yield!Settled, Gained, YieldUser
  <2>8. /\ store' = [store EXCEPT !.user[a] = new]
        /\ held' = [held EXCEPT !.reward = @ - reward] /\ reward <= r
        /\ history' = [history EXCEPT !.gained[a] = @ - reward * unit]
    BY <1>8, <2>1, <2>3, <2>4, <2>5 DEF Yield!Claim
  <2>9. /\ DOMAIN store' = YieldFields /\ store'.user = [store.user EXCEPT ![a] = new]
        /\ store'.total = store.total /\ store'.perToken = store.perToken
    BY <2>8, <1>a DEF YieldFields
  <2>10. store'.total = store.total + new.stake - store.user[a].stake
    BY <2>1, <2>7, <2>9 DEF YieldSafe
  <2>11. held' = [held EXCEPT !.stake = @ + new.stake - store.user[a].stake,
                              !.reward = r - reward]
    <3>1. held.stake \in Nat
      BY <1>a
    <3>2. held.stake = held.stake + new.stake - store.user[a].stake
      BY <2>1, <2>7, <3>1
    <3> QED BY <2>3, <2>8, <1>a, <3>2
  <2>12. /\ DOMAIN history' = {"deposits", "gained"}
         /\ history'.gained = [history.gained EXCEPT ![a] = g - reward * unit]
    BY <1>a, <2>1, <2>8
  <2>13. g - reward * unit - history.gained[a] <= (r - reward - held.reward) * YieldPrecision
    <3>1. (r - reward - r) * unit = 0 - reward * unit /\ reward * unit \in Int
      OBVIOUS
    <3> QED BY <2>1, <2>2, <2>3, <3>1
  <2>14. r - reward \in Nat
    BY <2>3, <2>8
  <2> QED BY <2>1, <2>6, <2>9, <2>10, <2>11, <2>12, <2>13, <2>14, YieldUserBecomes
<1> QED BY <1>1, <1>2, <1>3, <1>6, <1>7, <1>8 DEF Yield!Next

------------------------------------------------------------------------------
(* The farm's emission: a rate that decays by epoch, summed in two ways *)

\* What get_effective_reward_rate leaves of a rate after one more epoch.
Decay(x) == (x * DecayNumerator) \div DecayDenominator
DecayRule(rate, f) == f = [n \in Nat |-> IF n = 0 THEN rate ELSE Decay(f[n - 1])]
Decayed(rate) == CHOOSE f : DecayRule(rate, f)

LEMMA DecayIsNumber == ASSUME NEW x \in Nat PROVE Decay(x) \in Nat
<1>1. PICK y \in Nat, d \in Nat \ {0} : y = x * DecayNumerator /\ d = DecayDenominator
  BY FarmAssumption
<1> QED BY <1>1 DEF Decay

\* g is the rate of the epochs up to n.
DecaysTo(rate, n, g) ==
    /\ g \in [0 .. n -> Nat] /\ g[0] = rate
    /\ \A k \in 0 .. n : k # 0 => g[k] = Decay(g[k - 1])

LEMMA DecaysAlike ==
    ASSUME NEW rate, NEW n \in Nat, NEW m \in Nat, NEW g, NEW h,
           DecaysTo(rate, n, g), DecaysTo(rate, m, h)
    PROVE  \A k \in 0 .. n : k <= m => g[k] = h[k]
<1> DEFINE Bad == {k \in Nat : k <= n /\ k <= m /\ g[k] # h[k]}
<1>1. SUFFICES ASSUME Bad # {} PROVE FALSE
  OBVIOUS
<1>2. PICK k \in Bad : \A j \in Bad : k <= j
  BY <1>1, LeastNumber
<1>3. k # 0
  BY <1>2 DEF DecaysTo
<1>4. PICK j \in Nat : k = j + 1
  <2>1. k - 1 \in Nat /\ k = (k - 1) + 1
    BY <1>2, <1>3
  <2> QED BY <2>1
<1>5. g[j] = h[j]
  <2>1. j \notin Bad
    BY <1>2, <1>4
  <2> QED BY <1>2, <1>4, <2>1
<1>6. g[k] = Decay(g[j]) /\ h[k] = Decay(h[j])
  <2>1. k \in 0 .. n /\ k \in 0 .. m /\ k - 1 = j
    BY <1>2, <1>4
  <2> QED BY <2>1, <1>3 DEF DecaysTo
<1> QED BY <1>2, <1>5, <1>6

LEMMA DecayReaches ==
    ASSUME NEW rate \in Nat
    PROVE  \A n \in Nat : \E g : DecaysTo(rate, n, g)
<1> DEFINE Bad == {n \in Nat : ~\E g : DecaysTo(rate, n, g)}
<1>1. SUFFICES ASSUME Bad # {} PROVE FALSE
  OBVIOUS
<1>2. PICK n \in Bad : \A m \in Bad : n <= m
  BY <1>1, LeastNumber
<1>3. n # 0
  <2>1. DecaysTo(rate, 0, [k \in 0 .. 0 |-> rate])
    BY DEF DecaysTo
  <2> QED BY <1>2, <2>1
<1>4. PICK m \in Nat : n = m + 1
  <2>1. n - 1 \in Nat /\ n = (n - 1) + 1
    BY <1>2, <1>3
  <2> QED BY <2>1
<1>5. PICK g : DecaysTo(rate, m, g)
  <2>1. m \notin Bad
    BY <1>2, <1>4
  <2> QED BY <2>1
<1> DEFINE h == [k \in 0 .. n |-> IF k = n THEN Decay(g[m]) ELSE g[k]]
<1>6. g \in [0 .. m -> Nat] /\ Decay(g[m]) \in Nat
  <2>1. g \in [0 .. m -> Nat] /\ m \in 0 .. m
    BY <1>5 DEF DecaysTo
  <2>2. g[m] \in Nat
    BY <2>1
  <2> QED BY <2>1, <2>2, DecayIsNumber
<1>7. \A k \in 0 .. n : k = n \/ k \in 0 .. m
  BY <1>4
<1>8. h \in [0 .. n -> Nat] /\ h[0] = rate
  BY <1>4, <1>5, <1>6, <1>7 DEF DecaysTo
<1>9. ASSUME NEW k \in 0 .. n, k # 0
      PROVE  h[k] = Decay(h[k - 1])
  <2>1. k - 1 \in 0 .. n /\ k - 1 # n /\ h[k - 1] = g[k - 1]
    BY <1>9
  <2>2. CASE k = n
    BY <1>4, <2>1, <2>2
  <2>3. CASE k # n
    BY <1>5, <1>7, <1>9, <2>1, <2>3 DEF DecaysTo
  <2> QED BY <2>2, <2>3
<1> HIDE DEF h
<1>10. DecaysTo(rate, n, h)
  BY <1>8, <1>9 DEF DecaysTo
<1> QED BY <1>2, <1>10

LEMMA DecayedIsNumber ==
    ASSUME NEW rate \in Nat
    PROVE  Decayed(rate) \in [Nat -> Nat]
<1> DEFINE To(n) == CHOOSE g : DecaysTo(rate, n, g)
           f == [n \in Nat |-> To(n)[n]]
<1>1. \A n \in Nat : DecaysTo(rate, n, To(n))
  BY DecayReaches
<1> HIDE DEF To
<1>2. f \in [Nat -> Nat]
  BY <1>1 DEF DecaysTo
<1>3. ASSUME NEW n \in Nat
      PROVE  f[n] = IF n = 0 THEN rate ELSE Decay(f[n - 1])
  <2>1. CASE n = 0
    BY <1>1, <2>1 DEF DecaysTo
  <2>2. CASE n # 0
    <3>1. PICK m \in Nat : n = m + 1
      <4>1. n - 1 \in Nat /\ n = (n - 1) + 1
        BY <2>2
      <4> QED BY <4>1
    <3>2. To(n)[m] = To(m)[m]
      BY <1>1, <3>1, DecaysAlike
    <3>3. To(n)[n] = Decay(To(n)[m])
      <4>1. n \in 0 .. n /\ n - 1 = m
        BY <3>1
      <4> QED BY <1>1, <2>2, <4>1 DEF DecaysTo
    <3>4. f[n] = To(n)[n] /\ f[m] = To(m)[m] /\ n - 1 = m
      BY <3>1
    <3> QED BY <2>2, <3>2, <3>3, <3>4
  <2> QED BY <2>1, <2>2
<1> HIDE DEF f
<1>4. f = [n \in Nat |-> IF n = 0 THEN rate ELSE Decay(f[n - 1])]
  BY <1>2, <1>3
<1>5. DecayRule(rate, Decayed(rate))
  BY <1>4 DEF DecayRule, Decayed
<1> DEFINE d == Decayed(rate)
<1>6. ASSUME NEW n \in Nat
      PROVE  d[n] = f[n]
  <2> DEFINE Bad == {k \in Nat : d[k] # f[k]}
  <2>1. SUFFICES ASSUME Bad # {} PROVE FALSE
    OBVIOUS
  <2>2. PICK k \in Bad : \A j \in Bad : k <= j
    BY <2>1, LeastNumber
  <2>3. d[k] = IF k = 0 THEN rate ELSE Decay(d[k - 1])
    BY <1>5 DEF DecayRule
  <2>4. k # 0 => k - 1 \in Nat /\ k - 1 \notin Bad
    BY <2>2
  <2> QED BY <1>3, <2>2, <2>3, <2>4
<1>7. d = [n \in Nat |-> d[n]]
  BY <1>5 DEF DecayRule
<1> QED BY <1>2, <1>6, <1>7

LEMMA RateOfEpoch ==
    ASSUME NEW rate, NEW ledger
    PROVE  Farm!EffectiveRate(rate, ledger) = Decayed(rate)[ledger \div EpochLength]
  BY DEF Farm!EffectiveRate, Decayed, DecayRule, Decay

\* The ledgers of the epoch e are those from EpochStart(e) to the next one's start.
EpochStart(e) == e * EpochLength
EpochOf(ledger) == ledger \div EpochLength

LEMMA EpochFollows ==
    ASSUME NEW e \in Nat
    PROVE  /\ EpochStart(e) \in Nat /\ EpochStart(e + 1) \in Nat
           /\ EpochStart(e) < EpochStart(e + 1)
<1>1. PICK L \in Nat \ {0} : L = EpochLength
  BY FarmAssumption
<1>2. (e + 1) * L = e * L + L /\ e * L \in Nat
  OBVIOUS
<1>3. e * L + L \in Nat /\ e * L < e * L + L
  BY <1>2
<1> QED BY <1>1, <1>2, <1>3 DEF EpochStart

LEMMA EpochBounds ==
    ASSUME NEW t \in Nat
    PROVE  /\ EpochOf(t) \in Nat /\ EpochStart(EpochOf(t)) \in Nat
           /\ EpochStart(EpochOf(t)) <= t
           /\ EpochStart(EpochOf(t) + 1) \in Nat /\ t < EpochStart(EpochOf(t) + 1)
<1>1. PICK L \in Nat \ {0} : L = EpochLength
  BY FarmAssumption
<1>2. PICK q \in Nat : q = t \div L
  OBVIOUS
<1>3. L * q <= t /\ t < L * q + L /\ L * q \in Nat
  BY <1>2
<1>4. q * L = L * q /\ (q + 1) * L = L * q + L
  OBVIOUS
<1> QED BY <1>1, <1>2, <1>3, <1>4 DEF EpochOf, EpochStart

LEMMA EpochsApart ==
    ASSUME NEW a \in Nat, NEW b \in Nat, a < b
    PROVE  /\ EpochStart(a + 1) \in Nat /\ EpochStart(b) \in Nat
           /\ EpochStart(a + 1) <= EpochStart(b)
<1>1. PICK L \in Nat : L = EpochLength
  BY FarmAssumption
<1>2. PICK k \in Nat : b = a + 1 + k
  <2>1. b - (a + 1) \in Nat /\ b = a + 1 + (b - (a + 1))
    OBVIOUS
  <2> QED BY <2>1
<1>3. b * L = (a + 1) * L + k * L /\ k * L \in Nat /\ (a + 1) * L \in Nat
  BY <1>2
<1>4. (a + 1) * L <= b * L /\ b * L \in Nat
  BY <1>3
<1> QED BY <1>1, <1>3, <1>4 DEF EpochStart

LEMMA EpochIs ==
    ASSUME NEW t \in Nat, NEW q \in Nat, EpochStart(q) <= t, t < EpochStart(q + 1)
    PROVE  EpochOf(t) = q
<1>1. PICK d \in Nat : d = EpochOf(t)
  BY EpochBounds
<1>2. /\ EpochStart(d) \in Nat /\ EpochStart(d) <= t
      /\ EpochStart(d + 1) \in Nat /\ t < EpochStart(d + 1)
  BY <1>1, EpochBounds
<1>3. CASE d < q
  BY <1>2, <1>3, EpochsApart
<1>4. CASE q < d
  BY <1>2, <1>4, EpochsApart
<1> QED BY <1>1, <1>3, <1>4

\* What of the epoch e is emitted between start and t.
PartOf(rate, start, t, e) ==
    (Farm!Least(t, EpochStart(e + 1)) - Farm!Greatest(start, EpochStart(e)))
        * Farm!EffectiveRate(rate, Farm!Greatest(start, EpochStart(e)))
Epochs(start, t) == EpochOf(start) .. EpochOf(t - 1)
Parts(rate, start, t) == [e \in Epochs(start, t) |-> PartOf(rate, start, t, e)]
Ledgers(rate, start, t) == [i \in start .. t - 1 |-> Farm!EffectiveRate(rate, i)]

LEMMA EmissionSums ==
    ASSUME NEW rate, NEW start, NEW t
    PROVE  Farm!Emission(rate, start, t) = SumOver(Ledgers(rate, start, t), start .. t - 1)
  BY DEF Farm!Emission, Ledgers, Farm!MapThenSumSet, Farm!MapThenFoldSet, SumOver, Sums,
     SumRule, AnyOf

LEMMA PeriodSums ==
    ASSUME NEW rate, NEW start, NEW t
    PROVE  Farm!RewardsForPeriod(rate, start, t) =
               IF start >= t THEN 0 ELSE SumOver(Parts(rate, start, t), Epochs(start, t))
  BY DEF Farm!RewardsForPeriod, Parts, PartOf, Epochs, EpochOf, EpochStart, Farm!MapThenSumSet,
     Farm!MapThenFoldSet, SumOver, Sums, SumRule, AnyOf

LEMMA RateIsNumber ==
    ASSUME NEW rate \in Nat, NEW t \in Nat
    PROVE  Farm!EffectiveRate(rate, t) \in Nat
  BY DecayedIsNumber, RateOfEpoch, EpochBounds DEF EpochOf

LEMMA SameEpochSameRate ==
    ASSUME NEW rate, NEW t, NEW u, EpochOf(t) = EpochOf(u)
    PROVE  Farm!EffectiveRate(rate, t) = Farm!EffectiveRate(rate, u)
  BY RateOfEpoch DEF EpochOf

\* One ledger more: the emission grows by the rate of that ledger.
LEMMA EmissionGrows ==
    ASSUME NEW rate \in Nat, NEW start \in Nat, NEW t \in Nat, start <= t
    PROVE  Farm!Emission(rate, start, t + 1) =
               Farm!Emission(rate, start, t) + Farm!EffectiveRate(rate, t)
<1> DEFINE S == start .. t
           F == Ledgers(rate, start, t + 1)
           G == Ledgers(rate, start, t)
<1>1. start .. (t + 1) - 1 = S /\ start .. t - 1 = S \ {t} /\ t \in S /\ IsFiniteSet(S)
  <2>1. IsFiniteSet(S)
    BY FS_Interval
  <2>2. (t + 1) - 1 = t
    OBVIOUS
  <2> QED BY <2>1, <2>2
<1>2. \A i \in S : F[i] = Farm!EffectiveRate(rate, i) /\ F[i] \in Int
  <2>1. \A i \in S : i \in Nat
    OBVIOUS
  <2> QED BY <1>1, <2>1, RateIsNumber DEF Ledgers
<1>3. \A i \in S \ {t} : F[i] = G[i]
  BY <1>1, <1>2 DEF Ledgers
<1> HIDE DEF F, G, S
<1>4. SumOver(F, S) = F[t] + SumOver(F, S \ {t})
  BY <1>1, <1>2, SumWithout
<1>5. SumOver(F, S \ {t}) = SumOver(G, S \ {t}) /\ SumOver(F, S \ {t}) \in Int
  <2>1. IsFiniteSet(S \ {t}) /\ \A i \in S \ {t} : F[i] \in Int
    BY <1>1, <1>2, FS_RemoveElement
  <2> QED BY <1>3, <2>1, SumOfEqual, SumWithout
<1>6. /\ Farm!Emission(rate, start, t + 1) = SumOver(F, S)
      /\ Farm!Emission(rate, start, t) = SumOver(G, S \ {t})
  BY <1>1, EmissionSums DEF F, G
<1>7. F[t] = Farm!EffectiveRate(rate, t) /\ F[t] \in Int
  BY <1>1, <1>2
<1> QED BY <1>4, <1>5, <1>6, <1>7

\* The epochs before the last ledger's are over: their parts stay as they are.
LEMMA PartStays ==
    ASSUME NEW rate, NEW start \in Nat, NEW t \in Nat, NEW e \in Nat, e < EpochOf(t)
    PROVE  PartOf(rate, start, t + 1, e) = PartOf(rate, start, t, e)
<1>1. PICK q \in Nat, x \in Nat : q = EpochOf(t) /\ x = EpochStart(e + 1)
  BY EpochBounds, EpochsApart
<1>2. x <= EpochStart(q) /\ EpochStart(q) \in Nat /\ EpochStart(q) <= t
  BY <1>1, EpochBounds, EpochsApart
<1>3. Farm!Least(t, x) = x /\ Farm!Least(t + 1, x) = x
  BY <1>2 DEF Farm!Least
<1> QED BY <1>1, <1>3 DEF PartOf

\* The part of the last ledger's epoch grows by the rate of that ledger: it has been
\* the ledgers from the start, or from the epoch's, up to it.
LEMMA PartGrows ==
    ASSUME NEW rate \in Nat, NEW start \in Nat, NEW t \in Nat, start <= t
    PROVE  \E n \in Nat :
              /\ PartOf(rate, start, t + 1, EpochOf(t)) =
                     (n + 1) * Farm!EffectiveRate(rate, t)
              /\ PartOf(rate, start, t, EpochOf(t)) = n * Farm!EffectiveRate(rate, t)
              /\ (start = t \/ EpochStart(EpochOf(t)) = t) => n = 0
<1>1. PICK q \in Nat, b \in Nat, x \in Nat :
          q = EpochOf(t) /\ b = EpochStart(q) /\ x = EpochStart(q + 1)
  BY EpochBounds
<1>2. b <= t /\ t < x
  BY <1>1, EpochBounds
<1>3. PICK g \in Nat : g = Farm!Greatest(start, b)
  BY DEF Farm!Greatest
<1>4. g <= t /\ b <= g /\ start <= g
  BY <1>2, <1>3 DEF Farm!Greatest
<1>5. EpochOf(g) = q
  BY <1>1, <1>2, <1>4, EpochIs
<1>6. PICK n \in Nat : n = t - g
  BY <1>4
<1>7. Farm!Least(t, x) = t /\ Farm!Least(t + 1, x) = t + 1
  BY <1>2 DEF Farm!Least
<1>8. Farm!EffectiveRate(rate, g) = Farm!EffectiveRate(rate, t)
  BY <1>1, <1>5, SameEpochSameRate
<1>9. PICK r : r = Farm!EffectiveRate(rate, t)
  OBVIOUS
<1>10. PartOf(rate, start, t + 1, q) = (t + 1 - g) * r /\ PartOf(rate, start, t, q) = (t - g) * r
  BY <1>1, <1>3, <1>7, <1>8, <1>9 DEF PartOf
<1>11. t + 1 - g = n + 1 /\ t - g = n
  BY <1>6
<1>12. start = t \/ b = t => n = 0
  BY <1>4, <1>6
<1> QED BY <1>1, <1>9, <1>10, <1>11, <1>12

\* One ledger more: so do the rewards that are summed epoch by epoch.
LEMMA PeriodGrows ==
    ASSUME NEW rate \in Nat, NEW start \in Nat, NEW t \in Nat, start <= t
    PROVE  Farm!RewardsForPeriod(rate, start, t + 1) =
               Farm!RewardsForPeriod(rate, start, t) + Farm!EffectiveRate(rate, t)
<1>1. PICK q \in Nat, s \in Nat, r \in Nat :
          q = EpochOf(t) /\ s = EpochOf(start) /\ r = Farm!EffectiveRate(rate, t)
  BY EpochBounds, RateIsNumber
<1>a. PICK n \in Nat :
          /\ PartOf(rate, start, t + 1, EpochOf(t)) = (n + 1) * Farm!EffectiveRate(rate, t)
          /\ PartOf(rate, start, t, EpochOf(t)) = n * Farm!EffectiveRate(rate, t)
          /\ (start = t \/ EpochStart(EpochOf(t)) = t) => n = 0
  BY PartGrows
<1>2. /\ PartOf(rate, start, t + 1, q) = (n + 1) * r /\ PartOf(rate, start, t, q) = n * r
      /\ (start = t \/ EpochStart(q) = t) => n = 0
  BY <1>1, <1>a
<1>3. s <= q
  <2>1. SUFFICES ASSUME q < s PROVE FALSE
    BY <1>1
  <2>2. EpochStart(q + 1) <= EpochStart(s) /\ EpochStart(s) <= start /\ t < EpochStart(q + 1)
    BY <1>1, <2>1, EpochBounds, EpochsApart
  <2>3. EpochStart(q + 1) \in Nat /\ EpochStart(s) \in Nat
    BY <1>1, EpochBounds
  <2> QED BY <2>2, <2>3
<1>b. PICK S, F, G : /\ S = s .. q
                     /\ F = [e \in S |-> PartOf(rate, start, t, e)]
                     /\ G = [e \in S |-> PartOf(rate, start, t + 1, e)]
  OBVIOUS
<1>4. IsFiniteSet(S) /\ q \in S
  BY <1>3, <1>b, FS_Interval
<1>5. \A e \in S \ {q} : e \in Nat /\ e < q /\ G[e] = F[e]
  <2> TAKE e \in S \ {q}
  <2>1. e \in Nat /\ e < q /\ e \in S
    BY <1>b
  <2>2. PartOf(rate, start, t + 1, e) = PartOf(rate, start, t, e)
    BY <1>1, <2>1, PartStays
  <2> QED BY <1>b, <2>1, <2>2
<1>6. F[q] = n * r /\ G[q] = n * r + r /\ n * r \in Nat
  <2>1. (n + 1) * r = n * r + r /\ n * r \in Nat
    OBVIOUS
  <2> QED BY <1>2, <1>4, <1>b, <2>1
<1>7. \A e \in S : PartOf(rate, start, t, e) \in Int
  <2> TAKE e \in S
  <2>1. PICK x \in Nat, y \in Nat : x = EpochStart(e) /\ y = EpochStart(e + 1)
    <3>1. e \in Nat
      BY <1>b
    <3> QED BY <3>1, EpochFollows
  <2>2. PICK g \in Nat, l \in Nat : g = Farm!Greatest(start, x) /\ l = Farm!Least(t, y)
    BY DEF Farm!Greatest, Farm!Least
  <2>3. PICK v \in Nat : v = Farm!EffectiveRate(rate, g)
    BY RateIsNumber
  <2>4. (l - g) * v \in Int
    OBVIOUS
  <2> QED BY <2>1, <2>2, <2>3, <2>4 DEF PartOf
<1>8. \A e \in S : F[e] \in Int
  BY <1>7, <1>b
<1>9. Farm!RewardsForPeriod(rate, start, t + 1) = SumOver(G, S)
  <2>1. (t + 1) - 1 = t /\ ~(start >= t + 1)
    OBVIOUS
  <2>2. Epochs(start, t + 1) = S
    BY <1>1, <1>b, <2>1 DEF Epochs
  <2>3. Parts(rate, start, t + 1) = G
    BY <1>b, <2>2 DEF Parts
  <2> QED BY <2>1, <2>2, <2>3, PeriodSums
<1>10. SumOver(G, S) = SumOver(F, S) + r /\ SumOver(F, S) \in Int
  <2>1. G[q] \in Int /\ \A e \in S \ {q} : G[e] = F[e]
    BY <1>5, <1>6
  <2>2. SumOver(G, S) = SumOver(F, S) + G[q] - F[q]
    <3>1. PICK c : c = q
      OBVIOUS
    <3>2. /\ IsFiniteSet(S) /\ c \in S /\ G[c] \in Int /\ \A e \in S : F[e] \in Int
          /\ \A e \in S \ {c} : G[e] = F[e]
      BY <1>4, <1>8, <2>1, <3>1
    <3>3. SumOver(G, S) = SumOver(F, S) + G[c] - F[c]
      BY <3>2, SumChanged
    <3> QED BY <3>1, <3>3
  <2>3. SumOver(F, S) \in Int
    BY <1>4, <1>8, SumWithout
  <2> QED BY <1>6, <2>2, <2>3
<1>11. Farm!RewardsForPeriod(rate, start, t) = SumOver(F, S)
  <2>1. SumOver(F, S) = F[q] + SumOver(F, S \ {q})
    BY <1>4, <1>8, SumWithout
  <2>2. CASE start = t
    <3>1. S \ {q} = {} /\ F[q] = 0
      BY <1>1, <1>2, <1>b, <1>6, <2>2
    <3> QED BY <2>1, <2>2, <3>1, SumOfNone, PeriodSums
  <2>3. CASE start < t /\ EpochOf(t - 1) = q
    <3>1. Epochs(start, t) = S /\ Parts(rate, start, t) = F
      BY <1>1, <1>b, <2>3 DEF Epochs, Parts
    <3> QED BY <2>3, <3>1, PeriodSums
  <2>4. CASE start < t /\ EpochOf(t - 1) # q
    <3>1. PICK u \in Nat, d \in Nat : t = u + 1 /\ d = EpochOf(u)
      <4>1. t - 1 \in Nat /\ t = (t - 1) + 1
        BY <2>4
      <4> QED BY <4>1, EpochBounds
    <3>2. /\ EpochStart(d) \in Nat /\ EpochStart(d) <= u
          /\ EpochStart(d + 1) \in Nat /\ u < EpochStart(d + 1)
      BY <3>1, EpochBounds
    <3>3. PICK b \in Nat : b = EpochStart(q) /\ b <= t /\ EpochStart(q + 1) \in Nat
                           /\ t < EpochStart(q + 1)
      BY <1>1, EpochBounds
    <3>4. u = t - 1
      BY <3>1
    <3>5. d < q
      <4>1. SUFFICES ASSUME q < d PROVE FALSE
        BY <2>4, <3>1, <3>4
      <4>2. EpochStart(q + 1) <= EpochStart(d)
        BY <4>1, EpochsApart
      <4> QED BY <3>1, <3>2, <3>3, <4>2
    <3>6. EpochStart(d + 1) <= b
      BY <3>3, <3>5, EpochsApart
    <3>7. b = t
      BY <3>1, <3>2, <3>3, <3>6
    <3>8. d + 1 = q
      <4>1. PICK p \in Nat : q = p + 1
        <5>1. q - 1 \in Nat /\ q = (q - 1) + 1
          BY <3>5
        <5> QED BY <5>1
      <4>2. EpochStart(p) \in Nat /\ EpochStart(p) < EpochStart(p + 1)
        BY EpochFollows
      <4>3. EpochStart(p + 1) = u + 1
        BY <3>1, <3>3, <3>7, <4>1
      <4>4. EpochStart(p) <= u /\ u < EpochStart(p + 1)
        BY <4>2, <4>3
      <4> QED BY <3>1, <4>1, <4>4, EpochIs
    <3>9. /\ S \ {q} = s .. d /\ F[q] = 0
      <4>1. F[q] = 0 * r /\ 0 * r = 0
        BY <1>2, <1>6, <3>3, <3>7
      <4>2. s .. q \ {q} = s .. d
        BY <3>8
      <4> QED BY <1>b, <4>1, <4>2
    <3>10. Epochs(start, t) = s .. d
      BY <1>1, <3>1, <3>4 DEF Epochs
    <3>11. PICK T, H : T = s .. d /\ H = Parts(rate, start, t)
      OBVIOUS
    <3>12. IsFiniteSet(T) /\ T = S \ {q} /\ \A e \in T : F[e] = H[e] /\ F[e] \in Int
      <4>1. \A e \in T : e \in S
        BY <3>9, <3>11
      <4>2. \A e \in T : F[e] = PartOf(rate, start, t, e) /\ F[e] \in Int
        BY <1>b, <1>8, <4>1
      <4>3. \A e \in T : H[e] = PartOf(rate, start, t, e)
        BY <3>10, <3>11 DEF Parts
      <4>4. T = S \ {q}
        BY <3>9, <3>11
      <4>5. IsFiniteSet(T)
        BY <1>4, <4>4, FS_RemoveElement
      <4> QED BY <4>2, <4>3, <4>4, <4>5
    <3>13. SumOver(F, T) = SumOver(H, T) /\ SumOver(F, T) \in Int
      BY <3>12, SumOfEqual, SumWithout
    <3>14. Farm!RewardsForPeriod(rate, start, t) = SumOver(H, T)
      BY <2>4, <3>10, <3>11, PeriodSums
    <3> QED BY <2>1, <3>9, <3>12, <3>13, <3>14
  <2> QED BY <2>2, <2>3, <2>4
<1> QED BY <1>1, <1>9, <1>10, <1>11

\* However many ledgers and epochs there are between two updates, both come to the same.
LEMMA PeriodIsEmission ==
    ASSUME NEW rate \in Nat, NEW start \in Nat, NEW t \in Nat, start <= t
    PROVE  /\ Farm!RewardsForPeriod(rate, start, t) = Farm!Emission(rate, start, t)
           /\ Farm!Emission(rate, start, t) \in Nat
<1> DEFINE Same(n) == /\ Farm!RewardsForPeriod(rate, start, n) = Farm!Emission(rate, start, n)
                      /\ Farm!Emission(rate, start, n) \in Nat
           Bad == {n \in Nat : start <= n /\ ~Same(n)}
<1>1. SUFFICES ASSUME Bad # {} PROVE FALSE
  OBVIOUS
<1>2. PICK n \in Bad : \A m \in Bad : n <= m
  BY <1>1, LeastNumber
<1>3. n \in Nat /\ start <= n /\ ~Same(n)
  BY <1>2
<1>4. n # start
  <2>1. start .. start - 1 = {}
    OBVIOUS
  <2>2. Farm!RewardsForPeriod(rate, start, start) = 0 /\ Farm!Emission(rate, start, start) = 0
    BY <2>1, PeriodSums, EmissionSums, SumOfNone
  <2> QED BY <1>3, <2>2
<1>5. PICK m \in Nat : n = m + 1
  <2>1. n - 1 \in Nat /\ n = (n - 1) + 1
    BY <1>3, <1>4
  <2> QED BY <2>1
<1>6. start <= m
  BY <1>3, <1>4, <1>5
<1>7. Same(m)
  BY <1>2, <1>5, <1>6
<1>8. Farm!EffectiveRate(rate, m) \in Nat
  BY RateIsNumber
<1>9. /\ Farm!RewardsForPeriod(rate, start, m + 1) =
             Farm!RewardsForPeriod(rate, start, m) + Farm!EffectiveRate(rate, m)
      /\ Farm!Emission(rate, start, m + 1) =
             Farm!Emission(rate, start, m) + Farm!EffectiveRate(rate, m)
  BY <1>6, PeriodGrows, EmissionGrows
<1> QED BY <1>3, <1>5, <1>7, <1>8, <1>9

------------------------------------------------------------------------------
(* The farm itself *)

FarmFields == {"admin", "rate", "last", "perShare", "remainder", "user", "shares", "total"}

\* What was emitted is what was given to the shares and the remainder.
Accounted(s, h) ==
    /\ DOMAIN s = FarmFields /\ s.rate \in Nat /\ s.last \in Nat
    /\ s.perShare \in Nat /\ s.remainder \in Nat
    /\ s.shares \in [Addresses -> Nat] /\ s.total = SumOver(s.shares, Addresses)
    /\ DOMAIN h = {"emitted", "shared"} /\ h.emitted \in Nat /\ h.shared \in Nat
    /\ h.shared + s.remainder = h.emitted

FarmSafe ==
    /\ Accounted(store, history) /\ now \in Nat
    /\ DOMAIN held = {"lp", "rewards"} /\ held.lp \in [Farm!Holders -> Nat]

LEMMA FarmInit == Farm!Init => FarmSafe
<1> SUFFICES ASSUME Farm!Init PROVE FarmSafe
  OBVIOUS
<1> DEFINE zero == [a \in Addresses |-> 0]
<1>1. /\ DOMAIN store = FarmFields /\ store.rate = 0 /\ store.last = 0 /\ store.perShare = 0
      /\ store.remainder = 0 /\ store.shares = zero /\ store.total = 0
      /\ held = [lp |-> [a \in Farm!Holders |-> 0], rewards |-> 0]
      /\ history = [emitted |-> 0, shared |-> 0] /\ now = 0
  BY DEF Farm!Init, Farm!Deployed, FarmFields
<1>2. zero \in [Addresses -> Nat] /\ SumOver(zero, Addresses) = 0
  BY NoBalances
<1>3. /\ DOMAIN history = {"emitted", "shared"} /\ history.emitted = 0 /\ history.shared = 0
      /\ DOMAIN held = {"lp", "rewards"} /\ held.lp \in [Farm!Holders -> Nat]
  BY <1>1
<1> HIDE DEF zero
<1> QED BY <1>1, <1>2, <1>3 DEF FarmSafe, Accounted

LEMMA EmissionAccounted == FarmSafe => Farm!EmissionIsExact
  BY DEF FarmSafe, Accounted, Farm!EmissionIsExact

LEMMA PoolIsNumber ==
    ASSUME NEW lp \in [Farm!Holders -> Nat]
    PROVE  Farm!PoolShares(lp) \in Nat
<1>1. IsFiniteSet(Farm!Holders)
  <2>1. IsFiniteSet({"vault"})
    BY FS_Singleton
  <2>2. IsFiniteSet(Addresses \cup {"vault"})
    BY <2>1, UsersAssumption, FS_Union
  <2> QED BY <2>2 DEF Farm!Holders
<1>2. PICK S : S = Farm!Holders
  OBVIOUS
<1>3. IsFiniteSet(S) /\ \A a \in S : lp[a] \in Nat
  BY <1>1, <1>2
<1>4. SumOver(lp, S) \in Nat
  BY <1>3, SumOfNumbers
<1>5. Farm!PoolShares(lp) = SumOver(lp, S)
  BY <1>2 DEF Farm!PoolShares, Farm!MapThenSumSet, Farm!MapThenFoldSet, SumOver, Sums, SumRule,
     AnyOf
<1> QED BY <1>4, <1>5

\* _update_global_reward: the division among the shares leaves what it does not give.
LEMMA UpdateAccounts == FarmSafe => Accounted(Farm!Updated, Farm!UpdatedHistory)
<1> SUFFICES ASSUME FarmSafe PROVE Accounted(Farm!Updated, Farm!UpdatedHistory)
  OBVIOUS
<1>a. Accounted(store, history) /\ now \in Nat
  BY DEF FarmSafe
<1>1. PICK total \in Nat : total = Farm!PoolShares(held.lp)
  BY PoolIsNumber DEF FarmSafe
<1>2. CASE now <= store.last
  BY <1>2, <1>a DEF Farm!Updated, Farm!UpdatedHistory
<1>3. CASE ~(now <= store.last) /\ total = 0
  <2>1. Farm!Updated = [store EXCEPT !.last = now] /\ Farm!UpdatedHistory = history
    BY <1>1, <1>3 DEF Farm!Updated, Farm!UpdatedHistory
  <2> QED BY <2>1, <1>a DEF Accounted, FarmFields
<1>4. CASE ~(now <= store.last) /\ total # 0
  <2>1. PICK e \in Nat : /\ e = Farm!RewardsForPeriod(store.rate, store.last, now)
                         /\ e = Farm!Emission(store.rate, store.last, now)
    <3>1. PICK rate \in Nat, start \in Nat, t \in Nat :
              rate = store.rate /\ start = store.last /\ t = now
      BY <1>a DEF Accounted
    <3>2. start <= t
      BY <1>4, <3>1
    <3> QED BY <3>1, <3>2, PeriodIsEmission
  <2>2. PICK unit \in Nat, rest \in Nat, p \in Nat :
            unit = FarmPrecision /\ rest = store.remainder /\ p = store.perShare
    BY <1>a, FarmAssumption DEF Accounted
  <2>3. PICK x \in Nat, y \in Nat : x = e * unit + rest /\ y = e * unit
    <3>1. e * unit \in Nat
      OBVIOUS
    <3> QED BY <3>1
  <2>4. PICK share \in Nat, left \in Nat : share = x \div total /\ left = x % total
    BY <1>4
  <2>5. share * total \in Nat /\ share * total + left = x
    <3>1. x = total * (x \div total) + (x % total)
      BY <1>4
    <3>2. share * total = total * share /\ share * total \in Nat
      OBVIOUS
    <3> QED BY <2>4, <3>1, <3>2
  <2> DEFINE s == [store EXCEPT !.perShare = p + share, !.remainder = left, !.last = now]
             h == [emitted |-> history.emitted + y, shared |-> history.shared + share * total]
  <2>6. Farm!Updated = s
    <3>1. Farm!RewardsForPeriod(store.rate, store.last, now) * FarmPrecision + store.remainder = x
      BY <2>1, <2>2, <2>3
    <3>2. Farm!Updated = Farm!Distributed(store, total)
      BY <1>1, <1>4 DEF Farm!Updated
    <3>3. Farm!Distributed(store, total) =
              [store EXCEPT !.perShare = @ + x \div total, !.remainder = x % total, !.last = now]
      BY <3>1 DEF Farm!Distributed
    <3> QED BY <2>2, <2>4, <3>2, <3>3
  <2>7. /\ DOMAIN s = FarmFields /\ s.rate = store.rate /\ s.last = now
        /\ s.perShare = p + share /\ s.remainder = left
        /\ s.shares = store.shares /\ s.total = store.total
    BY <1>a DEF Accounted, FarmFields
  <2>8. Farm!UpdatedHistory = h
    <3>1. (Farm!Updated.perShare - store.perShare) * total = share * total
      <4>1. Farm!Updated.perShare - store.perShare = share
        BY <2>2, <2>6, <2>7
      <4> QED BY <4>1
    <3> QED BY <1>1, <1>4, <2>1, <2>2, <2>3, <3>1 DEF Farm!UpdatedHistory
  <2>9. /\ DOMAIN h = {"emitted", "shared"} /\ h.emitted = history.emitted + y
        /\ h.shared = history.shared + share * total
    OBVIOUS
  <2> HIDE DEF s, h
  <2>10. h.emitted \in Nat /\ h.shared \in Nat /\ h.shared + s.remainder = h.emitted
    <3>1. history.shared + rest = history.emitted /\ history.shared \in Nat /\ history.emitted \in Nat
      BY <1>a, <2>2 DEF Accounted
    <3>2. x = y + rest
      BY <2>3
    <3>3. PICK z \in Nat : z = share * total
      BY <2>5
    <3> QED BY <2>5, <2>7, <2>9, <3>1, <3>2, <3>3
  <2> QED BY <1>a, <2>6, <2>7, <2>8, <2>9, <2>10 DEF Accounted
<1> QED BY <1>1, <1>2, <1>3, <1>4

\* What an account has been paid is not in the accounts of the farm.
LEMMA UserAccounted ==
    ASSUME FarmSafe, NEW a, NEW u
    PROVE  /\ Accounted(Farm!UserUpdated(a), Farm!UpdatedHistory)
           /\ Accounted([Farm!UserUpdated(a) EXCEPT !.user[a].rewards = 0], Farm!UpdatedHistory)
<1>1. Accounted(Farm!Updated, Farm!UpdatedHistory)
  BY UpdateAccounts
<1>2. \A s, h, v : Accounted(s, h) => Accounted([s EXCEPT !.user = v], h)
  BY DEF Accounted, FarmFields
<1>3. PICK v : Farm!UserUpdated(a) = [Farm!Updated EXCEPT !.user = v]
  BY DEF Farm!UserUpdated
<1>4. Accounted(Farm!UserUpdated(a), Farm!UpdatedHistory)
  BY <1>1, <1>2, <1>3
<1>5. PICK s : s = Farm!UserUpdated(a)
  OBVIOUS
<1>6. [s EXCEPT !.user[a].rewards = 0] = [s EXCEPT !.user = [s.user EXCEPT ![a].rewards = 0]]
  OBVIOUS
<1> QED BY <1>2, <1>4, <1>5, <1>6

LEMMA SharesMove ==
    ASSUME NEW lp \in [Farm!Holders -> Nat], NEW from \in Farm!Holders, NEW to \in Farm!Holders,
           from # to, NEW n \in Nat, n <= lp[from]
    PROVE  [lp EXCEPT ![from] = @ - n, ![to] = @ + n] \in [Farm!Holders -> Nat]
<1>1. lp[from] - n \in Nat /\ lp[to] + n \in Nat
  OBVIOUS
<1> QED BY <1>1

\* The part of the vault's shares that is returned is no more than there is.
LEMMA ReturnedIsThere ==
    ASSUME NEW n \in Nat, NEW total \in Nat, n <= total, total # 0, NEW v \in Nat
    PROVE  (n * v) \div total \in Nat /\ (n * v) \div total <= v
<1>1. PICK x \in Nat : x = n * v
  OBVIOUS
<1>2. PICK q \in Nat : q = x \div total
  OBVIOUS
<1>3. total * q <= x
  BY <1>2
<1>4. PICK k \in Nat : total = n + k
  <2>1. total - n \in Nat /\ total = n + (total - n)
    OBVIOUS
  <2> QED BY <2>1
<1>5. total * v = x + k * v /\ k * v \in Nat
  BY <1>1, <1>4
<1>6. q <= v
  <2>1. SUFFICES ASSUME v < q PROVE FALSE
    OBVIOUS
  <2>2. PICK d \in Nat : q = v + 1 + d
    <3>1. q - (v + 1) \in Nat /\ q = v + 1 + (q - (v + 1))
      BY <2>1
    <3> QED BY <3>1
  <2>3. total * q = total * v + total + total * d /\ total * d \in Nat /\ total * v \in Nat
    BY <2>2
  <2> QED BY <1>3, <1>5, <2>3
<1> QED BY <1>1, <1>2, <1>6

\* The vault's shares and their total, after a deposit or a withdrawal.
LEMMA VaultAccounted ==
    ASSUME FarmSafe, NEW a \in Addresses, NEW n \in Int, store.shares[a] + n \in Nat,
           store' = [store EXCEPT !.shares[a] = @ + n, !.total = @ + n], history' = history
    PROVE  Accounted(store', history')
<1>a. Accounted(store, history)
  BY DEF FarmSafe
<1>1. PICK b, c, k : b = store.shares /\ c = store'.shares /\ k = store.shares[a] + n
  OBVIOUS
<1>2. b \in [Addresses -> Nat] /\ k \in Nat /\ BalanceBecomes(c, b, a, k) /\ k = b[a] + n
  BY <1>a, <1>1 DEF Accounted, FarmFields, BalanceBecomes
<1>3. /\ c \in [Addresses -> Nat] /\ SumOver(c, Addresses) = SumOver(b, Addresses) + k - b[a]
      /\ SumOver(b, Addresses) \in Nat
  BY <1>2, BalanceIs
<1>4. SumOver(c, Addresses) = SumOver(b, Addresses) + n
  BY <1>2, <1>3
<1>5. store'.total = store.total + n
  BY <1>a DEF Accounted, FarmFields
<1>6. /\ DOMAIN store' = FarmFields /\ store'.rate = store.rate /\ store'.last = store.last
      /\ store'.perShare = store.perShare /\ store'.remainder = store.remainder
  BY <1>a DEF Accounted, FarmFields
<1> QED BY <1>a, <1>1, <1>3, <1>4, <1>5, <1>6 DEF Accounted

LEMMA FarmStep == FarmSafe /\ Farm!Next => FarmSafe'
<1> SUFFICES ASSUME FarmSafe, Farm!Next PROVE FarmSafe'
  OBVIOUS
<1>a. /\ Accounted(store, history) /\ now \in Nat
      /\ DOMAIN held = {"lp", "rewards"} /\ held.lp \in [Farm!Holders -> Nat]
  BY DEF FarmSafe
<1>b. "vault" \in Farm!Holders /\ \A a \in Addresses : a \in Farm!Holders /\ a # "vault"
  BY FarmAssumption DEF Farm!Holders
<1>1. ASSUME NEW a \in Addresses, NEW rate \in FarmRates, Farm!Initialize(a, rate)
      PROVE  FarmSafe'
  <2>1. /\ store' = [store EXCEPT !.admin = a, !.rate = rate, !.last = now]
        /\ held' = held /\ history' = history /\ now' = now /\ rate \in Nat
    BY <1>1, FarmAssumption DEF Farm!Initialize, Farm!Call
  <2>2. /\ DOMAIN store' = FarmFields /\ store'.rate = rate /\ store'.last = now
        /\ store'.perShare = store.perShare /\ store'.remainder = store.remainder
        /\ store'.shares = store.shares /\ store'.total = store.total
    BY <2>1, <1>a DEF Accounted, FarmFields
  <2>3. Accounted(store', history')
    BY <2>1, <2>2, <1>a DEF Accounted
  <2> QED BY <2>1, <2>3, <1>a DEF FarmSafe
<1>2. ASSUME NEW rate \in FarmRates, Farm!SetRewardRate(rate)
      PROVE  FarmSafe'
  <2>1. /\ store' = [Farm!Updated EXCEPT !.rate = rate] /\ history' = Farm!UpdatedHistory
        /\ held' = held /\ now' = now /\ rate \in Nat
    BY <1>2, FarmAssumption DEF Farm!SetRewardRate, Farm!Call
  <2>2. \A s, h : Accounted(s, h) => Accounted([s EXCEPT !.rate = rate], h)
    BY <2>1 DEF Accounted, FarmFields
  <2>3. Accounted(store', history')
    BY <2>1, <2>2, UpdateAccounts
  <2> QED BY <2>1, <2>3, <1>a DEF FarmSafe
<1>3. ASSUME NEW a \in Addresses, Farm!ClaimRewards(a)
      PROVE  FarmSafe'
  <2>1. PICK r : held' = [held EXCEPT !.rewards = r]
    BY <1>3 DEF Farm!ClaimRewards
  <2>2. /\ store' = [Farm!UserUpdated(a) EXCEPT !.user[a].rewards = 0]
        /\ history' = Farm!UpdatedHistory /\ now' = now
    BY <1>3 DEF Farm!ClaimRewards, Farm!Call
  <2>3. Accounted(store', history')
    BY <2>2, UserAccounted
  <2>4. DOMAIN held' = {"lp", "rewards"} /\ held'.lp = held.lp
    BY <2>1, <1>a
  <2> QED BY <2>2, <2>3, <2>4, <1>a DEF FarmSafe
<1>4. ASSUME NEW a \in Addresses, NEW n \in 1 .. FarmAmount, Farm!VaultDeposit(a, n)
      PROVE  FarmSafe'
  <2>1. PICK m : m = Farm!Minted(n, held.lp["vault"])
    OBVIOUS
  <2>2. /\ n <= held.lp[a] /\ m > 0 /\ history' = history /\ now' = now
        /\ store' = [store EXCEPT !.shares[a] = @ + m, !.total = @ + m]
        /\ held' = [held EXCEPT !.lp[a] = @ - n, !.lp["vault"] = @ + n]
    BY <1>4, <2>1 DEF Farm!VaultDeposit, Farm!Call
  <2>3. m \in Nat
    <3>1. PICK t \in Nat, v \in Nat : t = store.total /\ v = held.lp["vault"]
      <4>1. SumOver(store.shares, Addresses) \in Nat
        <5>1. PICK b : b = store.shares /\ b \in [Addresses -> Nat]
          BY <1>a DEF Accounted
        <5> QED BY <5>1, UsersAssumption, SumOfNumbers
      <4> QED BY <4>1, <1>a, <1>b DEF Accounted
    <3>2. n \in Nat /\ n * t \in Nat
      OBVIOUS
    <3>3. v # 0 => (n * t) \div v \in Nat
      BY <3>2
    <3> QED BY <2>1, <3>1, <3>2, <3>3 DEF Farm!Minted
  <2>4. store.shares[a] + m \in Nat /\ m \in Int
    BY <2>3, <1>a DEF Accounted
  <2>5. Accounted(store', history')
    BY <2>2, <2>4, VaultAccounted
  <2>6. PICK lp \in [Farm!Holders -> Nat] : lp = held.lp
    BY <1>a
  <2>7. /\ DOMAIN held' = {"lp", "rewards"}
        /\ held'.lp = [lp EXCEPT ![a] = @ - n, !["vault"] = @ + n]
    BY <2>2, <2>6, <1>a
  <2>8. [lp EXCEPT ![a] = @ - n, !["vault"] = @ + n] \in [Farm!Holders -> Nat]
    <3>1. n \in Nat /\ n <= lp[a]
      BY <2>2, <2>6
    <3> QED BY <3>1, <1>b, SharesMove
  <2> QED BY <2>2, <2>5, <2>7, <2>8, <1>a DEF FarmSafe
<1>5. ASSUME NEW a \in Addresses, NEW n \in 1 .. store.shares[a], Farm!VaultWithdraw(a, n)
      PROVE  FarmSafe'
  <2>1. PICK b \in [Addresses -> Nat], t \in Nat, lp \in [Farm!Holders -> Nat] :
            b = store.shares /\ t = store.total /\ lp = held.lp /\ b[a] <= t
    <3>1. PICK c : c = store.shares /\ c \in [Addresses -> Nat]
      BY <1>a DEF Accounted
    <3>2. SumOver(c, Addresses) \in Nat /\ c[a] <= SumOver(c, Addresses)
      BY <3>1, UsersAssumption, SumOfNumbers
    <3> QED BY <3>1, <3>2, <1>a DEF Accounted
  <2>2. n \in Nat /\ n <= b[a] /\ n <= t /\ t # 0 /\ lp["vault"] \in Nat
    BY <2>1, <1>b
  <2>3. PICK r \in Nat : r = (n * lp["vault"]) \div t /\ r <= lp["vault"]
    BY <2>2, ReturnedIsThere
  <2>4. /\ store' = [store EXCEPT !.shares[a] = @ - n, !.total = @ - n]
        /\ held' = [held EXCEPT !.lp[a] = @ + r, !.lp["vault"] = @ - r]
        /\ history' = history /\ now' = now
    BY <1>5, <2>1, <2>3 DEF Farm!VaultWithdraw, Farm!Call
  <2>5. Accounted(store', history')
    <3>1. PICK k \in Int : k = -n
      BY <2>2
    <3>2. store.shares[a] - n = store.shares[a] + k /\ store.total - n = store.total + k
      BY <2>1, <2>2, <3>1
    <3>3. store' = [store EXCEPT !.shares[a] = @ + k, !.total = @ + k]
      BY <2>4, <3>2
    <3>4. store.shares[a] + k \in Nat
      BY <2>1, <2>2, <3>1
    <3> QED BY <2>4, <3>3, <3>4, VaultAccounted
  <2>6. /\ DOMAIN held' = {"lp", "rewards"}
        /\ held'.lp = [lp EXCEPT ![a] = @ + r, !["vault"] = @ - r]
    BY <2>1, <2>4, <1>a
  <2>7. [lp EXCEPT ![a] = @ + r, !["vault"] = @ - r] \in [Farm!Holders -> Nat]
    <3>1. lp[a] + r \in Nat /\ lp["vault"] - r \in Nat
      BY <2>3, <1>b
    <3> QED BY <3>1, <1>b
  <2> QED BY <2>4, <2>5, <2>6, <2>7, <1>a DEF FarmSafe
<1>6. ASSUME NEW n \in 1 .. FarmAmount, Farm!Compound(n)
      PROVE  FarmSafe'
  <2>1. PICK r : held' = [held EXCEPT !.rewards = r, !.lp["vault"] = @ + n]
    BY <1>6 DEF Farm!Compound
  <2>2. /\ store' = [Farm!UserUpdated("vault") EXCEPT !.user["vault"].rewards = 0]
        /\ history' = Farm!UpdatedHistory /\ now' = now
    BY <1>6 DEF Farm!Compound, Farm!Call
  <2>3. Accounted(store', history')
    BY <2>2, UserAccounted
  <2>4. PICK lp \in [Farm!Holders -> Nat] : lp = held.lp
    BY <1>a
  <2>5. DOMAIN held' = {"lp", "rewards"} /\ held'.lp = [lp EXCEPT !["vault"] = @ + n]
    BY <2>1, <2>4, <1>a
  <2>6. [lp EXCEPT !["vault"] = @ + n] \in [Farm!Holders -> Nat]
    <3>1. lp["vault"] + n \in Nat
      BY <2>4, <1>b
    <3> QED BY <3>1
  <2> QED BY <2>2, <2>3, <2>5, <2>6, <1>a DEF FarmSafe
<1>7. ASSUME NEW a \in Addresses, NEW n \in {0, 1}, Farm!PoolMoves(a, n)
      PROVE  FarmSafe'
  <2>1. /\ held' = [held EXCEPT !.lp[a] = n] /\ store' = store /\ history' = history
        /\ now' = now /\ n \in Nat
    BY <1>7 DEF Farm!PoolMoves, Farm!Call
  <2>2. DOMAIN held' = {"lp", "rewards"} /\ held'.lp \in [Farm!Holders -> Nat]
    BY <2>1, <1>a, <1>b
  <2> QED BY <2>1, <2>2, <1>a DEF FarmSafe
<1>8. CASE Farm!Fund
  <2>1. /\ held' = [held EXCEPT !.rewards = FarmAmount] /\ store' = store
        /\ history' = history /\ now' = now
    BY <1>8 DEF Farm!Fund, Farm!Call
  <2>2. DOMAIN held' = {"lp", "rewards"} /\ held'.lp = held.lp
    BY <2>1, <1>a
  <2> QED BY <2>1, <2>2, <1>a DEF FarmSafe
<1>9. CASE Farm!TimePasses
  BY <1>9, <1>a DEF Farm!TimePasses, FarmSafe
<1> QED BY <1>1, <1>2, <1>3, <1>4, <1>5, <1>6, <1>7, <1>8, <1>9 DEF Farm!Next

------------------------------------------------------------------------------
(* Allowances and permits *)

Pairs == Addresses \X Addresses
TokenAllowance == [amount : Nat, expiration : Int]

\* A permit that was honoured has a nonce that is no longer asked for.
UsedUp(p, nonces) == p.nonce \in Nat /\ p.nonce < nonces[<<p.owner, p.spender>>]

TokenAllowed ==
    /\ DOMAIN history = {"given", "honoured", "twice", "left"}
    /\ history.left \in [Pairs -> Nat]
    /\ store.allowance \in [Pairs -> TokenAllowance] /\ store.nonce \in [Pairs -> Nat]
    /\ history.twice = FALSE /\ history.honoured \subseteq Token!Permits
    /\ \A p \in history.honoured : UsedUp(p, store.nonce)
    /\ \A p \in Pairs : store.allowance[p].amount <= history.left[p]

LEMMA AllowedStart == Token!Init => TokenAllowed
<1> SUFFICES ASSUME Token!Init PROVE TokenAllowed
  OBVIOUS
<1>1. /\ store.allowance = [p \in Pairs |-> Token!NoAllowance]
      /\ store.nonce = [p \in Pairs |-> 0] /\ history.left = [p \in Pairs |-> 0]
      /\ DOMAIN history = {"given", "honoured", "twice", "left"}
      /\ history.twice = FALSE /\ history.honoured = {}
  BY DEF Token!Init, Pairs
<1>2. Token!NoAllowance \in TokenAllowance /\ Token!NoAllowance.amount = 0
  BY DEF Token!NoAllowance, TokenAllowance
<1> QED BY <1>1, <1>2 DEF TokenAllowed

LEMMA AllowedIsSpent == TokenAllowed => Token!SpentWithinApproval
<1> SUFFICES ASSUME TokenAllowed, NEW p \in Addresses \X Addresses
             PROVE  /\ ~history.twice
                    /\ store.allowance[p].amount <= history.left[p] /\ history.left[p] >= 0
  BY DEF Token!SpentWithinApproval, TokenAllowed
<1>1. p \in Pairs
  BY DEF Pairs
<1> QED BY <1>1 DEF TokenAllowed

\* One pair's allowance becomes e, of n that are left.
LEMMA AllowanceBecomes ==
    ASSUME TokenAllowed, NEW pair \in Pairs, NEW e \in TokenAllowance, NEW n \in Nat,
           e.amount <= n,
           store'.allowance = [store.allowance EXCEPT ![pair] = e],
           history'.left = [history.left EXCEPT ![pair] = n],
           DOMAIN history' = DOMAIN history, history'.twice = FALSE,
           store'.nonce \in [Pairs -> Nat], history'.honoured \subseteq Token!Permits,
           \A p \in history'.honoured : UsedUp(p, store'.nonce)
    PROVE  TokenAllowed'
<1>1. store'.allowance \in [Pairs -> TokenAllowance] /\ history'.left \in [Pairs -> Nat]
  BY DEF TokenAllowed
<1>2. ASSUME NEW p \in Pairs
      PROVE  store'.allowance[p].amount <= history'.left[p]
  BY DEF TokenAllowed
<1> QED BY <1>1, <1>2 DEF TokenAllowed

LEMMA AllowedStep == TokenSafe /\ TokenAllowed /\ Token!Next => TokenAllowed'
<1> SUFFICES ASSUME TokenSafe, TokenAllowed, Token!Next PROVE TokenAllowed'
  OBVIOUS
<1>a. /\ DOMAIN store = TokenFields
      /\ DOMAIN history = {"given", "honoured", "twice", "left"}
      /\ history.left \in [Pairs -> Nat]
      /\ store.allowance \in [Pairs -> TokenAllowance] /\ store.nonce \in [Pairs -> Nat]
      /\ history.twice = FALSE /\ history.honoured \subseteq Token!Permits
      /\ \A p \in history.honoured : UsedUp(p, store.nonce)
      /\ \A p \in Pairs : store.allowance[p].amount <= history.left[p]
  BY DEF TokenSafe, TokenAllowed
<1>b. ASSUME store'.allowance = store.allowance, store'.nonce = store.nonce,
             DOMAIN history' = DOMAIN history, history'.left = history.left,
             history'.twice = history.twice, history'.honoured = history.honoured
      PROVE  TokenAllowed'
  BY <1>a, <1>b DEF TokenAllowed
<1>c. Token!NoAllowance \in TokenAllowance /\ Token!NoAllowance.amount = 0
  BY DEF Token!NoAllowance, TokenAllowance
<1> USE DEF TokenFields
<1>1. ASSUME NEW a \in Addresses, NEW b \in Addresses,
             \/ Token!Initialize(a) \/ Token!Mint(a, 1) \/ Token!Burn(a, 1)
             \/ Token!Transfer(a, b, 1)
      PROVE  TokenAllowed'
  <2>1. /\ history' = history
        /\ store'.allowance = store.allowance /\ store'.nonce = store.nonce
    BY <1>1, <1>a
    DEF Token!Initialize, Token!Mint, Token!Burn, Token!Transfer, Token!Moved
  <2> QED BY <1>b, <2>1
<1>2. ASSUME NEW a \in Addresses, NEW b \in Addresses, Token!BatchTransfer(a, b, 1, 1)
      PROVE  TokenAllowed'
  <2>1. history' = history
    BY <1>2 DEF Token!BatchTransfer
  <2>2. PICK s : s = Token!Moved(store, a, b, 1)
    OBVIOUS
  <2>3. store' = Token!Moved(s, a, b, 1)
    BY <1>2, <2>2 DEF Token!BatchTransfer
  <2>4. DOMAIN s = TokenFields /\ s.allowance = store.allowance /\ s.nonce = store.nonce
    BY <1>a, <2>2 DEF Token!Moved
  <2>5. store'.allowance = s.allowance /\ store'.nonce = s.nonce
    BY <2>3, <2>4 DEF Token!Moved
  <2> QED BY <1>b, <2>1, <2>4, <2>5
<1>3. ASSUME NEW a \in Addresses, NEW b \in Addresses, NEW n \in {0, 2}, NEW x \in {0, 1},
             Token!Approve(a, b, n, x)
      PROVE  TokenAllowed'
  <2>1. PICK pair \in Pairs : pair = <<a, b>>
    BY DEF Pairs
  <2>2. PICK e : e = IF n = 0 THEN Token!NoAllowance ELSE [amount |-> n, expiration |-> x]
    OBVIOUS
  <2>3. /\ store'.allowance = [store.allowance EXCEPT ![pair] = e]
        /\ store'.nonce = store.nonce
    BY <1>3, <1>a, <2>1, <2>2 DEF Token!Approve
  <2>4. /\ DOMAIN history' = DOMAIN history /\ history'.left = [history.left EXCEPT ![pair] = n]
        /\ history'.twice = history.twice /\ history'.honoured = history.honoured
    BY <1>3, <1>a, <2>1 DEF Token!Approve, Token!Given
  <2>5. n \in Nat /\ e \in TokenAllowance /\ e.amount <= n
    <3>1. n \in Nat /\ x \in Int /\ n <= n
      OBVIOUS
    <3>2. CASE n = 0
      BY <1>c, <2>2, <3>1, <3>2
    <3>3. CASE n # 0
      BY <2>2, <3>1, <3>3 DEF TokenAllowance
    <3> QED BY <3>2, <3>3
  <2> QED BY ZenonT(60), <1>a, <2>3, <2>4, <2>5, AllowanceBecomes
<1>4. ASSUME NEW a \in Addresses, NEW b \in Addresses, NEW approved \in BOOLEAN,
             Token!SetApprovalForAll(a, b, approved)
      PROVE  TokenAllowed'
  BY <1>4, <1>a, <1>b DEF Token!SetApprovalForAll
<1>5. ASSUME NEW a \in Addresses, NEW b \in Addresses, NEW c \in Addresses,
             Token!TransferFrom(a, b, c, 1)
      PROVE  TokenAllowed'
  <2>1. PICK pair \in Pairs : pair = <<b, a>>
    BY DEF Pairs
  <2>2. CASE pair \in store.operators
    <3>1. store' = Token!Moved(store, b, c, 1) /\ history' = history
      BY <1>5, <2>1, <2>2 DEF Token!TransferFrom
    <3>2. store'.allowance = store.allowance /\ store'.nonce = store.nonce
      BY <1>a, <3>1 DEF Token!Moved
    <3> QED BY <1>b, <3>1, <3>2
  <2>3. CASE pair \notin store.operators
    <3>1. PICK left \in Nat, old \in TokenAllowance :
              left = history.left[pair] /\ old = store.allowance[pair] /\ old.amount <= left
      BY <1>a
    <3>2. PICK rest \in Nat : rest = Token!Allowance(pair) - 1 /\ rest <= left - 1
      <4>1. Token!Allowance(pair) \in Nat /\ Token!Allowance(pair) <= left
        BY <3>1 DEF Token!Allowance, TokenAllowance
      <4>2. Token!Allowance(pair) - 1 >= 0
        BY <1>5, <2>1, <2>3 DEF Token!TransferFrom
      <4> QED BY <4>1, <4>2
    <3>3. PICK e : /\ e = IF rest = 0 THEN Token!NoAllowance ELSE [old EXCEPT !.amount = rest]
                   /\ e \in TokenAllowance /\ e.amount = rest
      <4>1. [old EXCEPT !.amount = rest] \in TokenAllowance
            /\ [old EXCEPT !.amount = rest].amount = rest
        BY DEF TokenAllowance
      <4>2. CASE rest = 0
        BY <1>c, <4>2
      <4>3. CASE rest # 0
        BY <4>1, <4>3
      <4> QED BY <4>2, <4>3
    <3>4. PICK s : /\ s = [store EXCEPT !.allowance = [store.allowance EXCEPT ![pair] = e]]
                   /\ store' = Token!Moved(s, b, c, 1)
      <4>1. /\ store' = Token!Moved([store EXCEPT !.allowance[pair] =
                            IF rest = 0 THEN Token!NoAllowance
                            ELSE [store.allowance[pair] EXCEPT !.amount = rest]], b, c, 1)
        BY <1>5, <2>1, <2>3, <3>2 DEF Token!TransferFrom
      <4> QED BY <1>a, <3>1, <3>3, <4>1
    <3>5. /\ store'.allowance = [store.allowance EXCEPT ![pair] = e]
          /\ store'.nonce = store.nonce
      <4>1. /\ DOMAIN s = TokenFields /\ s.nonce = store.nonce
            /\ s.allowance = [store.allowance EXCEPT ![pair] = e]
        BY <1>a, <3>4
      <4>2. store'.allowance = s.allowance /\ store'.nonce = s.nonce
        BY <3>4, <4>1 DEF Token!Moved
      <4> QED BY <4>1, <4>2
    <3>6. /\ DOMAIN history' = DOMAIN history
          /\ history'.left = [history.left EXCEPT ![pair] = left - 1]
          /\ history'.twice = history.twice /\ history'.honoured = history.honoured
      <4>1. history' = [history EXCEPT !.left[pair] = history.left[pair] - 1]
        BY <1>5, <2>1, <2>3 DEF Token!TransferFrom
      <4> QED BY <1>a, <3>1, <4>1
    <3>7. PICK n \in Nat : n = left - 1 /\ e.amount <= n
      BY <3>1, <3>2, <3>3
    <3>8. history'.left = [history.left EXCEPT ![pair] = n] /\ e \in TokenAllowance
      BY <3>3, <3>6, <3>7
    <3> QED BY ZenonT(60), <1>a, <3>5, <3>6, <3>7, <3>8, AllowanceBecomes
  <2> QED BY <2>2, <2>3
<1>6. ASSUME NEW a \in Addresses, NEW b \in Addresses, Token!PurgeExpiredAllowance(<<a, b>>)
      PROVE  TokenAllowed'
  <2>1. PICK pair \in Pairs : pair = <<a, b>>
    BY DEF Pairs
  <2>2. PICK n \in Nat : n = history.left[pair] /\ Token!NoAllowance.amount <= n
    BY <1>a, <1>c
  <2>3. /\ store'.allowance = [store.allowance EXCEPT ![pair] = Token!NoAllowance]
        /\ store'.nonce = store.nonce /\ history' = history
    BY <1>6, <1>a, <2>1 DEF Token!PurgeExpiredAllowance
  <2>4. history'.left = [history.left EXCEPT ![pair] = n]
    BY <1>a, <2>2, <2>3
  <2> QED BY <1>a, <1>c, <2>2, <2>3, <2>4, AllowanceBecomes
<1>7. ASSUME NEW p \in Token!Permits, Token!Permit(p)
      PROVE  TokenAllowed'
  <2>1. /\ p.owner \in Addresses /\ p.spender \in Addresses /\ p.amount = 1
        /\ p.nonce \in Nat /\ p.expiration = 1
    BY DEF Token!Permits
  <2>2. PICK pair \in Pairs : pair = <<p.owner, p.spender>>
    BY <2>1 DEF Pairs
  <2>3. PICK e : e = [amount |-> 1, expiration |-> 1]
    OBVIOUS
  <2>4. /\ store'.allowance = [store.allowance EXCEPT ![pair] = e]
        /\ store'.nonce = [store.nonce EXCEPT ![pair] = store.nonce[pair] + 1]
        /\ p.nonce = store.nonce[pair]
    BY <1>7, <1>a, <2>1, <2>2, <2>3 DEF Token!Permit
  <2>5. /\ DOMAIN history' = DOMAIN history
        /\ history'.left = [history.left EXCEPT ![pair] = 1]
        /\ history'.honoured = history.honoured \cup {p}
        /\ history'.twice = (history.twice \/ p \in history.honoured)
    <3>1. PICK h : h = Token!Given(pair, 1)
      OBVIOUS
    <3>2. /\ DOMAIN h = DOMAIN history /\ h.left = [history.left EXCEPT ![pair] = 1]
          /\ h.honoured = history.honoured /\ h.twice = history.twice
      BY <1>a, <3>1 DEF Token!Given
    <3>3. history' = [h EXCEPT !.honoured = h.honoured \cup {p},
                               !.twice = h.twice \/ p \in history.honoured]
      BY <1>7, <2>1, <2>2, <3>1 DEF Token!Permit
    <3> QED BY <1>a, <3>2, <3>3
  <2>6. p \notin history.honoured
    BY <1>a, <2>2, <2>4 DEF UsedUp
  <2>7. /\ store'.nonce \in [Pairs -> Nat]
        /\ \A q \in Pairs : store.nonce[q] <= store'.nonce[q]
        /\ p.nonce < store'.nonce[pair]
    BY <1>a, <2>1, <2>4
  <2>8. ASSUME NEW q \in history.honoured \cup {p}
        PROVE  UsedUp(q, store'.nonce)
    <3>1. CASE q = p
      BY <2>1, <2>2, <2>7, <3>1 DEF UsedUp
    <3>2. CASE q \in history.honoured
      <4>1. <<q.owner, q.spender>> \in Pairs
        BY <1>a, <3>2 DEF Pairs, Token!Permits
      <4>2. PICK m \in Nat, n \in Nat : m = store.nonce[<<q.owner, q.spender>>]
                                        /\ n = store'.nonce[<<q.owner, q.spender>>] /\ m <= n
        BY <1>a, <2>7, <4>1
      <4>3. q.nonce \in Nat /\ q.nonce < m
        BY <1>a, <3>2, <4>2 DEF UsedUp
      <4> QED BY <4>2, <4>3 DEF UsedUp
    <3> QED BY <3>1, <3>2
  <2>9. history'.twice = FALSE
    BY <1>a, <2>5, <2>6
  <2>10. e \in TokenAllowance /\ e.amount = 1
    BY <2>3 DEF TokenAllowance
  <2>11. PICK n \in Nat : n = 1 /\ e.amount <= n
    BY <2>10
  <2>12. history'.left = [history.left EXCEPT ![pair] = n]
    BY <2>5, <2>11
  <2>13. history'.honoured \subseteq Token!Permits
         /\ \A q \in history'.honoured : UsedUp(q, store'.nonce)
    BY <1>a, <2>5, <2>8
  <2> QED BY <2>4, <2>5, <2>7, <2>9, <2>10, <2>11, <2>12, <2>13, AllowanceBecomes
<1>8. CASE Token!TimePasses
  BY <1>8, <1>b DEF Token!TimePasses
<1> QED BY <1>1, <1>2, <1>3, <1>4, <1>5, <1>6, <1>7, <1>8 DEF Token!Next

------------------------------------------------------------------------------
(* max_votes: Newton's method finds the integer root. *)

\* One step of the method for the root of c.
NewtonStep(c, x) == (x + c \div x) \div 2
NewtonRule(c, f) ==
    f = [x \in 1 .. c |-> IF NewtonStep(c, x) < x THEN f[NewtonStep(c, x)] ELSE x]
Newton(c) == CHOOSE f : NewtonRule(c, f)

Root(c, r) == r * r <= c /\ c < (r + 1) * (r + 1)

\* Above the root a step falls, not below the root.
LEMMA StepFalls ==
    ASSUME NEW c \in Nat, NEW r \in Nat \ {0}, Root(c, r), NEW x \in Nat, x > r
    PROVE  NewtonStep(c, x) \in Nat /\ r <= NewtonStep(c, x) /\ NewtonStep(c, x) < x
<1>1. PICK q \in Nat : q = c \div x /\ q * x <= c /\ c < (q + 1) * x
  <2>1. /\ c \div x \in Nat /\ (c \div x) * x <= c /\ c < ((c \div x) + 1) * x
    OBVIOUS
  <2> QED BY <2>1
<1>2. q <= r
  <2> SUFFICES ASSUME q > r PROVE FALSE
    OBVIOUS
  <2>1. PICK d \in Nat, e \in Nat : q = r + 1 + d /\ x = r + 1 + e
    <3>1. q - r - 1 \in Nat /\ x - r - 1 \in Nat
      OBVIOUS
    <3>2. q = r + 1 + (q - r - 1) /\ x = r + 1 + (x - r - 1)
      OBVIOUS
    <3> QED BY <3>1, <3>2
  <2>2. q * x = (r + 1) * (r + 1) + (r + 1) * e + d * x
    BY <2>1
  <2>3. /\ (r + 1) * e \in Nat /\ d * x \in Nat /\ q * x \in Nat /\ (r + 1) * (r + 1) \in Nat
    BY <2>1
  <2> QED BY <1>1, <2>2, <2>3 DEF Root
<1>3. x + q >= 2 * r
  <2> SUFFICES ASSUME x + q < 2 * r PROVE FALSE
    OBVIOUS
  <2>1. PICK d \in Nat, e \in Nat : x = r + 1 + d /\ r = q + 1 + d + e + 1
    <3>1. x - r - 1 \in Nat /\ x = r + 1 + (x - r - 1)
      OBVIOUS
    <3>2. (2 * r - (x + q)) - 1 \in Nat
      OBVIOUS
    <3>3. r = q + 1 + (x - r - 1) + ((2 * r - (x + q)) - 1) + 1
      BY <3>1
    <3> QED BY <3>1, <3>2, <3>3
  <2>2. PICK s \in Nat : s = d + e /\ r = (q + 1) + s + 1
    BY <2>1
  <2>3. (q + 1) * x <= r * r
    <3>1. (q + 1) * x = (q + 1) * r + (q + 1) * (d + 1)
      BY <2>1
    <3>2. r * r = (q + 1) * r + (s + 1) * r
      BY <2>2
    <3>3. PICK m \in Nat : r = d + 1 + m /\ m = (q + 1) + e
      <4>1. (q + 1) + e \in Nat /\ r = d + 1 + ((q + 1) + e)
        BY <2>1
      <4> QED BY <4>1
    <3>4. (s + 1) * r = (d + 1) * r + e * r
      BY <2>2
    <3>5. (d + 1) * r = (d + 1) * (q + 1) + (d + 1) * (d + e + 1)
      <4>1. r = (q + 1) + (d + e + 1)
        BY <2>1
      <4> QED BY <2>1, <4>1
    <3>6. e * r \in Nat /\ (d + 1) * (d + e + 1) \in Nat /\ (q + 1) * r \in Nat
          /\ (q + 1) * (d + 1) = (d + 1) * (q + 1) /\ (d + 1) * (q + 1) \in Nat
      OBVIOUS
    <3> QED BY <3>1, <3>2, <3>4, <3>5, <3>6
  <2>4. (q + 1) * x \in Nat /\ r * r \in Nat
    OBVIOUS
  <2> QED BY <1>1, <2>3, <2>4 DEF Root
<1>4. PICK y \in Nat : y = NewtonStep(c, x) /\ y = (x + q) \div 2
  BY <1>1 DEF NewtonStep
<1>5. r <= y /\ y < x
  BY <1>2, <1>3, <1>4
<1> QED BY <1>4, <1>5

\* Up to the root a step does not fall.
LEMMA StepRests ==
    ASSUME NEW c \in Nat, NEW r \in Nat, Root(c, r), NEW x \in 1 .. r
    PROVE  ~(NewtonStep(c, x) < x)
<1>1. PICK q \in Nat : q = c \div x /\ c < (q + 1) * x
  <2>1. c \div x \in Nat /\ c < ((c \div x) + 1) * x
    OBVIOUS
  <2> QED BY <2>1
<1>2. q >= x
  <2> SUFFICES ASSUME q < x PROVE FALSE
    OBVIOUS
  <2>1. PICK d \in Nat, e \in Nat : x = q + 1 + d /\ r = x + e
    <3>1. x - q - 1 \in Nat /\ r - x \in Nat /\ x = q + 1 + (x - q - 1) /\ r = x + (r - x)
      OBVIOUS
    <3> QED BY <3>1
  <2>2. r * r = (q + 1) * x + d * x + x * e + e * r
    BY <2>1
  <2>3. d * x \in Nat /\ x * e \in Nat /\ e * r \in Nat /\ (q + 1) * x \in Nat /\ r * r \in Nat
    OBVIOUS
  <2> QED BY <1>1, <2>2, <2>3 DEF Root
<1>3. NewtonStep(c, x) = (x + q) \div 2
  BY <1>1 DEF NewtonStep
<1> QED BY <1>2, <1>3

LEMMA NewtonFinds ==
    ASSUME NEW c \in Nat, NEW r \in 1 .. c, Root(c, r), NEW x \in r .. c
    PROVE  Newton(c)[x] = r
<1> DEFINE g == [y \in 1 .. c |-> IF y > r THEN r ELSE y]
<1>1. ASSUME NEW y \in 1 .. c, y > r
      PROVE  NewtonStep(c, y) \in r .. c /\ NewtonStep(c, y) < y
  <2>1. NewtonStep(c, y) \in Nat /\ r <= NewtonStep(c, y) /\ NewtonStep(c, y) < y
    BY <1>1, StepFalls
  <2> QED BY <2>1
<1>2. ASSUME NEW y \in 1 .. r
      PROVE  ~(NewtonStep(c, y) < y)
  BY StepRests
<1>3. NewtonRule(c, g)
  <2>1. ASSUME NEW y \in 1 .. c
        PROVE  g[y] = IF NewtonStep(c, y) < y THEN g[NewtonStep(c, y)] ELSE y
    <3>1. CASE y > r
      <4>1. PICK z \in r .. c : z = NewtonStep(c, y) /\ z < y
        BY <1>1, <3>1
      <4>2. g[y] = r /\ g[z] = r
        BY <3>1
      <4> QED BY <4>1, <4>2
    <3>2. CASE y <= r
      <4>1. g[y] = y /\ ~(NewtonStep(c, y) < y)
        BY <1>2, <3>2
      <4> QED BY <4>1
    <3> QED BY <3>1, <3>2
  <2> HIDE DEF NewtonRule
  <2>2. g = [y \in 1 .. c |-> g[y]]
    OBVIOUS
  <2> HIDE DEF g
  <2> QED BY <2>1, <2>2 DEF NewtonRule
<1> HIDE DEF g
<1>4. PICK f : f = Newton(c) /\ NewtonRule(c, f)
  BY <1>3, Zenon DEF Newton
<1>5. \A y \in 1 .. c : f[y] = IF NewtonStep(c, y) < y THEN f[NewtonStep(c, y)] ELSE y
  BY <1>4 DEF NewtonRule
<1> DEFINE Bad == {y \in r .. c : f[y] # r}
<1>6. ASSUME Bad # {} PROVE FALSE
  <2>1. Bad \in SUBSET Nat
    OBVIOUS
  <2>2. PICK y \in Bad : \A m \in Bad : y <= m
    <3> HIDE DEF Bad
    <3> QED BY <1>6, <2>1, LeastNumber
  <2>3. y \in 1 .. c /\ y >= r
    BY <2>2
  <2>4. CASE y = r
    <3>1. f[y] = y
      BY <1>2, <1>5, <2>3, <2>4
    <3> QED BY <2>2, <2>4, <3>1
  <2>5. CASE y > r
    <3>1. PICK z \in r .. c : z = NewtonStep(c, y) /\ z < y
      BY <1>1, <2>3, <2>5
    <3>2. f[y] = f[z]
      BY <1>5, <2>3, <3>1
    <3>3. z \notin Bad
      BY <2>2, <2>3, <3>1
    <3> QED BY <2>2, <3>1, <3>2, <3>3
  <2> QED BY <2>3, <2>4, <2>5
<1> QED BY <1>4, <1>6

LEMMA VotesAreRoot ==
    ASSUME NEW c \in Nat
    PROVE  Root(c, Governance!MaxVotes(c))
<1>1. CASE c <= 1
  <2>1. Governance!MaxVotes(c) = c
    BY <1>1 DEF Governance!MaxVotes
  <2>2. c = 0 \/ c = 1
    BY <1>1
  <2> QED BY <2>1, <2>2 DEF Root
<1>2. CASE c > 1
  <2>1. PICK r \in Nat : r \in 0 .. c /\ Root(c, r)
    BY IntegerRoot DEF Root
  <2>2. r >= 1
    <3> SUFFICES ASSUME r = 0 PROVE FALSE
      BY <2>1
    <3> QED BY <1>2, <2>1 DEF Root
  <2>3. 2 * r <= c + 1
    <3>1. PICK k \in Nat : r = k + 1
      <4>1. r - 1 \in Nat /\ r = (r - 1) + 1
        BY <2>2
      <4> QED BY <4>1
    <3>2. r * r = k * k + 2 * k + 1 /\ k * k \in Nat /\ r * r \in Nat
      BY <3>1
    <3> QED BY <2>1, <3>1, <3>2 DEF Root
  <2>4. PICK half \in Nat : half = (c + 1) \div 2
    OBVIOUS
  <2>5. half \in r .. c /\ half < c
    BY <1>2, <2>3, <2>4
  <2>6. Governance!MaxVotes(c) = Newton(c)[half]
    BY <1>2, <2>4, <2>5 DEF Governance!MaxVotes, Newton, NewtonRule, NewtonStep
  <2> QED BY <2>1, <2>2, <2>5, <2>6, NewtonFinds
<1> QED BY <1>1, <1>2

------------------------------------------------------------------------------
(* Votes and what they cost *)

\* The votes on record for one side of a proposal, by voter.
VotesOf(p, support) ==
    [a \in Addresses |-> IF p.userVotes[a].support = support THEN p.userVotes[a].votes ELSE 0]

TallyKept(p) ==
    /\ p.votesFor = SumOver(VotesOf(p, TRUE), Addresses)
    /\ p.votesAgainst = SumOver(VotesOf(p, FALSE), Addresses)

\* Where an id was given out twice, votes for the first proposal may be on record besides.
TallyWithin(p) ==
    /\ p.votesFor <= SumOver(VotesOf(p, TRUE), Addresses)
    /\ p.votesAgainst <= SumOver(VotesOf(p, FALSE), Addresses)

\* What a voter's votes on each of the proposals cost, and all together.
CostOf(ps, a) ==
    [id \in DOMAIN ps |-> ps[id].userVotes[a].votes * ps[id].userVotes[a].votes]
PaidIn(ps, a) == SumOver(CostOf(ps, a), DOMAIN ps)

\* The ids that are still to be given out a second time were given out early.
CountSafe ==
    /\ store.credits \in [Addresses -> Nat \cup {-1}]
    /\ history \in [given : [Addresses -> Nat], early : Nat]
    /\ \A a \in Addresses : store.credits[a] = -1 => history.given[a] = DefaultCredits
    /\ \A id \in DOMAIN store.proposals :
          /\ TallyWithin(store.proposals[id])
          /\ id > history.early => TallyKept(store.proposals[id])
          /\ id > store.counter => id <= history.early
    /\ \A a \in Addresses :
          Governance!Credits(a) + PaidIn(store.proposals, a) = history.given[a]

LEMMA VoteIsNumber ==
    ASSUME NEW p \in Governance!Proposal, NEW a \in Addresses
    PROVE  /\ p.userVotes[a].votes \in Nat /\ p.userVotes[a].support \in BOOLEAN
           /\ p.userVotes[a].votes * p.userVotes[a].votes \in Nat
<1>1. PICK v \in [votes : Nat, support : BOOLEAN] : v = p.userVotes[a]
  BY DEF Governance!Proposal
<1>2. PICK n \in Nat : n = p.userVotes[a].votes
  BY <1>1
<1>3. n * n \in Nat
  OBVIOUS
<1> QED BY <1>1, <1>2, <1>3

LEMMA CostIsNumber ==
    ASSUME NEW ps \in Proposals, NEW a \in Addresses
    PROVE  /\ IsFiniteSet(DOMAIN ps) /\ DOMAIN ps = 1 .. Len(ps) /\ Len(ps) \in Nat
           /\ \A id \in DOMAIN ps : CostOf(ps, a)[id] \in Nat
<1>1. DOMAIN ps = 1 .. Len(ps) /\ Len(ps) \in Nat
      /\ \A id \in DOMAIN ps : ps[id] \in Governance!Proposal
  BY DEF Proposals
<1>2. IsFiniteSet(1 .. Len(ps))
  BY <1>1, FS_Interval
<1>3. ASSUME NEW id \in DOMAIN ps
      PROVE  CostOf(ps, a)[id] \in Nat
  BY <1>1, VoteIsNumber DEF CostOf
<1> QED BY <1>1, <1>2, <1>3

\* One proposal changes, and with it what a voter's votes on it cost.
LEMMA CostChanges ==
    ASSUME NEW ps \in Proposals, NEW id \in DOMAIN ps, NEW p \in Governance!Proposal,
           NEW a \in Addresses, NEW old \in Nat, NEW new \in Nat,
           ps[id].userVotes[a].votes = old, p.userVotes[a].votes = new
    PROVE  /\ PaidIn([ps EXCEPT ![id] = p], a) = PaidIn(ps, a) + new * new - old * old
           /\ PaidIn(ps, a) \in Int
<1> DEFINE qs == [ps EXCEPT ![id] = p]
<1>1. PICK S, F, G : S = DOMAIN ps /\ F = CostOf(ps, a) /\ G = CostOf(qs, a)
  OBVIOUS
<1>2. DOMAIN qs = S /\ qs[id] = p /\ \A i \in S \ {id} : qs[i] = ps[i]
  BY <1>1
<1> HIDE DEF qs
<1>3. F[id] = old * old /\ G[id] = new * new /\ \A i \in S \ {id} : G[i] = F[i]
  BY <1>1, <1>2 DEF CostOf
<1>4. PICK k \in Nat, l \in Nat : k = old * old /\ l = new * new
  OBVIOUS
<1>5. /\ IsFiniteSet(S) /\ id \in S /\ G[id] \in Int /\ \A x \in S : F[x] \in Int
      /\ \A x \in S \ {id} : G[x] = F[x]
  BY <1>1, <1>3, <1>4, CostIsNumber
<1>6. SumOver(G, S) = SumOver(F, S) + G[id] - F[id] /\ SumOver(F, S) \in Int
  BY <1>5, SumChanged, SumWithout
<1>7. PaidIn(ps, a) = SumOver(F, S) /\ PaidIn(qs, a) = SumOver(G, S)
  BY <1>1, <1>2 DEF PaidIn
<1> QED BY <1>3, <1>6, <1>7 DEF qs

\* A new proposal has no votes that cost anything.
LEMMA NewIsFree ==
    ASSUME NEW ps \in Proposals, NEW p \in Governance!Proposal, NEW a \in Addresses,
           p.userVotes[a].votes = 0
    PROVE  PaidIn(Append(ps, p), a) = PaidIn(ps, a)
<1>1. PICK n \in Nat : n = Len(ps) /\ DOMAIN ps = 1 .. n
  BY CostIsNumber
<1>2. PICK qs : qs = Append(ps, p)
  OBVIOUS
<1>a. qs \in Proposals
  BY <1>2 DEF Proposals
<1>3. /\ DOMAIN qs = 1 .. n + 1 /\ qs[n + 1] = p
      /\ \A i \in 1 .. n : qs[i] = ps[i]
  BY <1>1, <1>2 DEF Proposals
<1>4. PICK S, F, G, c : S = 1 .. n + 1 /\ F = CostOf(ps, a) /\ G = CostOf(qs, a) /\ c = n + 1
  OBVIOUS
<1>5. /\ c \in S /\ S \ {c} = 1 .. n /\ G[c] = 0 /\ \A i \in 1 .. n : G[i] = F[i]
  <2>1. c \in S /\ S \ {c} = 1 .. n
    BY <1>4
  <2>2. G[c] = 0 * 0
    BY <1>3, <1>4 DEF CostOf
  <2>3. \A i \in 1 .. n : G[i] = F[i]
    BY <1>1, <1>3, <1>4 DEF CostOf
  <2> QED BY <2>1, <2>2, <2>3
<1>6. IsFiniteSet(S) /\ \A x \in S : G[x] \in Int
  BY <1>a, <1>3, <1>4, CostIsNumber
<1>7. SumOver(G, S) = G[c] + SumOver(G, S \ {c})
  BY <1>5, <1>6, SumWithout
<1>8. PICK T : T = 1 .. n /\ IsFiniteSet(T) /\ \A x \in T : G[x] = F[x]
  BY <1>1, <1>5, CostIsNumber
<1>9. SumOver(G, T) = SumOver(F, T)
  BY <1>8, SumOfEqual
<1>10. SumOver(F, T) \in Int
  <2>1. \A x \in T : F[x] \in Int
    BY <1>1, <1>4, <1>8, CostIsNumber
  <2> QED BY <1>8, <2>1, SumWithout
<1>11. PaidIn(ps, a) = SumOver(F, T) /\ PaidIn(qs, a) = SumOver(G, S)
  BY <1>1, <1>3, <1>4, <1>8 DEF PaidIn
<1>12. SumOver(G, S) = 0 + SumOver(G, T)
  BY <1>5, <1>7, <1>8
<1>13. SumOver(G, S) = SumOver(F, T)
  BY <1>9, <1>10, <1>12
<1> QED BY <1>2, <1>11, <1>13

\* Whoever had no vote casts n of them.
LEMMA VoteIsCounted ==
    ASSUME NEW q \in Governance!Proposal, NEW a \in Addresses,
           NEW n \in Nat, NEW support \in BOOLEAN, q.userVotes[a].votes = 0, NEW p,
           p.userVotes = [q.userVotes EXCEPT ![a] = [votes |-> n, support |-> support]],
           p.votesFor = IF support THEN q.votesFor + n ELSE q.votesFor,
           p.votesAgainst = IF support THEN q.votesAgainst ELSE q.votesAgainst + n
    PROVE  /\ TallyKept(q) => TallyKept(p)
           /\ TallyWithin(q) => TallyWithin(p)
<1>1. ASSUME NEW side \in BOOLEAN
      PROVE  /\ support = side => SumOver(VotesOf(p, side), Addresses)
                                      = SumOver(VotesOf(q, side), Addresses) + n
             /\ support # side => SumOver(VotesOf(p, side), Addresses)
                                      = SumOver(VotesOf(q, side), Addresses)
  <2>1. PICK F, G : F = VotesOf(q, side) /\ G = VotesOf(p, side)
    OBVIOUS
  <2>2. q.userVotes \in [Addresses -> [votes : Nat, support : BOOLEAN]]
    BY DEF Governance!Proposal
  <2>3. \A x \in Addresses : F[x] \in Int
    BY <2>1, VoteIsNumber DEF VotesOf
  <2>4. F[a] = 0 /\ G[a] = IF support = side THEN n ELSE 0
    BY <2>1, <2>2 DEF VotesOf
  <2>5. \A x \in Addresses \ {a} : G[x] = F[x]
    BY <2>1, <2>2 DEF VotesOf
  <2>6. G[a] \in Int
    BY <2>4
  <2>7. SumOver(G, Addresses) = SumOver(F, Addresses) + G[a] - F[a]
    BY <2>3, <2>5, <2>6, UsersAssumption, SumChanged
  <2>8. SumOver(F, Addresses) \in Int
    BY <2>3, UsersAssumption, SumWithout
  <2> QED BY <2>1, <2>4, <2>6, <2>7, <2>8
<1>3. PICK yes \in BOOLEAN, no \in BOOLEAN : yes = TRUE /\ no = FALSE
  OBVIOUS
<1>4. PICK f, f1, g, g1 :
          /\ f = SumOver(VotesOf(q, yes), Addresses) /\ f1 = SumOver(VotesOf(p, yes), Addresses)
          /\ g = SumOver(VotesOf(q, no), Addresses) /\ g1 = SumOver(VotesOf(p, no), Addresses)
  OBVIOUS
<1>5. f \in Int /\ g \in Int /\ q.votesFor \in Nat /\ q.votesAgainst \in Nat
  <2>1. ASSUME NEW side \in BOOLEAN
        PROVE  SumOver(VotesOf(q, side), Addresses) \in Int
    <3>1. \A x \in Addresses : VotesOf(q, side)[x] \in Int
      BY VoteIsNumber DEF VotesOf
    <3> QED BY <3>1, UsersAssumption, SumWithout
  <2> QED BY <1>4, <2>1 DEF Governance!Proposal
<1>6. /\ q.votesFor = f /\ q.votesAgainst = g => p.votesFor = f1 /\ p.votesAgainst = g1
      /\ q.votesFor <= f /\ q.votesAgainst <= g => p.votesFor <= f1 /\ p.votesAgainst <= g1
  <2>1. CASE support
    <3>1. support = yes /\ support # no
      BY <1>3, <2>1
    <3>2. f1 = f + n /\ g1 = g
      BY <1>1, <1>4, <3>1
    <3>3. p.votesFor = q.votesFor + n /\ p.votesAgainst = q.votesAgainst
      BY <2>1
    <3> QED BY <1>5, <3>2, <3>3
  <2>2. CASE ~support
    <3>1. support = no /\ support # yes
      BY <1>3, <2>2
    <3>2. f1 = f /\ g1 = g + n
      BY <1>1, <1>4, <3>1
    <3>3. p.votesFor = q.votesFor /\ p.votesAgainst = q.votesAgainst + n
      BY <2>2
    <3> QED BY <1>5, <3>2, <3>3
  <2> QED BY <2>1, <2>2
<1> QED BY <1>3, <1>4, <1>6 DEF TallyKept, TallyWithin

LEMMA NothingPaid ==
    ASSUME NEW a PROVE PaidIn(<<>>, a) = 0
  BY SumOfNone DEF PaidIn

LEMMA CountStart == Governance!Init => CountSafe
<1> SUFFICES ASSUME Governance!Init PROVE CountSafe
  OBVIOUS
<1>1. /\ store.credits = [a \in Addresses |-> -1] /\ store.proposals = <<>>
      /\ history = [given |-> [a \in Addresses |-> DefaultCredits], early |-> 0]
      /\ DefaultCredits \in Nat
  BY GovernanceAssumption DEF Governance!Init, Governance!Unset
<1>2. \A a \in Addresses : PaidIn(store.proposals, a) = 0
  BY <1>1, NothingPaid
<1>3. \A a \in Addresses : Governance!Credits(a) = DefaultCredits
  BY <1>1 DEF Governance!Credits, Governance!Unset
<1> QED BY <1>1, <1>2, <1>3 DEF CountSafe

LEMMA CreditsAreNumbers ==
    ASSUME CountSafe, NEW a \in Addresses
    PROVE  Governance!Credits(a) \in Nat
  BY GovernanceAssumption DEF CountSafe, Governance!Credits, Governance!Unset

LEMMA CountIsOnce ==
    CountSafe => /\ Governance!TallyIsVotes /\ Governance!VotesArePaid
                 /\ Governance!MaxVotesIsRoot
<1> SUFFICES ASSUME CountSafe
             PROVE  /\ Governance!TallyIsVotes /\ Governance!VotesArePaid
                    /\ Governance!MaxVotesIsRoot
  OBVIOUS
<1>1. ASSUME NEW p, NEW side \in BOOLEAN
      PROVE  Governance!Tally(p, side) = SumOver(VotesOf(p, side), Addresses)
  BY DEF Governance!Tally, Governance!MapThenSumSet, Governance!MapThenFoldSet, VotesOf,
     SumOver, Sums, SumRule, AnyOf
<1>2. ASSUME NEW a \in Addresses
      PROVE  Governance!Paid(a) = PaidIn(store.proposals, a)
  BY DEF Governance!Paid, Governance!MapThenSumSet, Governance!MapThenFoldSet, CostOf,
     PaidIn, SumOver, Sums, SumRule, AnyOf
<1>3. Governance!TallyIsVotes
  BY <1>1 DEF Governance!TallyIsVotes, CountSafe, TallyKept, TallyWithin
<1>4. Governance!VotesArePaid
  BY <1>2 DEF Governance!VotesArePaid, CountSafe
<1>5. Governance!MaxVotesIsRoot
  BY CreditsAreNumbers, VotesAreRoot DEF Governance!MaxVotesIsRoot, Root
<1> QED BY <1>3, <1>4, <1>5

\* The votes stay, and the voters have what they had.
LEMMA VotesStay ==
    ASSUME CountSafe, store'.credits = store.credits, history' = history,
           store'.counter = store.counter,
           DOMAIN store'.proposals = DOMAIN store.proposals,
           \A id \in DOMAIN store.proposals :
              /\ store'.proposals[id].userVotes = store.proposals[id].userVotes
              /\ store'.proposals[id].votesFor = store.proposals[id].votesFor
              /\ store'.proposals[id].votesAgainst = store.proposals[id].votesAgainst
    PROVE  CountSafe'
<1>1. \A a \in Addresses : Governance!Credits(a)' = Governance!Credits(a)
  BY DEF Governance!Credits
<1>2. ASSUME NEW a \in Addresses
      PROVE  PaidIn(store'.proposals, a) = PaidIn(store.proposals, a)
  BY DEF PaidIn, CostOf
<1>3. ASSUME NEW id \in DOMAIN store.proposals
      PROVE  /\ TallyWithin(store'.proposals[id])
             /\ id > history.early => TallyKept(store'.proposals[id])
             /\ id > store.counter => id <= history.early
  <2>1. /\ TallyWithin(store.proposals[id])
        /\ id > history.early => TallyKept(store.proposals[id])
        /\ id > store.counter => id <= history.early
    BY DEF CountSafe
  <2> QED BY <2>1 DEF TallyKept, TallyWithin, VotesOf
<1> QED BY <1>1, <1>2, <1>3 DEF CountSafe

LEMMA VoteStep ==
    ASSUME GovernanceSafe, CountSafe, NEW a \in Addresses, NEW id \in DOMAIN store.proposals,
           NEW support \in BOOLEAN, NEW n \in Votes, Governance!Vote(a, id, support, n)
    PROVE  CountSafe'
<1>a. /\ DOMAIN store = GovernanceFields
      /\ store.proposals \in Proposals /\ n \in Nat
      /\ store.credits \in [Addresses -> Nat \cup {-1}]
      /\ history \in [given : [Addresses -> Nat], early : Nat]
      /\ \A i \in DOMAIN store.proposals :
            /\ TallyWithin(store.proposals[i])
            /\ i > history.early => TallyKept(store.proposals[i])
            /\ i > store.counter => i <= history.early
  BY GovernanceAssumption DEF GovernanceSafe, CountSafe
<1>1. PICK q \in Governance!Proposal : q = store.proposals[id]
  BY <1>a DEF Proposals
<1>2. PICK k \in Nat : k = n * n
  BY <1>a
<1> DEFINE vote == [votes |-> n, support |-> support]
           c == Governance!Counted(q, support, n)
           p == [c EXCEPT !.totalCost = c.totalCost + k, !.voters = c.voters + 1,
                          !.userVotes = [c.userVotes EXCEPT ![a] = vote]]
<1>3. /\ c \in Governance!Proposal /\ c.userVotes = q.userVotes
      /\ c.votesFor = (IF support THEN q.votesFor + n ELSE q.votesFor)
      /\ c.votesAgainst = (IF support THEN q.votesAgainst ELSE q.votesAgainst + n)
  BY <1>a DEF Governance!Counted, Governance!Proposal
<1>4. /\ p \in Governance!Proposal
      /\ p.userVotes = [q.userVotes EXCEPT ![a] = [votes |-> n, support |-> support]]
      /\ p.votesFor = c.votesFor /\ p.votesAgainst = c.votesAgainst
  <2>1. vote \in [votes : Nat, support : BOOLEAN] /\ vote = [votes |-> n, support |-> support]
    BY <1>a
  <2> HIDE DEF c, vote
  <2>2. /\ c.totalCost + k \in Nat /\ c.voters + 1 \in Nat
        /\ [c.userVotes EXCEPT ![a] = vote] \in [Addresses -> [votes : Nat, support : BOOLEAN]]
    BY <1>3, <2>1 DEF Governance!Proposal
  <2> QED BY <1>3, <2>1, <2>2 DEF Governance!Proposal
<1>5. /\ q.userVotes[a] = Governance!NoVote /\ Governance!Credits(a) >= k /\ history' = history
      /\ store' = [store EXCEPT !.credits = [store.credits EXCEPT ![a] = Governance!Credits(a) - k],
                                !.proposals = [store.proposals EXCEPT ![id] = p]]
  <2>1. DOMAIN c = {"creator", "votesFor", "votesAgainst", "totalCost", "voters",
                    "deadline", "quorum", "status", "userVotes"}
    BY <1>3 DEF Governance!Proposal
  <2> HIDE DEF c
  <2> QED BY <1>a, <1>1, <1>2, <2>1 DEF Governance!Vote, GovernanceFields, c
<1> HIDE DEF p, c, vote
<1>6. q.userVotes[a].votes = 0
  BY <1>5 DEF Governance!NoVote
<1>7. TallyWithin(p) /\ (id > history.early => TallyKept(p))
  <2>1. TallyWithin(q) /\ (id > history.early => TallyKept(q))
    BY <1>a, <1>1
  <2>2. PICK m \in Nat : m = n
    BY <1>a
  <2>3. /\ p.userVotes = [q.userVotes EXCEPT ![a] = [votes |-> m, support |-> support]]
        /\ p.votesFor = (IF support THEN q.votesFor + m ELSE q.votesFor)
        /\ p.votesAgainst = (IF support THEN q.votesAgainst ELSE q.votesAgainst + m)
    BY <1>3, <1>4, <2>2
  <2> QED BY <1>6, <2>1, <2>3, VoteIsCounted
<1>8. PICK e \in Nat, d \in Nat : e = Governance!Credits(a) /\ d = e - k
  BY <1>5, CreditsAreNumbers
<1>9. /\ store'.credits = [store.credits EXCEPT ![a] = d]
      /\ store'.proposals = [store.proposals EXCEPT ![id] = p]
      /\ store'.counter = store.counter
  BY <1>a, <1>5, <1>8 DEF GovernanceFields
<1>10. \A b \in Addresses : Governance!Credits(b)' = IF b = a THEN d ELSE Governance!Credits(b)
  BY <1>a, <1>8, <1>9 DEF Governance!Credits, Governance!Unset
<1>11. PaidIn(store'.proposals, a) = PaidIn(store.proposals, a) + k
       /\ PaidIn(store.proposals, a) \in Int
  <2>1. PICK v \in Nat, w \in Nat : v = 0 /\ w = n
    BY <1>a
  <2>2. store.proposals[id].userVotes[a].votes = v /\ p.userVotes[a].votes = w
    BY <1>1, <1>4, <1>6, <2>1 DEF Governance!Proposal
  <2>3. /\ PaidIn(store'.proposals, a) = PaidIn(store.proposals, a) + w * w - v * v
        /\ PaidIn(store.proposals, a) \in Int
    <3>1. PICK ps \in Proposals : ps = store.proposals
      BY <1>a
    <3>2. /\ id \in DOMAIN ps /\ p \in Governance!Proposal
          /\ ps[id].userVotes[a].votes = v /\ p.userVotes[a].votes = w
      BY <1>4, <2>2, <3>1
    <3>3. /\ PaidIn([ps EXCEPT ![id] = p], a) = PaidIn(ps, a) + w * w - v * v
          /\ PaidIn(ps, a) \in Int
      BY <3>2, CostChanges
    <3> QED BY <1>9, <3>1, <3>3
  <2>4. w * w = k /\ v * v = 0
    BY <1>2, <2>1
  <2> QED BY <2>3, <2>4
<1>12. ASSUME NEW b \in Addresses \ {a}
       PROVE  PaidIn(store'.proposals, b) = PaidIn(store.proposals, b)
  <2>1. p.userVotes[b] = q.userVotes[b]
    BY <1>4 DEF Governance!Proposal
  <2>2. /\ DOMAIN store'.proposals = DOMAIN store.proposals
        /\ \A i \in DOMAIN store.proposals :
              store'.proposals[i].userVotes[b] = store.proposals[i].userVotes[b]
    BY <1>1, <1>9, <2>1
  <2> QED BY <2>2 DEF PaidIn, CostOf
<1>13. /\ store'.credits \in [Addresses -> Nat \cup {-1}]
       /\ history' \in [given : [Addresses -> Nat], early : Nat]
  BY <1>a, <1>5, <1>9
<1>14. \A b \in Addresses : store'.credits[b] = -1 => history'.given[b] = DefaultCredits
  BY <1>a, <1>5, <1>9 DEF CountSafe
<1>15. \A i \in DOMAIN store'.proposals :
          /\ TallyWithin(store'.proposals[i])
          /\ i > history'.early => TallyKept(store'.proposals[i])
          /\ i > store'.counter => i <= history'.early
  <2> TAKE i \in DOMAIN store'.proposals
  <2>1. i \in DOMAIN store.proposals
        /\ store'.proposals[i] = IF i = id THEN p ELSE store.proposals[i]
    BY <1>9
  <2> QED BY <1>a, <1>5, <1>7, <1>9, <2>1
<1>16. \A b \in Addresses :
          Governance!Credits(b)' + PaidIn(store'.proposals, b) = history'.given[b]
  <2> TAKE b \in Addresses
  <2>1. Governance!Credits(b) + PaidIn(store.proposals, b) = history.given[b]
    BY DEF CountSafe
  <2>2. CASE b = a
    BY <1>5, <1>8, <1>10, <1>11, <2>1, <2>2
  <2>3. CASE b # a
    BY <1>5, <1>10, <1>12, <2>1, <2>3
  <2> QED BY <2>2, <2>3
<1> QED BY <1>13, <1>14, <1>15, <1>16 DEF CountSafe

\* A proposal is opened without votes in the tally; under an id that is given out a
\* second time the votes on record stay.
LEMMA OpeningStep ==
    ASSUME GovernanceSafe, CountSafe, NEW a \in Addresses, NEW period \in Periods,
           Governance!CreateProposal(a, period)
    PROVE  CountSafe'
<1> DEFINE none == [b \in Addresses |-> Governance!NoVote]
<1>1. PICK id \in Nat, n \in Nat :
          /\ id = store.counter + 1 /\ n = Len(store.proposals) /\ id <= n + 1
          /\ DOMAIN store.proposals = 1 .. n /\ store.counter \in Nat /\ id >= 1
  <2>1. /\ store.proposals \in Seq(Governance!Proposal)
        /\ store.counter \in Nat /\ store.counter <= Len(store.proposals)
    BY DEF GovernanceSafe, Proposals
  <2>2. /\ Len(store.proposals) \in Nat
        /\ DOMAIN store.proposals = 1 .. Len(store.proposals)
    BY <2>1
  <2>3. /\ store.counter + 1 \in Nat /\ store.counter + 1 >= 1
        /\ store.counter + 1 <= Len(store.proposals) + 1
    BY <2>1, <2>2
  <2> HIDE DEF none
  <2> QED BY <2>1, <2>2, <2>3
<1>2. /\ DOMAIN store = GovernanceFields /\ store.proposals \in Proposals
      /\ \A i \in DOMAIN store.proposals : store.proposals[i] \in Governance!Proposal
      /\ store.credits \in [Addresses -> Nat \cup {-1}]
      /\ history \in [given : [Addresses -> Nat], early : Nat]
      /\ \A i \in DOMAIN store.proposals :
            /\ TallyWithin(store.proposals[i])
            /\ i > history.early => TallyKept(store.proposals[i])
            /\ i > store.counter => i <= history.early
  BY DEF GovernanceSafe, CountSafe, Proposals
<1>a. PICK votes : votes = IF id \in DOMAIN store.proposals
                           THEN store.proposals[id].userVotes ELSE none
  OBVIOUS
<1>3. PICK p :
          /\ p = Governance!Opened(a, period, votes)
          /\ p.votesFor = 0 /\ p.votesAgainst = 0 /\ p.userVotes = votes
  <2> DEFINE o == Governance!Opened(a, period, votes)
  <2>1. o.votesFor = 0 /\ o.votesAgainst = 0 /\ o.userVotes = votes
    BY DEF Governance!Opened
  <2> HIDE DEF o
  <2>2. PICK p : p = o
    OBVIOUS
  <2> QED BY <2>1, <2>2 DEF o
<1>4. none \in [Addresses -> [votes : Nat, support : BOOLEAN]]
      /\ \A b \in Addresses : none[b].votes = 0
  BY DEF Governance!NoVote
<1>5. p \in Governance!Proposal
  <2>1. p.userVotes \in [Addresses -> [votes : Nat, support : BOOLEAN]]
    BY <1>2, <1>a, <1>3, <1>4 DEF Governance!Proposal
  <2>2. Governance!QuorumNow \in Nat /\ now + period \in Nat
    BY QuorumIsNumber, GovernanceAssumption DEF GovernanceSafe
  <2> HIDE DEF none
  <2> QED BY <1>3, <2>1, <2>2 DEF Governance!Proposal, Governance!Opened
<1>6. /\ store' = [store EXCEPT !.counter = id, !.proposals =
              IF id \in DOMAIN store.proposals THEN [store.proposals EXCEPT ![id] = p]
              ELSE Append(store.proposals, p)]
      /\ history' = history
  BY <1>1, <1>a, <1>3 DEF Governance!CreateProposal
<1>7. /\ store'.credits = store.credits /\ store'.counter = id
      /\ store'.proposals = IF id \in DOMAIN store.proposals
                            THEN [store.proposals EXCEPT ![id] = p]
                            ELSE Append(store.proposals, p)
  BY <1>2, <1>6 DEF GovernanceFields
<1> HIDE DEF none
<1>8. \A b \in Addresses : Governance!Credits(b)' = Governance!Credits(b)
  BY <1>7 DEF Governance!Credits
<1>9. TallyWithin(p)
  <2>1. ASSUME NEW side \in BOOLEAN
        PROVE  SumOver(VotesOf(p, side), Addresses) \in Nat
    <3>1. \A x \in Addresses : VotesOf(p, side)[x] \in Nat
      BY <1>5, VoteIsNumber DEF VotesOf
    <3> QED BY <3>1, UsersAssumption, SumOfNumbers
  <2>2. PICK yes \in BOOLEAN, no \in BOOLEAN : yes = TRUE /\ no = FALSE
    OBVIOUS
  <2>3. /\ p.votesFor <= SumOver(VotesOf(p, yes), Addresses)
        /\ p.votesAgainst <= SumOver(VotesOf(p, no), Addresses)
    BY <1>3, <2>1
  <2> QED BY <2>2, <2>3 DEF TallyWithin
<1>10. CASE id \in DOMAIN store.proposals
  <2>1. id <= history.early
    BY <1>1, <1>2, <1>10 DEF GovernanceSafe
  <2>2. /\ DOMAIN store'.proposals = DOMAIN store.proposals
        /\ \A i \in DOMAIN store.proposals :
              store'.proposals[i] = IF i = id THEN p ELSE store.proposals[i]
    BY <1>7, <1>10
  <2>3. \A i \in DOMAIN store'.proposals :
           /\ TallyWithin(store'.proposals[i])
           /\ i > history.early => TallyKept(store'.proposals[i])
           /\ i > id => i <= history.early
    <3> TAKE i \in DOMAIN store'.proposals
    <3>1. i \in 1 .. n /\ i \in DOMAIN store.proposals
      BY <1>1, <2>2
    <3>2. CASE i = id
      BY <1>2, <1>9, <2>1, <2>2, <3>1, <3>2
    <3>3. CASE i # id
      BY <1>1, <1>2, <2>2, <3>1, <3>3
    <3> QED BY <3>2, <3>3
  <2>4. \A i \in DOMAIN store.proposals :
           store'.proposals[i].userVotes = store.proposals[i].userVotes
    BY <1>a, <1>3, <1>10, <2>2
  <2>5. \A b \in Addresses : PaidIn(store'.proposals, b) = PaidIn(store.proposals, b)
    BY <2>2, <2>4 DEF PaidIn, CostOf
  <2> QED BY <1>6, <1>7, <1>8, <2>3, <2>5 DEF CountSafe
<1>11. CASE id \notin DOMAIN store.proposals
  <2>1. id = n + 1 /\ store'.proposals = Append(store.proposals, p) /\ p.userVotes = none
    BY <1>1, <1>a, <1>3, <1>7, <1>11
  <2>2. TallyKept(p)
    <3>1. ASSUME NEW side
          PROVE  SumOver(VotesOf(p, side), Addresses) = 0
      <4>1. PICK b : b = [x \in Addresses |-> 0]
        OBVIOUS
      <4>2. VotesOf(p, side) = b
        BY <1>4, <2>1, <4>1 DEF VotesOf
      <4>3. SumOver(b, Addresses) = 0
        BY <4>1, NoBalances
      <4> QED BY <4>2, <4>3
    <3> QED BY <1>3, <3>1 DEF TallyKept
  <2>3. ASSUME NEW b \in Addresses
        PROVE  PaidIn(store'.proposals, b) = PaidIn(store.proposals, b)
    BY <1>2, <1>4, <1>5, <2>1, NewIsFree
  <2>4. \A i \in DOMAIN store'.proposals :
           \/ i = id /\ store'.proposals[i] = p
           \/ i \in DOMAIN store.proposals /\ store'.proposals[i] = store.proposals[i]
    BY <1>1, <1>2, <1>5, <2>1 DEF Proposals
  <2>5. \A i \in DOMAIN store'.proposals :
           /\ TallyWithin(store'.proposals[i])
           /\ i > history.early => TallyKept(store'.proposals[i])
           /\ i > id => i <= history.early
    BY <1>1, <1>2, <1>9, <2>1, <2>2, <2>4
  <2> QED BY <1>6, <1>7, <1>8, <2>3, <2>5 DEF CountSafe
<1> QED BY <1>10, <1>11

LEMMA CountStep == GovernanceSafe /\ CountSafe /\ Governance!Next => CountSafe'
<1> SUFFICES ASSUME GovernanceSafe, CountSafe, Governance!Next PROVE CountSafe'
  OBVIOUS
<1>a. /\ DOMAIN store = GovernanceFields
      /\ store.proposals \in Proposals /\ now \in Nat
      /\ store.counter \in Nat /\ store.counter <= Len(store.proposals)
      /\ \A id \in DOMAIN store.proposals : store.proposals[id] \in Governance!Proposal
      /\ store.credits \in [Addresses -> Nat \cup {-1}]
      /\ history \in [given : [Addresses -> Nat], early : Nat]
      /\ \A id \in DOMAIN store.proposals :
            /\ TallyWithin(store.proposals[id])
            /\ id > history.early => TallyKept(store.proposals[id])
            /\ id > store.counter => id <= history.early
  BY DEF GovernanceSafe, CountSafe, Proposals
<1>b. CASE /\ store'.proposals = store.proposals /\ store'.credits = store.credits
           /\ store'.counter = store.counter /\ history' = history
  BY <1>b, VotesStay
<1>c. ASSUME NEW id \in DOMAIN store.proposals, NEW status,
             store' = [store EXCEPT !.proposals[id].status = status], history' = history
      PROVE  CountSafe'
  <2>1. PICK q \in Governance!Proposal : q = store.proposals[id]
    BY <1>a
  <2> DEFINE p == [q EXCEPT !.status = status]
  <2>2. /\ p.userVotes = q.userVotes /\ p.votesFor = q.votesFor
        /\ p.votesAgainst = q.votesAgainst
    BY DEF Governance!Proposal
  <2>3. store' = [store EXCEPT !.proposals = [store.proposals EXCEPT ![id] = p]]
    BY <1>a, <1>c, <2>1 DEF GovernanceFields
  <2> HIDE DEF p
  <2>4. /\ store'.proposals = [store.proposals EXCEPT ![id] = p]
        /\ store'.credits = store.credits /\ store'.counter = store.counter
    BY <1>a, <2>3 DEF GovernanceFields
  <2> QED BY <1>c, <2>1, <2>2, <2>4, VotesStay
<1>1. ASSUME NEW a, NEW q,
             \/ Governance!ProposeNewAdmin(a) \/ Governance!ClaimAdminRole(a)
             \/ Governance!SetMinQuorum(q)
      PROVE  CountSafe'
  BY <1>1, <1>a, <1>b
  DEF Governance!ProposeNewAdmin, Governance!ClaimAdminRole, Governance!SetMinQuorum,
      GovernanceFields
\* Whatever is stored is early from then on.
<1>8. ASSUME NEW a, Governance!Initialize(a)
      PROVE  CountSafe'
  <2>1. PICK n \in Nat : n = Len(store.proposals) /\ DOMAIN store.proposals = 1 .. n
    BY <1>a DEF Proposals
  <2>2. /\ store'.proposals = store.proposals /\ store'.credits = store.credits
        /\ history' \in [given : [Addresses -> Nat], early : Nat]
        /\ history'.given = history.given /\ history'.early = n
    BY <1>8, <1>a, <2>1 DEF Governance!Initialize, GovernanceFields
  <2>3. \A id \in DOMAIN store'.proposals :
           TallyWithin(store'.proposals[id]) /\ id <= history'.early /\ id \in Nat
    <3> TAKE id \in DOMAIN store'.proposals
    <3>1. id \in 1 .. n /\ id \in DOMAIN store.proposals
      BY <2>1, <2>2
    <3>2. TallyWithin(store'.proposals[id])
      BY <1>a, <2>2, <3>1
    <3> QED BY <2>1, <2>2, <3>1, <3>2
  <2>4. \A b \in Addresses : Governance!Credits(b)' = Governance!Credits(b)
    BY <2>2 DEF Governance!Credits
  <2>5. \A id \in DOMAIN store'.proposals : ~(id > history'.early)
    BY <2>1, <2>2, <2>3
  <2> QED BY <2>2, <2>3, <2>4, <2>5 DEF CountSafe
<1>2. ASSUME NEW a \in Addresses, NEW n \in Votes, Governance!AllocateCredits(a, n)
      PROVE  CountSafe'
  <2>1. PICK old \in Nat, h \in Nat, m \in Nat :
            /\ old = IF store.credits[a] = -1 THEN 0 ELSE store.credits[a]
            /\ h = IF store.credits[a] = -1 THEN 0 ELSE history.given[a]
            /\ m = n
    BY <1>a, GovernanceAssumption
  <2>2. /\ store'.credits = [store.credits EXCEPT ![a] = old + m]
        /\ store'.proposals = store.proposals
        /\ store'.counter = store.counter
        /\ history' = [history EXCEPT !.given = [history.given EXCEPT ![a] = h + m]]
    <3>1. /\ store' = [store EXCEPT !.credits = [store.credits EXCEPT ![a] = old + m],
                                    !.totalIssued = store.totalIssued + m]
          /\ history' = [history EXCEPT !.given = [history.given EXCEPT ![a] =
                            IF store.credits[a] = -1 THEN m ELSE history.given[a] + m]]
      BY <1>2, <1>a, <2>1 DEF Governance!AllocateCredits, Governance!Unset, GovernanceFields
    <3>2. (IF store.credits[a] = -1 THEN m ELSE history.given[a] + m) = h + m
      BY <2>1
    <3> QED BY <1>a, <3>1, <3>2 DEF GovernanceFields
  <2>3. /\ store'.credits \in [Addresses -> Nat \cup {-1}] /\ old + m \in Nat
        /\ history' \in [given : [Addresses -> Nat], early : Nat]
        /\ history'.given = [history.given EXCEPT ![a] = h + m]
        /\ history'.early = history.early
    <3>1. old + m \in Nat /\ h + m \in Nat
      OBVIOUS
    <3>2. store'.credits \in [Addresses -> Nat \cup {-1}]
      BY <1>a, <2>2, <3>1
    <3>3. PICK g \in [Addresses -> Nat] : g = [history.given EXCEPT ![a] = h + m]
      BY <1>a, <3>1
    <3>4. history' = [history EXCEPT !.given = g]
      BY <2>2, <3>3
    <3>5. /\ history' \in [given : [Addresses -> Nat], early : Nat]
          /\ history'.given = g /\ history'.early = history.early
      BY <1>a, <3>4
    <3> QED BY <3>1, <3>2, <3>3, <3>5
  <2>4. \A b \in Addresses : store'.credits[b] = -1 => history'.given[b] = DefaultCredits
    BY <1>a, <2>2, <2>3 DEF CountSafe
  <2>5. ASSUME NEW b \in Addresses
        PROVE  Governance!Credits(b)' + PaidIn(store.proposals, b) = history'.given[b]
    <3>1. /\ Governance!Credits(b) + PaidIn(store.proposals, b) = history.given[b]
          /\ PaidIn(store.proposals, b) \in Int
          /\ store.credits[b] = -1 => history.given[b] = DefaultCredits
      <4>1. PICK ps \in Proposals : ps = store.proposals
        BY <1>a
      <4>2. \A id \in DOMAIN ps : CostOf(ps, b)[id] \in Int
        BY CostIsNumber
      <4>3. IsFiniteSet(DOMAIN ps)
        BY CostIsNumber
      <4>4. PaidIn(ps, b) \in Int
        BY <4>2, <4>3, SumWithout DEF PaidIn
      <4> QED BY <4>1, <4>4 DEF CountSafe
    <3>2. CASE b # a
      <4>1. Governance!Credits(b)' = Governance!Credits(b) /\ history'.given[b] = history.given[b]
        BY <1>a, <2>2, <3>2 DEF Governance!Credits
      <4> QED BY <3>1, <4>1
    <3>3. CASE b = a
      <4>1. Governance!Credits(b)' = old + m /\ history'.given[b] = h + m
        BY <1>a, <2>2, <2>3, <3>3 DEF Governance!Credits, Governance!Unset
      <4>2. CASE store.credits[a] = -1
        <5>1. Governance!Credits(b) = DefaultCredits /\ DefaultCredits \in Nat
          BY <3>3, <4>2, GovernanceAssumption DEF Governance!Credits, Governance!Unset
        <5>2. PaidIn(store.proposals, b) = 0
          BY <3>1, <3>3, <4>2, <5>1
        <5> QED BY <2>1, <4>1, <4>2, <5>2
      <4>3. CASE store.credits[a] # -1
        <5>1. Governance!Credits(b) = old /\ history.given[b] = h
          BY <2>1, <3>3, <4>3 DEF Governance!Credits, Governance!Unset
        <5> QED BY <2>1, <3>1, <4>1, <5>1
      <4> QED BY <4>2, <4>3
    <3> QED BY <3>2, <3>3
  <2> QED BY <1>a, <2>2, <2>3, <2>4, <2>5 DEF CountSafe
<1>3. ASSUME NEW a \in Addresses, NEW period \in Periods, Governance!CreateProposal(a, period)
      PROVE  CountSafe'
  BY <1>3, OpeningStep
<1>4. ASSUME NEW a \in Addresses, NEW id \in DOMAIN store.proposals,
             \/ Governance!CancelProposal(a, id) \/ Governance!ExecuteProposal(a, id)
      PROVE  CountSafe'
  BY <1>4, <1>c
  DEF Governance!CancelProposal, Governance!ExecuteProposal
<1>5. ASSUME NEW id \in DOMAIN store.proposals, Governance!HasPassed(id)
      PROVE  CountSafe'
  BY <1>5, <1>c DEF Governance!HasPassed
<1>6. ASSUME NEW a \in Addresses, NEW id \in DOMAIN store.proposals,
             NEW support \in BOOLEAN, NEW n \in Votes, Governance!Vote(a, id, support, n)
      PROVE  CountSafe'
  BY <1>6, VoteStep
<1>7. CASE Governance!TimePasses
  BY <1>7, <1>b DEF Governance!TimePasses
<1> QED BY <1>1, <1>2, <1>3, <1>4, <1>5, <1>6, <1>7, <1>8 DEF Governance!Next

------------------------------------------------------------------------------
(* Shares of a pool under rounding *)

LEMMA ProductsGrow ==
    ASSUME NEW a \in Nat, NEW b \in Nat, NEW c \in Nat, NEW d \in Nat, a <= c, b <= d
    PROVE  a * b <= c * d
<1>1. PICK e \in Nat, f \in Nat : c = a + e /\ d = b + f
  <2>1. c - a \in Nat /\ c = a + (c - a) /\ d - b \in Nat /\ d = b + (d - b)
    OBVIOUS
  <2> QED BY <2>1
<1>2. c * d = a * b + a * f + e * b + e * f
  BY <1>1
<1>3. a * b \in Nat /\ a * f \in Nat /\ e * b \in Nat /\ e * f \in Nat
  BY <1>1
<1> QED BY <1>2, <1>3

\* When each reserve falls by no more than its part, so does what they are worth together.
LEMMA WorthIsKept ==
    ASSUME NEW a \in Nat, NEW b \in Nat, NEW t \in Nat,
           NEW c \in Nat, NEW d \in Nat, NEW u \in Nat,
           u * a <= t * c, u * b <= t * d
    PROVE  c * d * t * t >= a * b * u * u
<1>1. PICK p \in Nat, q \in Nat, v \in Nat, w \in Nat :
          p = u * a /\ q = u * b /\ v = t * c /\ w = t * d
  <2>1. u * a \in Nat /\ u * b \in Nat /\ t * c \in Nat /\ t * d \in Nat
    OBVIOUS
  <2> QED BY <2>1
<1>2. p * q <= v * w
  BY <1>1, ProductsGrow
<1>3. p * q = a * b * u * u
  BY <1>1
<1>4. v * w = c * d * t * t
  BY <1>1
<1> QED BY <1>2, <1>3, <1>4

\* A swap with a fee n * (den - num) / den keeps the product.
LEMMA ProductIsKept ==
    ASSUME NEW ri \in Nat, NEW ro \in Nat, NEW n \in Nat, NEW out \in Nat,
           NEW num \in Nat, NEW den \in Nat \ {0}, num <= den, ri > 0, out <= ro,
           out * (ri * den + n * num) <= n * num * ro
    PROVE  (ri + n) * (ro - out) >= ri * ro
<1>1. out * (ri + n) <= n * ro
  <2>1. PICK k \in Nat : den = num + k
    <3>1. den - num \in Nat /\ den = num + (den - num)
      OBVIOUS
    <3> QED BY <3>1
  <2>2. PICK x \in Nat, y \in Nat : x = out * (ri + n) /\ y = n * ro
    <3>1. out * (ri + n) \in Nat /\ n * ro \in Nat
      OBVIOUS
    <3> QED BY <3>1
  <2>3. num * x <= num * y
    <3>1. out * (ri * den + n * num) = num * x + out * ri * k /\ out * ri * k \in Nat
      BY <2>1, <2>2
    <3>2. n * num * ro = num * y
      BY <2>2
    <3>3. num * x \in Nat /\ num * y \in Nat
      BY <2>2
    <3> QED BY <3>1, <3>2, <3>3
  <2>4. CASE num > 0
    <3>1. SUFFICES ASSUME y < x PROVE FALSE
      BY <2>2
    <3>2. PICK d \in Nat : x = y + 1 + d
      <4>1. x - (y + 1) \in Nat /\ x = y + 1 + (x - (y + 1))
        BY <3>1
      <4> QED BY <4>1
    <3>3. num * x = num * y + num + num * d /\ num * d \in Nat /\ num * y \in Nat
      BY <3>2
    <3> QED BY <2>3, <2>4, <3>3
  <2>5. CASE num = 0
    <3>1. out * (ri * den) <= 0
      <4>1. n * num = 0 /\ n * num * ro = 0
        BY <2>5
      <4> QED BY <4>1
    <3>2. PICK e \in Nat : e = ri * den /\ e > 0
      <4>1. ri * den \in Nat /\ ri * den > 0
        OBVIOUS
      <4> QED BY <4>1
    <3>3. out = 0
      <4>1. SUFFICES ASSUME out > 0 PROVE FALSE
        OBVIOUS
      <4>2. out * e > 0
        BY <3>2, <4>1
      <4> QED BY <3>1, <3>2, <4>2
    <3>4. x = 0
      BY <2>2, <3>3
    <3> QED BY <2>2, <3>4
  <2> QED BY <2>4, <2>5
<1>2. (ri + n) * (ro - out) = ri * ro + n * ro - out * (ri + n)
  OBVIOUS
<1>3. ri * ro \in Nat /\ n * ro \in Nat /\ out * (ri + n) \in Nat
  OBVIOUS
<1> QED BY <1>1, <1>2, <1>3

\* What rounding down gives is no more than the part, d being the whole.
LEMMA QuotientIsLess ==
    ASSUME NEW n \in Nat, NEW d \in Nat \ {0}
    PROVE  n \div d \in Nat /\ (n \div d) * d <= n
  OBVIOUS

\* The reserves and the shares after a call that moves each by no more than its part.
LEMMA PoolPartsKept ==
    ASSUME PoolSafe, NEW reserve \in [Reserves -> Nat], NEW u \in Nat,
           store'.reserve = reserve, store'.totalShares = u,
           \A t \in Reserves : u * store.reserve[t] <= store.totalShares * reserve[t]
    PROVE  AMM!ShareValueNeverFallsStep
<1>1. PICK a \in Nat, b \in Nat, t \in Nat, c \in Nat, d \in Nat :
          /\ a = store.reserve["A"] /\ b = store.reserve["B"] /\ t = store.totalShares
          /\ c = reserve["A"] /\ d = reserve["B"]
  BY DEF PoolSafe, Reserves, AMM!Pair
<1>2. u * a <= t * c /\ u * b <= t * d
  BY <1>1 DEF Reserves, AMM!Pair
<1>3. c * d * t * t >= a * b * u * u
  BY <1>2, WorthIsKept
<1> QED BY <1>1, <1>3 DEF AMM!ShareValueNeverFallsStep, AMM!Product

LEMMA PoolKeepsValue == PoolSafe /\ [AMM!Next]_contractVars => AMM!ShareValueNeverFallsStep
<1> SUFFICES ASSUME PoolSafe, [AMM!Next]_contractVars, store.totalShares > 0
             PROVE  AMM!ShareValueNeverFallsStep
  BY DEF AMM!ShareValueNeverFallsStep
<1>a. /\ DOMAIN store = PoolFields /\ store.tax \in TransferFees
      /\ store.reserve \in [Reserves -> Nat]
      /\ store.totalShares \in Nat /\ store.shares \in [Addresses -> Nat]
      /\ store.totalShares = MinimumLiquidity + SumOver(store.shares, Addresses)
      /\ \A t \in Reserves : store.reserve[t] > 0
  BY DEF PoolSafe
<1>b. PICK T \in Nat : T = store.totalShares /\ T > 0
  BY <1>a
<1>1. ASSUME NEW a \in Addresses, NEW x \in 1 .. PoolAmount, NEW y \in 1 .. PoolAmount,
             AMM!Deposit(a, [t \in AMM!Pair |-> IF t = "A" THEN x ELSE y])
      PROVE  AMM!ShareValueNeverFallsStep
  <2> DEFINE amount == [t \in AMM!Pair |-> IF t = "A" THEN x ELSE y]
             got == [t \in AMM!Pair |-> amount[t] - store.tax]
             Part(t) == (got[t] * store.totalShares) \div store.reserve[t]
  <2>1. PICK minted : minted = AMM!Minted(got)
    OBVIOUS
  <2>2. /\ \A t \in Reserves : got[t] > 0
        /\ minted > 0
        /\ store'.reserve = [t \in Reserves |-> store.reserve[t] + got[t]]
        /\ store'.totalShares = store.totalShares + minted
    BY <1>1, <1>a, <1>b, <2>1 DEF AMM!Deposit, Reserves, PoolFields
  <2>3. got["A"] \in Nat /\ got["B"] \in Nat
    <3>1. x \in Int /\ y \in Int /\ store.tax \in Int
      <4>1. store.tax \in Nat
        BY <1>a, PoolAssumption
      <4>2. x \in Int /\ y \in Int
        BY PoolAssumption
      <4> QED BY <4>1, <4>2
    <3>2. got["A"] = x - store.tax /\ got["B"] = y - store.tax
      BY DEF AMM!Pair
    <3>3. got["A"] > 0 /\ got["B"] > 0
      BY <2>2 DEF AMM!Pair, Reserves
    <3> HIDE DEF got
    <3> QED BY <3>1, <3>2, <3>3
  <2> HIDE DEF got, amount
  <2>4. minted = IF Part("A") < Part("B") THEN Part("A") ELSE Part("B")
    BY <2>1, <1>b DEF AMM!Minted, AMM!Least
  <2>5. \A t \in Reserves : got[t] \in Nat /\ store.reserve[t] \in Nat \ {0} /\ Part(t) \in Nat
                            /\ Part(t) * store.reserve[t] <= got[t] * T
    <3> SUFFICES ASSUME NEW t \in Reserves
                 PROVE got[t] \in Nat /\ store.reserve[t] \in Nat \ {0} /\ Part(t) \in Nat
                       /\ Part(t) * store.reserve[t] <= got[t] * T
      OBVIOUS
    <3>1. PICK g \in Nat, r \in Nat \ {0} : g = got[t] /\ r = store.reserve[t]
      BY <1>a, <2>3 DEF Reserves, AMM!Pair
    <3>2. g * T \in Nat
      OBVIOUS
    <3> QED BY <1>b, <3>1, <3>2, QuotientIsLess
  <2> HIDE DEF Part
  <2>6. minted \in Nat /\ \A t \in Reserves : minted <= Part(t)
    BY <2>4, <2>5 DEF Reserves, AMM!Pair
  <2> DEFINE reserve == [t \in Reserves |-> store.reserve[t] + got[t]]
  <2>7. reserve \in [Reserves -> Nat]
    BY <2>5
  <2>8. ASSUME NEW t \in Reserves
        PROVE  (T + minted) * store.reserve[t] <= T * reserve[t]
    <3>1. PICK g \in Nat, r \in Nat, p \in Nat :
              g = got[t] /\ r = store.reserve[t] /\ p = Part(t) /\ p * r <= g * T /\ minted <= p
      BY <2>5, <2>6
    <3>2. minted * r <= p * r
      BY <2>6, <3>1, ProductsGrow
    <3>3. (T + minted) * r = T * r + minted * r /\ T * (r + g) = T * r + g * T
      BY <2>6
    <3>4. minted * r \in Nat /\ p * r \in Nat /\ g * T \in Nat /\ T * r \in Nat
      BY <2>6
    <3> QED BY <3>1, <3>2, <3>3, <3>4
  <2> HIDE DEF reserve
  <2>9. T + minted \in Nat /\ store'.totalShares = T + minted /\ store'.reserve = reserve
    BY <1>b, <2>2, <2>6 DEF reserve
  <2> QED BY <1>b, <2>7, <2>8, <2>9, PoolPartsKept
<1>2. ASSUME NEW a \in Addresses, NEW n \in 1 .. PoolAmount, AMM!Withdraw(a, n)
      PROVE  AMM!ShareValueNeverFallsStep
  <2> DEFINE reserve == [t \in Reserves |-> store.reserve[t] - (n * store.reserve[t]) \div T]
  <2>1. /\ n \in Nat /\ n > 0 /\ n <= store.shares[a]
        /\ store'.reserve = reserve /\ store'.totalShares = T - n
    BY <1>2, <1>a, <1>b, PoolAssumption DEF AMM!Withdraw, PoolFields, Reserves
  <2>2. n < T
    <3>1. PICK b : b = store.shares /\ b \in [Addresses -> Nat]
      BY <1>a
    <3>2. b[a] <= SumOver(b, Addresses) /\ SumOver(b, Addresses) \in Nat
      BY <3>1, UsersAssumption, SumOfNumbers
    <3> QED BY <1>a, <1>b, <2>1, <3>1, <3>2, PoolAssumption
  <2>3. ASSUME NEW t \in Reserves
        PROVE  reserve[t] \in Nat /\ (T - n) * store.reserve[t] <= T * reserve[t]
    <3>1. PICK r \in Nat : r = store.reserve[t]
      BY <1>a
    <3>2. PICK q \in Nat : q = (n * r) \div T /\ q * T <= n * r /\ q <= r
      <4>1. n * r \in Nat
        BY <2>1
      <4>2. T \in Nat \ {0} /\ n \in Nat /\ n <= T /\ T # 0
        BY <1>b, <2>1, <2>2
      <4>3. (n * r) \div T \in Nat /\ (n * r) \div T <= r
        BY <4>2, ReturnedIsThere
      <4>4. ((n * r) \div T) * T <= n * r
        BY <4>1, <4>2, QuotientIsLess
      <4> QED BY <4>3, <4>4
    <3>3. reserve[t] = r - q
      BY <3>1, <3>2
    <3>4. (T - n) * r = T * r - n * r /\ T * (r - q) = T * r - q * T
      BY <2>1
    <3>5. T * r \in Nat /\ n * r \in Nat /\ q * T \in Nat
      BY <2>1
    <3> QED BY <3>1, <3>2, <3>3, <3>4, <3>5
  <2>4. reserve \in [Reserves -> Nat] /\ T - n \in Nat
    BY <2>1, <2>2, <2>3
  <2> HIDE DEF reserve
  <2> QED BY <1>b, <2>1, <2>3, <2>4, PoolPartsKept
<1>3. ASSUME NEW tokenIn \in AMM!Pair, NEW n \in 1 .. PoolAmount,
             AMM!Swap(tokenIn, n, 0)
      PROVE  AMM!ShareValueNeverFallsStep
  <2>1. PICK tokenOut \in Reserves : tokenOut = AMM!Other(tokenIn) /\ tokenOut # tokenIn
    <3>1. \E u \in AMM!Pair : u # tokenIn
      BY DEF AMM!Pair
    <3> QED BY <3>1 DEF AMM!Other, Reserves
  <2>2. PICK ri \in Nat, ro \in Nat, num \in Nat, den \in Nat \ {0} :
            /\ ri = store.reserve[tokenIn] /\ ro = store.reserve[tokenOut] /\ ri > 0 /\ ro > 0
            /\ num = FeeNumerator /\ den = FeeDenominator /\ num <= den
    BY <1>a, <2>1, PoolAssumption DEF Reserves
  <2>3. PICK in \in Nat, base \in Nat : in = n * num /\ base = ri * den + in /\ in < base
    <3>1. n \in Nat /\ n * num \in Nat
      OBVIOUS
    <3>2. ri * den \in Nat /\ ri * den > 0
      BY <2>2
    <3> QED BY <3>1, <3>2
  <2>4. PICK out \in Nat : out = (in * ro) \div base /\ out < ro /\ out * base <= in * ro
    <3>1. (in * ro) \div base \in Nat /\ (in * ro) \div base < ro
      BY <2>2, <2>3, PartIsLess
    <3>2. in * ro \in Nat /\ base \in Nat \ {0}
      BY <2>3
    <3> QED BY <3>1, <3>2, QuotientIsLess
  <2>5. AMM!AmountOut(tokenIn, n) = out
    BY <2>1, <2>2, <2>3, <2>4 DEF AMM!AmountOut
  <2>6. /\ store'.reserve = [store.reserve EXCEPT ![tokenIn] = ri + n, ![tokenOut] = ro - out]
        /\ store'.totalShares = store.totalShares
    BY <1>3, <1>a, <2>1, <2>2, <2>5 DEF AMM!Swap, PoolFields
  <2>7. (ri + n) * (ro - out) >= ri * ro
    <3>1. out * (ri * den + n * num) <= n * num * ro /\ n \in Nat
      BY <2>3, <2>4
    <3> QED BY <2>2, <2>4, <3>1, ProductIsKept
  <2>8. PICK p \in Nat, q \in Nat : /\ p = store.reserve["A"] * store.reserve["B"]
                                    /\ q = store'.reserve["A"] * store'.reserve["B"] /\ q >= p
    <3>1. ri * ro \in Nat /\ (ri + n) * (ro - out) \in Nat
      BY <2>4
    <3>2. \/ tokenIn = "A" /\ tokenOut = "B"
          \/ tokenIn = "B" /\ tokenOut = "A"
      BY <2>1 DEF Reserves, AMM!Pair
    <3>3. /\ store.reserve["A"] * store.reserve["B"] = ri * ro
          /\ store'.reserve["A"] * store'.reserve["B"] = (ri + n) * (ro - out)
      <4>1. /\ store'.reserve[tokenIn] = ri + n /\ store'.reserve[tokenOut] = ro - out
        BY <1>a, <2>1, <2>6 DEF Reserves
      <4> QED BY <2>2, <3>2, <4>1
    <3> QED BY <2>7, <3>1, <3>3
  <2>9. p * (T * T) <= q * (T * T) /\ p * T * T = p * (T * T) /\ q * T * T = q * (T * T)
    <3>1. T * T \in Nat
      OBVIOUS
    <3> QED BY <2>8, <3>1, ProductsGrow
  <2> QED BY <1>b, <2>6, <2>8, <2>9 DEF AMM!ShareValueNeverFallsStep, AMM!Product
<1>4. ASSUME store'.reserve = store.reserve /\ store'.totalShares = store.totalShares
      PROVE  AMM!ShareValueNeverFallsStep
  <2>1. \A t \in Reserves : store.totalShares * store.reserve[t] \in Nat
    BY <1>a
  <2> QED BY <1>4, <1>a, <2>1, PoolPartsKept
<1>5. ASSUME NEW a, AMM!Initialize(a) \/ AMM!SetPaused(a)
      PROVE  AMM!ShareValueNeverFallsStep
  BY <1>4, <1>5, <1>a DEF PoolFields, AMM!Initialize, AMM!SetPaused
<1>6. CASE UNCHANGED contractVars
  BY <1>4, <1>6 DEF contractVars
<1> QED BY <1>1, <1>2, <1>3, <1>5, <1>6 DEF AMM!Next

\* Shares of the vault and what is in it, when neither is taken.
LEMMA VaultOnlyGains ==
    ASSUME FarmSafe, store'.total = store.total, NEW v \in Nat, v >= held.lp["vault"],
           held'.lp["vault"] = v
    PROVE  Farm!VaultShareNeverFallsStep
<1>1. PICK t : t = store.total /\ t = store'.total
  OBVIOUS
<1>2. PICK u \in Nat : u = held.lp["vault"] /\ u <= v
  BY FarmAssumption DEF FarmSafe, Farm!Holders
<1>3. t \in Nat
  <2>1. PICK b : b = store.shares /\ b \in [Addresses -> Nat]
    BY DEF FarmSafe, Accounted
  <2>2. SumOver(b, Addresses) \in Nat
    BY <2>1, UsersAssumption, SumOfNumbers
  <2> QED BY <1>1, <2>1, <2>2 DEF FarmSafe, Accounted
<1>4. v * t >= u * t
  BY <1>2, <1>3, ProductsGrow
<1> QED BY <1>1, <1>2, <1>4 DEF Farm!VaultShareNeverFallsStep

LEMMA VaultKeepsValue ==
    FarmSafe /\ [Farm!Next]_contractVars => Farm!VaultShareNeverFallsStep
<1> SUFFICES ASSUME FarmSafe, [Farm!Next]_contractVars,
                    store.total > 0, store'.total > 0
             PROVE  Farm!VaultShareNeverFallsStep
  BY DEF Farm!VaultShareNeverFallsStep
<1>a. /\ Accounted(store, history) /\ now \in Nat
      /\ DOMAIN held = {"lp", "rewards"} /\ held.lp \in [Farm!Holders -> Nat]
  BY DEF FarmSafe
<1>b. "vault" \in Farm!Holders /\ \A a \in Addresses : a \in Farm!Holders /\ a # "vault"
  BY FarmAssumption DEF Farm!Holders
<1>c. PICK b \in [Addresses -> Nat], T \in Nat, lp \in [Farm!Holders -> Nat], v \in Nat :
          /\ b = store.shares /\ T = store.total /\ lp = held.lp /\ v = lp["vault"] /\ T > 0
          /\ \A a \in Addresses : b[a] <= T
  <2>1. PICK c : c = store.shares /\ c \in [Addresses -> Nat]
    BY <1>a DEF Accounted
  <2>2. SumOver(c, Addresses) \in Nat /\ \A a \in Addresses : c[a] <= SumOver(c, Addresses)
    BY <2>1, UsersAssumption, SumOfNumbers
  <2> QED BY <2>1, <2>2, <1>a, <1>b DEF Accounted
<1>d. ASSUME store'.total = store.total, held'.lp["vault"] = v
      PROVE  Farm!VaultShareNeverFallsStep
  BY <1>d, <1>c, VaultOnlyGains
<1>e. Farm!Updated.total = store.total /\ \A a : Farm!UserUpdated(a).total = store.total
  <2>1. PICK p, q, r : Farm!Updated \in {store, [store EXCEPT !.last = now],
                            [store EXCEPT !.perShare = p, !.remainder = q, !.last = r]}
    BY DEF Farm!Updated, Farm!Distributed
  <2>2. Farm!Updated.total = store.total /\ DOMAIN Farm!Updated = FarmFields
    BY <2>1, <1>a DEF Accounted, FarmFields
  <2>3. ASSUME NEW a PROVE Farm!UserUpdated(a).total = store.total
    <3>1. PICK w : Farm!UserUpdated(a) = [Farm!Updated EXCEPT !.user = w]
      BY DEF Farm!UserUpdated
    <3> QED BY <2>2, <3>1 DEF FarmFields
  <2> QED BY <2>2, <2>3
<1>1. ASSUME NEW a \in Addresses, NEW rate \in FarmRates, Farm!Initialize(a, rate)
      PROVE  Farm!VaultShareNeverFallsStep
  BY <1>1, <1>a, <1>c, <1>d DEF Farm!Initialize, Accounted, FarmFields
<1>2. ASSUME NEW rate \in FarmRates, Farm!SetRewardRate(rate)
      PROVE  Farm!VaultShareNeverFallsStep
  <2>1. store' = [Farm!Updated EXCEPT !.rate = rate] /\ held' = held
    BY <1>2 DEF Farm!SetRewardRate
  <2>2. store'.total = Farm!Updated.total
    BY <2>1
  <2> QED BY <2>1, <2>2, <1>c, <1>d, <1>e
<1>3. ASSUME NEW a \in Addresses, Farm!ClaimRewards(a)
      PROVE  Farm!VaultShareNeverFallsStep
  <2>1. PICK r : held' = [held EXCEPT !.rewards = r]
    BY <1>3 DEF Farm!ClaimRewards
  <2>2. store' = [Farm!UserUpdated(a) EXCEPT !.user[a].rewards = 0]
    BY <1>3 DEF Farm!ClaimRewards
  <2>3. store'.total = Farm!UserUpdated(a).total
    BY <2>2
  <2>4. held'.lp["vault"] = v
    BY <2>1, <1>a, <1>c
  <2> QED BY <2>3, <2>4, <1>d, <1>e
<1>4. ASSUME NEW a \in Addresses, NEW n \in 1 .. FarmAmount, Farm!VaultDeposit(a, n)
      PROVE  Farm!VaultShareNeverFallsStep
  <2>1. PICK m : m = Farm!Minted(n, held.lp["vault"])
    OBVIOUS
  <2>2. /\ n \in Nat
        /\ store' = [store EXCEPT !.shares[a] = @ + m, !.total = @ + m]
        /\ held' = [held EXCEPT !.lp[a] = @ - n, !.lp["vault"] = @ + n]
    BY <1>4, <2>1 DEF Farm!VaultDeposit
  <2>3. m \in Nat /\ v * m <= n * T
    <3>1. n * T \in Nat
      BY <2>2
    <3>2. CASE v = 0
      <4>1. m = n
        BY <2>1, <3>2, <1>c DEF Farm!Minted
      <4> QED BY <2>2, <3>1, <3>2, <4>1
    <3>3. CASE v # 0
      <4>1. m = (n * T) \div v
        BY <2>1, <3>3, <1>c DEF Farm!Minted
      <4>2. m \in Nat /\ m * v <= n * T
        BY <3>1, <3>3, <4>1, QuotientIsLess
      <4> QED BY <4>2
    <3> QED BY <3>2, <3>3
  <2>4. store'.total = T + m /\ held'.lp["vault"] = v + n
    <3>1. DOMAIN store = FarmFields
      BY <1>a DEF Accounted
    <3>2. store'.total = store.total + m
      BY <2>2, <3>1 DEF FarmFields
    <3>3. held'.lp["vault"] = lp["vault"] + n
      BY <2>2, <1>a, <1>b, <1>c
    <3> QED BY <3>2, <3>3, <1>c
  <2>5. (v + n) * T >= v * (T + m)
    <3>1. (v + n) * T = v * T + n * T /\ v * (T + m) = v * T + v * m
      BY <2>2, <2>3
    <3>2. v * T \in Nat /\ n * T \in Nat /\ v * m \in Nat
      BY <2>2, <2>3
    <3> QED BY <2>3, <3>1, <3>2
  <2> QED BY <2>4, <2>5, <1>c DEF Farm!VaultShareNeverFallsStep
<1>5. ASSUME NEW a \in Addresses, NEW n \in 1 .. store.shares[a], Farm!VaultWithdraw(a, n)
      PROVE  Farm!VaultShareNeverFallsStep
  <2>1. n \in Nat /\ n <= T
    <3>1. b[a] \in Nat /\ b[a] <= T /\ n \in 1 .. b[a]
      BY <1>c
    <3> QED BY <3>1
  <2>2. PICK r \in Nat : r = (n * v) \div T /\ r <= v /\ r * T <= n * v
    <3>1. (n * v) \div T \in Nat /\ (n * v) \div T <= v
      <4>1. T # 0
        BY <1>c
      <4> QED BY <2>1, <4>1, ReturnedIsThere
    <3>2. n * v \in Nat /\ T \in Nat \ {0}
      BY <2>1, <1>c
    <3>3. ((n * v) \div T) * T <= n * v
      BY <3>2, QuotientIsLess
    <3> QED BY <3>1, <3>3
  <2>3. /\ store' = [store EXCEPT !.shares[a] = @ - n, !.total = @ - n]
        /\ held' = [held EXCEPT !.lp[a] = @ + r, !.lp["vault"] = @ - r]
    BY <1>5, <2>2, <1>c DEF Farm!VaultWithdraw
  <2>4. store'.total = T - n /\ held'.lp["vault"] = v - r
    <3>1. DOMAIN store = FarmFields
      BY <1>a DEF Accounted
    <3>2. store'.total = store.total - n
      BY <2>3, <3>1 DEF FarmFields
    <3>3. held'.lp["vault"] = lp["vault"] - r
      BY <2>3, <1>a, <1>b, <1>c
    <3> QED BY <3>2, <3>3, <1>c
  <2>5. (v - r) * T >= v * (T - n)
    <3>1. (v - r) * T = v * T - r * T /\ v * (T - n) = v * T - n * v
      BY <2>1
    <3>2. v * T \in Nat /\ r * T \in Nat /\ n * v \in Nat
      BY <2>1
    <3> QED BY <2>2, <3>1, <3>2
  <2> QED BY <2>4, <2>5, <1>c DEF Farm!VaultShareNeverFallsStep
<1>6. ASSUME NEW n \in 1 .. FarmAmount, Farm!Compound(n)
      PROVE  Farm!VaultShareNeverFallsStep
  <2>1. PICK r : held' = [held EXCEPT !.rewards = r, !.lp["vault"] = @ + n]
    BY <1>6 DEF Farm!Compound
  <2>2. store' = [Farm!UserUpdated("vault") EXCEPT !.user["vault"].rewards = 0]
    BY <1>6 DEF Farm!Compound
  <2>3. store'.total = Farm!UserUpdated("vault").total
    BY <2>2
  <2>4. held'.lp["vault"] = v + n
    BY <2>1, <1>a, <1>b, <1>c
  <2>5. v + n \in Nat /\ v + n >= held.lp["vault"]
    BY <1>c
  <2> QED BY <2>3, <2>4, <2>5, <1>e, VaultOnlyGains
<1>7. ASSUME NEW a \in Addresses, NEW n \in {0, 1}, Farm!PoolMoves(a, n)
      PROVE  Farm!VaultShareNeverFallsStep
  <2>1. held' = [held EXCEPT !.lp[a] = n] /\ store' = store
    BY <1>7 DEF Farm!PoolMoves
  <2>2. held'.lp["vault"] = v
    BY <2>1, <1>a, <1>b, <1>c
  <2> QED BY <2>1, <2>2, <1>d
<1>8. CASE Farm!Fund
  <2>1. held' = [held EXCEPT !.rewards = FarmAmount] /\ store' = store
    BY <1>8 DEF Farm!Fund
  <2>2. held'.lp["vault"] = v
    BY <2>1, <1>a, <1>c
  <2> QED BY <2>1, <2>2, <1>d
<1>9. CASE Farm!TimePasses \/ UNCHANGED contractVars
  BY <1>9, <1>c, <1>d DEF Farm!TimePasses, contractVars
<1> QED BY <1>1, <1>2, <1>3, <1>4, <1>5, <1>6, <1>7, <1>8, <1>9 DEF Farm!Next

------------------------------------------------------------------------------
(* Moves along the curve of the concentrated pool *)

Ceil(n, d) == (n + d - 1) \div d

LEMMA CeilCovers ==
    ASSUME NEW n \in Nat, NEW d \in Nat \ {0}
    PROVE  Ceil(n, d) \in Nat /\ Ceil(n, d) * d >= n
<1>1. PICK m \in Nat : m = n + d - 1
  BY DEF Ceil
<1>2. m = d * (m \div d) + (m % d) /\ m \div d \in Nat /\ m % d \in 0 .. d - 1
  OBVIOUS
<1>3. PICK q \in Nat, r \in Nat : q = m \div d /\ r = m % d /\ r <= d - 1
  BY <1>2
<1>4. Ceil(n, d) = q
  BY <1>1, <1>3 DEF Ceil
<1>5. d * q = q * d /\ q * d \in Nat
  OBVIOUS
<1> QED BY <1>1, <1>2, <1>3, <1>4, <1>5

\* What is rounded up stays under a whole number that n / d is under.
LEMMA CeilIsLeast ==
    ASSUME NEW n \in Nat, NEW d \in Nat \ {0}, NEW k \in Nat, n <= k * d
    PROVE  Ceil(n, d) <= k
<1>1. PICK m \in Nat, q \in Nat : m = n + d - 1 /\ q = Ceil(n, d) /\ q = m \div d
  <2>1. n + d - 1 \in Nat /\ Ceil(n, d) \in Nat
    BY CeilCovers
  <2> QED BY <2>1 DEF Ceil
<1>2. q * d <= m
  BY <1>1, QuotientIsLess
<1>3. SUFFICES ASSUME k < q PROVE FALSE
  BY <1>1
<1>4. PICK e \in Nat : q = k + 1 + e
  <2>1. q - (k + 1) \in Nat /\ q = k + 1 + (q - (k + 1))
    BY <1>3
  <2> QED BY <2>1
<1>5. q * d = k * d + d + e * d /\ e * d \in Nat /\ k * d \in Nat
  BY <1>4
<1> QED BY <1>1, <1>2, <1>5

\* Down to the limit, and short of it.
LEMMA DownToLimit ==
    ASSUME NEW l \in Nat, NEW u \in Nat, NEW p \in Nat, NEW limit \in Nat, limit > 0, limit < p
    PROVE  /\ Ceil(l * (p - limit) * u, p * limit) \in Nat
           /\ Ceil(l * (p - limit) * u, p * limit) * p * limit >= l * (p - limit) * u
<1>1. PICK n \in Nat, d \in Nat \ {0} : n = l * (p - limit) * u /\ d = p * limit
  <2>1. p - limit \in Nat
    OBVIOUS
  <2>2. l * (p - limit) * u \in Nat
    BY <2>1
  <2>3. p * limit \in Nat /\ p * limit # 0
    OBVIOUS
  <2> QED BY <2>2, <2>3
<1>2. PICK q \in Nat : q = Ceil(n, d) /\ q * d >= n
  BY CeilCovers
<1>3. q * d = q * p * limit
  BY <1>1
<1> QED BY <1>1, <1>2, <1>3

LEMMA DownByInput ==
    ASSUME NEW l \in Nat \ {0}, NEW u \in Nat \ {0}, NEW p \in Nat \ {0}, NEW less \in Nat,
           NEW q \in Nat, q >= Ceil(l * u * p, l * u + less * p), q <= p
    PROVE  less * p * q >= l * (p - q) * u
<1>1. PICK n \in Nat, d \in Nat \ {0} : n = l * u * p /\ d = l * u + less * p
  <2>1. l * u \in Nat /\ l * u > 0 /\ less * p \in Nat /\ l * u * p \in Nat
    OBVIOUS
  <2> QED BY <2>1
<1>2. PICK c \in Nat : c = Ceil(n, d) /\ c * d >= n /\ q >= c
  BY <1>1, CeilCovers
<1>3. q * d >= c * d
  BY <1>2, ProductsGrow
<1>4. q * d = q * l * u + less * p * q
  BY <1>1
<1>5. l * (p - q) * u = n - q * l * u
  BY <1>1
<1>6. q * l * u \in Nat /\ less * p * q \in Nat /\ q * d \in Nat /\ c * d \in Nat
  BY <1>2
<1> QED BY <1>2, <1>3, <1>4, <1>5, <1>6

LEMMA NoHigherThanBefore ==
    ASSUME NEW l \in Nat \ {0}, NEW u \in Nat \ {0}, NEW p \in Nat \ {0}, NEW less \in Nat
    PROVE  Ceil(l * u * p, l * u + less * p) \in Nat /\ Ceil(l * u * p, l * u + less * p) <= p
<1>1. PICK n \in Nat, d \in Nat \ {0} : n = l * u * p /\ d = l * u + less * p
  <2>1. l * u \in Nat /\ l * u > 0 /\ less * p \in Nat /\ l * u * p \in Nat
    OBVIOUS
  <2> QED BY <2>1
<1>2. n <= p * d
  <2>1. p * d = n + less * p * p /\ less * p * p \in Nat
    BY <1>1
  <2> QED BY <2>1
<1> QED BY <1>1, <1>2, CeilCovers, CeilIsLeast

\* What was paid in gross covers what was used and the fee, of at least low.
LEMMA GrossCovers ==
    ASSUME NEW used \in Nat, NEW unit \in Nat, NEW fee \in Nat, NEW low \in Nat,
           low <= fee, fee < unit
    PROVE  /\ Ceil(used * unit, unit - fee) \in Nat
           /\ Ceil(used * unit, unit - fee) >= used
           /\ Ceil(used * unit, unit - fee) * (unit - low) >= used * unit
<1>1. PICK n \in Nat, d \in Nat \ {0}, e \in Nat : /\ n = used * unit /\ d = unit - fee
                                                   /\ e = unit - low /\ d <= e /\ d <= unit
  <2>1. used * unit \in Nat /\ unit - fee \in Nat \ {0} /\ unit - low \in Nat
    OBVIOUS
  <2> QED BY <2>1
<1>2. PICK g \in Nat : g = Ceil(n, d) /\ g * d >= n
  BY CeilCovers
<1>3. g * e >= g * d /\ g * e \in Nat /\ g * d \in Nat
  BY <1>1, ProductsGrow
<1>4. g >= used
  <2>1. SUFFICES ASSUME g < used PROVE FALSE
    BY <1>2
  <2>2. PICK k \in Nat : used = g + 1 + k
    <3>1. used - (g + 1) \in Nat /\ used = g + 1 + (used - (g + 1))
      BY <2>1
    <3> QED BY <3>1
  <2>3. n = g * unit + unit + k * unit /\ k * unit \in Nat /\ g * unit \in Nat
    BY <1>1, <2>2
  <2>4. g * d <= g * unit
    BY <1>1, ProductsGrow
  <2> QED BY <1>1, <1>2, <1>3, <2>3, <2>4
<1> QED BY <1>1, <1>2, <1>3, <1>4

\* The same with the price: what covers the move without the fee covers it with the fee.
LEMMA PaidCovers ==
    ASSUME NEW used \in Nat, NEW unit \in Nat, NEW paid \in Nat, NEW rate \in Nat,
           NEW move \in Nat, paid >= used * unit, used * rate >= move
    PROVE  paid * rate >= move * unit
<1>1. PICK a \in Nat, b \in Nat : a = used * unit /\ b = used * rate
  <2>1. used * unit \in Nat /\ used * rate \in Nat
    OBVIOUS
  <2> QED BY <2>1
<1>2. a * rate <= paid * rate /\ move * unit <= b * unit
  BY <1>1, ProductsGrow
<1>3. a * rate = b * unit /\ a * rate \in Nat /\ paid * rate \in Nat /\ move * unit \in Nat
  BY <1>1
<1> QED BY <1>2, <1>3

LEMMA MoveDown ==
    ASSUME NEW l \in Nat \ {0}, NEW u \in Nat \ {0}, NEW p \in Nat, NEW limit \in Nat,
           NEW less \in Nat, NEW need, NEW q, NEW used, limit > 0, limit < p,
           need = Ceil(l * (p - limit) * u, p * limit),
           \/ less >= need /\ q = limit /\ used = need
           \/ /\ less < need /\ used = less
              /\ q \in {Ceil(l * u * p, l * u + less * p), limit}
              /\ q >= Ceil(l * u * p, l * u + less * p) /\ q >= limit
    PROVE  q \in Nat /\ q > 0 /\ q <= p /\ used \in Nat /\ used * p * q >= l * (p - q) * u
<1>1. need \in Nat /\ need * p * limit >= l * (p - limit) * u
  BY DownToLimit
<1>2. /\ Ceil(l * u * p, l * u + less * p) \in Nat
      /\ Ceil(l * u * p, l * u + less * p) <= p
  <2>1. p \in Nat \ {0}
    OBVIOUS
  <2> QED BY <2>1, NoHigherThanBefore
<1>3. CASE less >= need /\ q = limit /\ used = need
  BY <1>1, <1>3
<1>4. CASE /\ less < need /\ used = less
           /\ q \in {Ceil(l * u * p, l * u + less * p), limit}
           /\ q >= Ceil(l * u * p, l * u + less * p) /\ q >= limit
  <2>1. q \in Nat /\ q > 0 /\ q <= p
    BY <1>2, <1>4
  <2>2. p \in Nat \ {0}
    OBVIOUS
  <2>3. less * p * q >= l * (p - q) * u
    BY <1>4, <2>1, <2>2, DownByInput
  <2> QED BY <1>4, <2>1, <2>3
<1> QED BY <1>3, <1>4

LEMMA MoveUp ==
    ASSUME NEW l \in Nat \ {0}, NEW u \in Nat \ {0}, NEW p \in Nat, NEW limit \in Nat,
           NEW less \in Nat, NEW need \in Nat, NEW q, NEW used, NEW e \in Nat, limit > p,
           need * u >= l * (limit - p), e * l <= less * u,
           \/ less >= need /\ q = limit /\ used = need
           \/ less < need /\ used = less /\ q \in {p + e, limit} /\ q <= p + e
    PROVE  q \in Nat /\ q >= p /\ used \in Nat /\ used * u >= l * (q - p)
<1>1. CASE less >= need /\ q = limit /\ used = need
  BY <1>1
<1>2. CASE less < need /\ used = less /\ q \in {p + e, limit} /\ q <= p + e
  <2>1. PICK d \in Nat : q = p + d /\ d <= e
    <3>1. q \in Nat /\ q >= p /\ q <= p + e
      BY <1>2
    <3>2. q - p \in Nat /\ q = p + (q - p) /\ q - p <= e
      BY <3>1
    <3> QED BY <3>2
  <2>2. d * l <= e * l /\ d * l \in Nat /\ e * l \in Nat /\ less * u \in Nat
    BY <2>1, ProductsGrow
  <2>3. l * (q - p) = d * l
    BY <2>1
  <2> QED BY <1>2, <2>1, <2>2, <2>3
<1> QED BY <1>1, <1>2

Tokens == Concentrated!Pair
SwapTicks == [gross : Nat, net : Int] \cup {Concentrated!NoTick}
SwapPosition == [liquidity : Nat, last : [Tokens -> Nat], owed : [Tokens -> Int]]
SwapFields ==
    {"initialized", "tick", "price", "liquidity", "growth", "ticks", "position", "referrer",
     "rate", "start", "volume", "change", "lastPrice"}

SwapSafe ==
    /\ DOMAIN store = SwapFields /\ store.initialized \in BOOLEAN
    /\ store.tick \in Int /\ store.price \in Nat /\ store.liquidity \in Int
    /\ store.initialized => store.price > 0
    /\ store.growth \in [Tokens -> Nat]
    /\ store.ticks \in [Concentrated!Ticks -> SwapTicks]
    /\ store.position \in [Addresses -> [TickRanges -> SwapPosition]]
    /\ store.referrer \in [Addresses -> Somebody] /\ store.rate \in Nat
    /\ store.volume \in Nat /\ store.change \in Nat /\ store.lastPrice \in Nat
    /\ held \in [Tokens -> Nat]

LEMMA SwapTyped == SwapSafe => Concentrated!TypeOK
<1> SUFFICES ASSUME SwapSafe PROVE Concentrated!TypeOK
  OBVIOUS
<1>1. store.ticks \in [Concentrated!Ticks -> [gross : Nat \cup {-1}, net : Int]]
  <2>1. SwapTicks \subseteq [gross : Nat \cup {-1}, net : Int]
    BY DEF SwapTicks, Concentrated!NoTick
  <2> QED BY <2>1 DEF SwapSafe
<1>2. \A a \in Addresses, r \in TickRanges : /\ store.position[a][r].liquidity \in Nat
                                             /\ store.position[a][r].owed \in [Tokens -> Int]
  BY DEF SwapSafe, SwapPosition
<1> QED BY <1>1, <1>2 DEF SwapSafe, Concentrated!TypeOK, Tokens, Somebody, Concentrated!Somebody

LEMMA SwapInit == Concentrated!Init => SwapSafe
<1> SUFFICES ASSUME Concentrated!Init PROVE SwapSafe
  OBVIOUS
<1>1. /\ DOMAIN store = SwapFields /\ store.initialized = FALSE /\ store.tick = 0
      /\ store.price = 0 /\ store.liquidity = 0 /\ store.growth = [t \in Tokens |-> 0]
      /\ store.ticks = [i \in Concentrated!Ticks |-> Concentrated!NoTick]
      /\ store.position = [a \in Addresses |-> [r \in TickRanges |-> Concentrated!NoPosition]]
      /\ store.referrer = [a \in Addresses |-> Nobody] /\ store.rate = 1
      /\ store.volume = 0 /\ store.change = 0 /\ store.lastPrice = 0
      /\ held = [t \in Tokens |-> 0]
  BY DEF Concentrated!Init, SwapFields, Tokens
<1>2. Concentrated!NoPosition \in SwapPosition
  BY DEF SwapPosition, Concentrated!NoPosition, Tokens
<1>3. [t \in Tokens |-> 0] \in [Tokens -> Nat]
  OBVIOUS
<1>4. store.position \in [Addresses -> [TickRanges -> SwapPosition]]
  BY <1>1, <1>2
<1>5. store.ticks \in [Concentrated!Ticks -> SwapTicks]
  BY <1>1 DEF SwapTicks
<1>6. store.referrer \in [Addresses -> Somebody]
  BY <1>1 DEF Somebody
<1>7. store.growth \in [Tokens -> Nat] /\ held \in [Tokens -> Nat]
  BY <1>1, <1>3
<1>8. DOMAIN store = SwapFields
  BY <1>1
<1>9. store.initialized \in BOOLEAN /\ (store.initialized => store.price > 0)
  BY DEF Concentrated!Init
<1>10. store.tick = 0 /\ store.price = 0 /\ store.liquidity = 0 /\ store.rate = 1
  BY DEF Concentrated!Init
<1>11. store.volume = 0 /\ store.change = 0 /\ store.lastPrice = 0
  BY DEF Concentrated!Init
<1>12. 0 \in Nat /\ 0 \in Int /\ 1 \in Nat
  OBVIOUS
<1> QED BY <1>4, <1>5, <1>6, <1>7, <1>8, <1>9, <1>10, <1>11, <1>12 DEF SwapSafe

LEMMA AmountIsNumber ==
    ASSUME NEW t \in Tokens, NEW a \in Nat, NEW b \in Nat, a <= b, NEW l \in Nat
    PROVE  Concentrated!AmountFor(t, a, b, l) \in Nat
<1>1. PICK n \in Nat : n = l * (b - a)
  <2>1. b - a \in Nat
    OBVIOUS
  <2>2. l * (b - a) \in Nat
    BY <2>1
  <2> QED BY <2>2
<1>2. PICK d \in Nat \ {0} : d = Concentrated!Greatest((a \div HalfQ) * (b \div HalfQ), 1)
  <2>1. a \div HalfQ \in Nat /\ b \div HalfQ \in Nat
    BY SwapAssumption
  <2>2. (a \div HalfQ) * (b \div HalfQ) \in Nat
    BY <2>1
  <2> QED BY <2>2 DEF Concentrated!Greatest
<1>3. n \div Q96 \in Nat /\ n \div d \in Nat
  BY SwapAssumption
<1> QED BY <1>1, <1>2, <1>3 DEF Concentrated!AmountFor

LEMMA LiquidityIsInteger ==
    ASSUME NEW t \in Tokens, NEW a \in Nat, NEW b \in Nat \ {0}, NEW amount \in Nat
    PROVE  Concentrated!LiquidityFor(t, a, b, amount) \in Int
<1>1. PICK d \in Nat \ {0} : d = Concentrated!Greatest(((b - a) \div HalfQ) * HalfQ, 1)
  <2>1. PICK m \in Int : m = b - a
    OBVIOUS
  <2>2. PICK h \in Nat \ {0} : h = HalfQ
    BY SwapAssumption
  <2>3. m \div h \in Int
    OBVIOUS
  <2>4. (m \div h) * h \in Int
    BY <2>3
  <2> QED BY <2>1, <2>2, <2>4 DEF Concentrated!Greatest
<1>2. PICK n \in Nat : n = amount * (a \div HalfQ) * (b \div HalfQ)
  <2>1. a \div HalfQ \in Nat /\ b \div HalfQ \in Nat
    BY SwapAssumption
  <2>2. amount * (a \div HalfQ) * (b \div HalfQ) \in Nat
    BY <2>1
  <2> QED BY <2>2
<1>3. PICK k \in Nat : k = amount * Q96
  BY SwapAssumption
<1>4. n \div d \in Int /\ k \div b \in Int
  OBVIOUS
<1> QED BY <1>1, <1>2, <1>3, <1>4 DEF Concentrated!LiquidityFor

LEMMA TicksUpdated ==
    ASSUME SwapSafe, NEW range, NEW delta \in Int
    PROVE  Concentrated!UpdatedTicks(range, delta) \in [Concentrated!Ticks -> SwapTicks]
<1> SUFFICES ASSUME NEW i \in Concentrated!Ticks
             PROVE  Concentrated!UpdatedTicks(range, delta)[i] \in SwapTicks
  BY DEF Concentrated!UpdatedTicks
<1> DEFINE old == IF store.ticks[i] = Concentrated!NoTick THEN [gross |-> 0, net |-> 0]
                  ELSE store.ticks[i]
           new == [gross |-> old.gross + Concentrated!Abs(delta),
                   net |-> old.net + (IF i = range[1] THEN delta ELSE -delta)]
<1>1. store.ticks[i] \in SwapTicks
  BY DEF SwapSafe
<1>2. old \in [gross : Nat, net : Int]
  BY <1>1 DEF SwapTicks
<1>3. Concentrated!Abs(delta) \in Nat
  BY DEF Concentrated!Abs, Concentrated!Greatest
<1>4. new \in [gross : Nat, net : Int]
  <2> HIDE DEF old
  <2> QED BY <1>2, <1>3
<1>5. Concentrated!UpdatedTicks(range, delta)[i] \in {store.ticks[i], Concentrated!NoTick, new}
  BY DEF Concentrated!UpdatedTicks
<1> HIDE DEF new
<1> QED BY <1>1, <1>4, <1>5 DEF SwapTicks

\* A position is exchanged for another.
LEMMA PositionBecomes ==
    ASSUME SwapSafe, NEW a \in Addresses, NEW r \in TickRanges, NEW p \in SwapPosition
    PROVE  [store.position EXCEPT ![a] = [store.position[a] EXCEPT ![r] = p]]
               \in [Addresses -> [TickRanges -> SwapPosition]]
  BY DEF SwapSafe

LEMMA FeeIsBounded ==
    ASSUME SwapSafe
    PROVE  Concentrated!Fee \in Nat /\ MinFee <= Concentrated!Fee /\ Concentrated!Fee <= MaxFee
<1>1. PICK low \in Nat, high \in Nat, k \in Nat : /\ low = MinFee /\ high = MaxFee /\ low <= high
                                                 /\ k = MaxFee - MinFee /\ high = low + k
  <2>1. MinFee \in Nat /\ MaxFee \in Nat /\ MinFee <= MaxFee
    BY SwapAssumption
  <2>2. MaxFee - MinFee \in Nat /\ MaxFee = MinFee + (MaxFee - MinFee)
    BY <2>1
  <2> QED BY <2>1, <2>2
<1>2. PICK f \in Nat : f <= 100 /\ f = Concentrated!Least(
          (store.volume * 100) \div VolumeThreshold + (store.change * 100) \div VolatilityThreshold,
          100)
  <2>1. PICK v \in Nat, c \in Nat : v = store.volume * 100 /\ c = store.change * 100
    BY DEF SwapSafe
  <2>2. v \div VolumeThreshold \in Nat /\ c \div VolatilityThreshold \in Nat
    BY SwapAssumption
  <2>3. v \div VolumeThreshold + c \div VolatilityThreshold \in Nat
    BY <2>2
  <2> QED BY <2>1, <2>3 DEF Concentrated!Least
<1>3. PICK e \in Nat : e = (k * f) \div 100 /\ e <= k
  <2>1. (f * k) \div 100 \in Nat /\ (f * k) \div 100 <= k
    BY <1>2, ReturnedIsThere
  <2>2. f * k = k * f
    OBVIOUS
  <2> QED BY <2>1, <2>2
<1>4. Concentrated!Fee \in {low, low + e}
  BY <1>1, <1>2, <1>3 DEF Concentrated!Fee
<1> QED BY <1>1, <1>3, <1>4

\* A swap's move: the price, what it brings, what it takes.
MovesDown(in, out, p, q) ==
    /\ q > 0 /\ q <= p
    /\ in * (SwapFeeUnit - MinFee) * (p * q) >= store.liquidity * (p - q) * Q96 * SwapFeeUnit
    /\ out * Q96 <= store.liquidity * (p - q)
MovesUp(in, out, p, q) ==
    /\ q >= p
    /\ in * (SwapFeeUnit - MinFee) * Q96 >= store.liquidity * (q - p) * SwapFeeUnit
    /\ out * (p * q) <= store.liquidity * (q - p) * Q96

Net(amount) == (amount * (SwapFeeUnit - Concentrated!Fee)) \div SwapFeeUnit
Reached(t, amount, limit) ==
    Concentrated!NextPrice(t, store.price, limit, store.liquidity, Net(amount))
Used(t, amount, limit) ==
    Concentrated!Least(Net(amount),
                       Concentrated!InputDelta(t, store.price, limit, store.liquidity))
Gross(t, amount, limit) ==
    Concentrated!RoundUp(Used(t, amount, limit) * SwapFeeUnit, SwapFeeUnit - Concentrated!Fee)
Out(t, amount, limit) ==
    Concentrated!OutputDelta(t, store.price, Reached(t, amount, limit), store.liquidity)

LEMMA NetIsNumber ==
    ASSUME SwapSafe, NEW amount \in Nat
    PROVE  Net(amount) \in Nat
<1>1. PICK k \in Nat : k = SwapFeeUnit - Concentrated!Fee
  BY FeeIsBounded, SwapAssumption
<1>2. PICK n \in Nat : n = amount * k
  OBVIOUS
<1>3. SwapFeeUnit \in Nat \ {0}
  BY SwapAssumption
<1> QED BY <1>1, <1>2, <1>3 DEF Net

\* What the fee adds to what is used.
LEMMA GrossOfUsed ==
    ASSUME SwapSafe, NEW t, NEW amount, NEW limit, Used(t, amount, limit) \in Nat
    PROVE  /\ Gross(t, amount, limit) \in Nat
           /\ Gross(t, amount, limit) >= Used(t, amount, limit)
           /\ Gross(t, amount, limit) * (SwapFeeUnit - MinFee)
                >= Used(t, amount, limit) * SwapFeeUnit
<1>1. PICK fee \in Nat, unit \in Nat, low \in Nat, used \in Nat :
          /\ fee = Concentrated!Fee /\ unit = SwapFeeUnit /\ low = MinFee
          /\ used = Used(t, amount, limit) /\ low <= fee /\ fee < unit
  <2>1. /\ Concentrated!Fee \in Nat /\ MinFee <= Concentrated!Fee
        /\ Concentrated!Fee <= MaxFee
    BY FeeIsBounded
  <2>2. SwapFeeUnit \in Nat /\ MinFee \in Nat /\ MaxFee \in Nat /\ MaxFee < SwapFeeUnit
    BY SwapAssumption
  <2>3. Concentrated!Fee < SwapFeeUnit
    BY <2>1, <2>2
  <2> QED BY <2>1, <2>2, <2>3
<1>2. Gross(t, amount, limit) = Ceil(used * unit, unit - fee)
  BY <1>1 DEF Gross, Concentrated!RoundUp, Ceil
<1>3. /\ Ceil(used * unit, unit - fee) \in Nat
      /\ Ceil(used * unit, unit - fee) >= used
      /\ Ceil(used * unit, unit - fee) * (unit - low) >= used * unit
  BY <1>1, GrossCovers
<1> QED BY <1>1, <1>2, <1>3

LEMMA SwapDown ==
    ASSUME SwapSafe, NEW amount \in Nat, NEW limit \in Nat,
           limit > 0, limit < store.price, store.liquidity > 0
    PROVE  /\ Reached("A", amount, limit) \in Nat
           /\ Used("A", amount, limit) \in Nat /\ Out("A", amount, limit) \in Nat
           /\ MovesDown(Gross("A", amount, limit), Out("A", amount, limit), store.price,
                        Reached("A", amount, limit))
<1>1. PICK l \in Nat \ {0}, u \in Nat \ {0}, p \in Nat, less \in Nat :
          l = store.liquidity /\ u = Q96 /\ p = store.price /\ less = Net(amount) /\ limit < p
  <2>1. store.liquidity \in Int /\ store.price \in Nat
    BY DEF SwapSafe
  <2>2. store.liquidity \in Nat \ {0}
    BY <2>1
  <2>3. Q96 \in Nat \ {0} /\ Net(amount) \in Nat
    BY NetIsNumber, SwapAssumption
  <2> QED BY <2>1, <2>2, <2>3
<1>2. PICK need, q, used : /\ need = Concentrated!InputDelta("A", p, limit, l)
                           /\ q = Reached("A", amount, limit) /\ used = Used("A", amount, limit)
  OBVIOUS
<1>3. Concentrated!Abs(p - limit) = p - limit
  BY <1>1 DEF Concentrated!Abs, Concentrated!Greatest
<1>4. need = Ceil(l * (p - limit) * u, p * limit) /\ need \in Nat
  BY <1>1, <1>2, <1>3, DownToLimit DEF Concentrated!InputDelta, Concentrated!RoundUp, Ceil
<1>5. PICK c \in Nat : c = Ceil(l * u * p, l * u + less * p)
  <2>1. p \in Nat \ {0}
    BY <1>1
  <2> QED BY <2>1, NoHigherThanBefore
<1>6. q = IF less >= need THEN limit ELSE Concentrated!Greatest(c, limit)
  BY <1>1, <1>2, <1>5
  DEF Reached, Concentrated!NextPrice, Concentrated!RoundUp, Ceil
<1>7. used = Concentrated!Least(less, need)
  BY <1>1, <1>2 DEF Used
<1>8. \/ less >= need /\ q = limit /\ used = need
      \/ less < need /\ used = less /\ q \in {c, limit} /\ q >= c /\ q >= limit
  BY <1>4, <1>6, <1>7 DEF Concentrated!Greatest, Concentrated!Least
<1>9. q \in Nat /\ q > 0 /\ q <= p /\ used \in Nat /\ used * p * q >= l * (p - q) * u
  <2>1. \/ less >= need /\ q = limit /\ used = need
        \/ /\ less < need /\ used = less
           /\ q \in {Ceil(l * u * p, l * u + less * p), limit}
           /\ q >= Ceil(l * u * p, l * u + less * p) /\ q >= limit
    BY <1>5, <1>8
  <2>2. limit < p /\ need = Ceil(l * (p - limit) * u, p * limit)
    BY <1>1, <1>4
  <2> QED BY SMTT(30), <2>1, <2>2, MoveDown
<1>10. Concentrated!Abs(p - q) = p - q
  BY <1>9 DEF Concentrated!Abs, Concentrated!Greatest
<1>11. PICK move \in Nat : move = l * (p - q)
  <2>1. p - q \in Nat
    BY <1>9
  <2> QED BY <2>1
<1>12. Out("A", amount, limit) = move \div u
  BY <1>1, <1>2, <1>10, <1>11 DEF Out, Concentrated!OutputDelta
<1>13. move \div u \in Nat /\ (move \div u) * u <= move
  BY QuotientIsLess
<1>14. PICK gross \in Nat, rate \in Nat, unit \in Nat :
          /\ gross = Gross("A", amount, limit) /\ rate = SwapFeeUnit - MinFee
          /\ unit = SwapFeeUnit /\ gross * rate >= used * unit
  <2>1. SwapFeeUnit \in Nat /\ SwapFeeUnit - MinFee \in Nat
    BY SwapAssumption
  <2> QED BY <1>2, <1>9, <2>1, GrossOfUsed
<1>15. gross * rate * (p * q) >= move * u * unit
  <2>1. PICK paid \in Nat, pq \in Nat, m \in Nat :
            paid = gross * rate /\ pq = p * q /\ m = move * u
    <3>1. gross * rate \in Nat /\ p * q \in Nat /\ move * u \in Nat
      BY <1>9
    <3> QED BY <3>1
  <2>2. used * pq >= m
    <3>1. used * p * q = used * pq
      BY <1>9, <2>1
    <3> QED BY <1>9, <1>11, <2>1, <3>1
  <2>3. paid * pq >= m * unit
    BY <1>9, <1>14, <2>1, <2>2, PaidCovers
  <2> QED BY <2>1, <2>3
<1> QED BY <1>1, <1>2, <1>9, <1>11, <1>12, <1>13, <1>14, <1>15 DEF MovesDown

LEMMA SwapUp ==
    ASSUME SwapSafe, NEW amount \in Nat, NEW limit \in Nat,
           store.price > 0, limit > store.price, store.liquidity > 0
    PROVE  /\ Reached("B", amount, limit) \in Nat
           /\ Used("B", amount, limit) \in Nat /\ Out("B", amount, limit) \in Nat
           /\ MovesUp(Gross("B", amount, limit), Out("B", amount, limit), store.price,
                      Reached("B", amount, limit))
<1>1. PICK l \in Nat \ {0}, u \in Nat \ {0}, p \in Nat, less \in Nat :
          /\ l = store.liquidity /\ u = Q96 /\ p = store.price /\ less = Net(amount)
          /\ p > 0 /\ limit > p
  <2>1. store.liquidity \in Int /\ store.price \in Nat
    BY DEF SwapSafe
  <2>2. store.liquidity \in Nat \ {0}
    BY <2>1
  <2>3. Q96 \in Nat \ {0} /\ Net(amount) \in Nat
    BY NetIsNumber, SwapAssumption
  <2> QED BY <2>1, <2>2, <2>3
<1>2. PICK need, q, used : /\ need = Concentrated!InputDelta("B", p, limit, l)
                           /\ q = Reached("B", amount, limit) /\ used = Used("B", amount, limit)
  OBVIOUS
<1>3. Concentrated!Abs(p - limit) = limit - p
  BY <1>1 DEF Concentrated!Abs, Concentrated!Greatest
<1>4. need \in Nat /\ need * u >= l * (limit - p)
  <2>1. limit - p \in Nat
    BY <1>1
  <2>2. l * (limit - p) \in Nat
    BY <2>1
  <2>3. Ceil(l * (limit - p), u) \in Nat /\ Ceil(l * (limit - p), u) * u >= l * (limit - p)
    BY <2>2, CeilCovers
  <2>4. "B" # "A"
    OBVIOUS
  <2> QED BY <1>2, <1>1, <1>3, <2>3, <2>4 DEF Concentrated!InputDelta, Concentrated!RoundUp, Ceil
<1>5. PICK e \in Nat : e = (less * u) \div l /\ e * l <= less * u
  <2>1. less * u \in Nat
    OBVIOUS
  <2> QED BY <2>1, QuotientIsLess
<1>6. q = IF less >= need THEN limit ELSE Concentrated!Least(p + e, limit)
  BY <1>1, <1>2, <1>5 DEF Reached, Concentrated!NextPrice
<1>7. used = Concentrated!Least(less, need)
  BY <1>1, <1>2 DEF Used
<1>8. \/ less >= need /\ q = limit /\ used = need
      \/ less < need /\ used = less /\ q \in {p + e, limit} /\ q <= p + e
  BY <1>4, <1>6, <1>7 DEF Concentrated!Least
<1>9. q \in Nat /\ q >= p /\ used \in Nat /\ used * u >= l * (q - p)
  <2>1. limit > p /\ need \in Nat /\ need * u >= l * (limit - p)
    BY <1>1, <1>4
  <2>2. e * l <= less * u
    BY <1>5
  <2>3. CASE less >= need /\ q = limit /\ used = need
    BY <2>1, <2>3
  <2>4. CASE less < need /\ used = less /\ q \in {p + e, limit} /\ q <= p + e
    BY <2>1, <2>2, <2>4, MoveUp
  <2> QED BY <1>8, <2>3, <2>4
<1>10. Concentrated!Abs(p - q) = q - p
  BY <1>9 DEF Concentrated!Abs, Concentrated!Greatest
<1>11. PICK move \in Nat : move = l * (q - p)
  <2>1. q - p \in Nat
    BY <1>9
  <2> QED BY <2>1
<1>12. PICK n \in Nat, d \in Nat \ {0} : n = move * u /\ d = p * q
  <2>1. move * u \in Nat
    OBVIOUS
  <2>2. q > 0
    BY <1>1, <1>9
  <2>3. p * q \in Nat \ {0}
    BY <1>1, <1>9, <2>2
  <2> QED BY <2>1, <2>3
<1>13. Out("B", amount, limit) = n \div d
  BY <1>1, <1>2, <1>10, <1>11, <1>12 DEF Out, Concentrated!OutputDelta
<1>14. n \div d \in Nat /\ (n \div d) * d <= n
  BY QuotientIsLess
<1>15. PICK gross \in Nat, rate \in Nat, unit \in Nat :
          /\ gross = Gross("B", amount, limit) /\ rate = SwapFeeUnit - MinFee
          /\ unit = SwapFeeUnit /\ gross * rate >= used * unit
  <2>1. SwapFeeUnit \in Nat /\ SwapFeeUnit - MinFee \in Nat
    BY SwapAssumption
  <2> QED BY <1>2, <1>9, <2>1, GrossOfUsed
<1>16. gross * rate * u >= move * unit
  <2>1. PICK paid \in Nat : paid = gross * rate
    OBVIOUS
  <2>2. paid * u >= move * unit
    BY <1>9, <1>11, <1>15, <2>1, PaidCovers
  <2> QED BY <2>1, <2>2
<1> QED BY <1>1, <1>2, <1>9, <1>11, <1>12, <1>13, <1>14, <1>15, <1>16 DEF MovesUp

LEMMA SwapIdle == SwapSafe /\ UNCHANGED contractVars => SwapSafe'
  BY DEF SwapSafe, contractVars

LEMMA SwapTicksStep ==
    ASSUME SwapSafe, NEW i \in Concentrated!Ticks,
           \/ Concentrated!InitializeTick(i)
           \/ Concentrated!Initialize(i, TickPrices[i])
    PROVE  SwapSafe'
<1>1. CASE Concentrated!InitializeTick(i)
  <2>1. /\ DOMAIN store' = SwapFields
        /\ store'.ticks = [store.ticks EXCEPT ![i] = [gross |-> 0, net |-> 0]]
        /\ store'.initialized = store.initialized /\ store'.tick = store.tick
        /\ store'.price = store.price /\ store'.liquidity = store.liquidity
        /\ store'.growth = store.growth /\ store'.position = store.position
        /\ store'.referrer = store.referrer /\ store'.rate = store.rate
        /\ store'.volume = store.volume /\ store'.change = store.change
        /\ store'.lastPrice = store.lastPrice /\ held' = held
    BY <1>1 DEF Concentrated!InitializeTick, SwapSafe, SwapFields
  <2>2. [gross |-> 0, net |-> 0] \in SwapTicks
    BY DEF SwapTicks
  <2>3. store'.ticks \in [Concentrated!Ticks -> SwapTicks]
    BY <2>1, <2>2 DEF SwapSafe
  <2> QED BY <2>1, <2>3 DEF SwapSafe, Concentrated!Ticks
<1>2. CASE Concentrated!Initialize(i, TickPrices[i])
  <2>1. /\ DOMAIN store' = SwapFields /\ store'.ticks = store.ticks
        /\ store'.initialized = TRUE /\ store'.tick = i
        /\ store'.price = TickPrices[i] /\ store'.liquidity = store.liquidity
        /\ store'.growth = store.growth /\ store'.position = store.position
        /\ store'.referrer = store.referrer /\ store'.rate = store.rate
        /\ store'.volume = store.volume /\ store'.change = store.change
        /\ store'.lastPrice = TickPrices[i] /\ held' = held
    BY <1>2 DEF Concentrated!Initialize, SwapSafe, SwapFields
  <2>2. TickPrices[i] \in Nat /\ TickPrices[i] > 0 /\ i \in Int
    BY SwapAssumption DEF Concentrated!Ticks
  <2> QED BY <2>1, <2>2 DEF SwapSafe, Concentrated!Ticks
<1> QED BY <1>1, <1>2

LEMMA SwapRateStep ==
    ASSUME SwapSafe,
           \/ \E a \in Addresses, b \in Addresses : Concentrated!SetReferrer(a, b)
           \/ \E rate \in ReferralRates : Concentrated!SetReferralFeeRate(rate)
    PROVE  SwapSafe'
<1>1. ASSUME NEW a \in Addresses, NEW b \in Addresses, Concentrated!SetReferrer(a, b)
      PROVE  SwapSafe'
  <2>1. /\ DOMAIN store' = SwapFields
        /\ store'.referrer = [store.referrer EXCEPT ![a] = b]
        /\ store'.initialized = store.initialized /\ store'.tick = store.tick
        /\ store'.price = store.price /\ store'.liquidity = store.liquidity
        /\ store'.growth = store.growth /\ store'.position = store.position
        /\ store'.ticks = store.ticks /\ store'.rate = store.rate
        /\ store'.volume = store.volume /\ store'.change = store.change
        /\ store'.lastPrice = store.lastPrice /\ held' = held
    BY <1>1 DEF Concentrated!SetReferrer, SwapSafe, SwapFields
  <2>2. store'.referrer \in [Addresses -> Somebody]
    BY <2>1 DEF SwapSafe, Somebody
  <2> QED BY <2>1, <2>2 DEF SwapSafe
<1>2. ASSUME NEW rate \in ReferralRates, Concentrated!SetReferralFeeRate(rate)
      PROVE  SwapSafe'
  <2>1. /\ DOMAIN store' = SwapFields /\ store'.referrer = store.referrer
        /\ store'.initialized = store.initialized /\ store'.tick = store.tick
        /\ store'.price = store.price /\ store'.liquidity = store.liquidity
        /\ store'.growth = store.growth /\ store'.position = store.position
        /\ store'.ticks = store.ticks /\ store'.rate = rate
        /\ store'.volume = store.volume /\ store'.change = store.change
        /\ store'.lastPrice = store.lastPrice /\ held' = held
    BY <1>2 DEF Concentrated!SetReferralFeeRate, SwapSafe, SwapFields
  <2>2. rate \in Nat
    BY SwapAssumption
  <2> QED BY <2>1, <2>2 DEF SwapSafe
<1> QED BY <1>1, <1>2

LEMMA ActiveIsInteger ==
    ASSUME SwapSafe, NEW range, NEW delta \in Int
    PROVE  Concentrated!ActiveAfter(range, delta) \in Int
  BY DEF SwapSafe, Concentrated!ActiveAfter

\* What a mint takes, below, within or above the position's prices.
LEMMA TakenIsNumber ==
    ASSUME NEW low \in Nat, NEW high \in Nat, NEW p \in Nat, NEW l \in Nat,
           NEW below \in BOOLEAN, NEW within \in BOOLEAN, low <= high,
           within => low <= p /\ p <= high
    PROVE  Concentrated!Taken(below, within, low, high, p, l) \in [Tokens -> Nat]
<1> SUFFICES ASSUME NEW t \in Tokens
             PROVE  Concentrated!Taken(below, within, low, high, p, l)[t] \in Nat
  BY DEF Concentrated!Taken, Tokens
<1>1. Concentrated!AmountFor(t, low, high, l) \in Nat
  BY AmountIsNumber
<1>2. within => /\ Concentrated!AmountFor(t, low, p, l) \in Nat
                /\ Concentrated!AmountFor(t, p, high, l) \in Nat
  BY AmountIsNumber
<1>3. Concentrated!Taken(below, within, low, high, p, l)[t] =
          CASE t = "A" /\ below -> Concentrated!AmountFor(t, low, high, l)
            [] t = "A" /\ within -> Concentrated!AmountFor(t, low, p, l)
            [] t = "B" /\ within -> Concentrated!AmountFor(t, p, high, l)
            [] t = "B" /\ ~below /\ ~within -> Concentrated!AmountFor(t, low, high, l)
            [] OTHER -> 0
  BY DEF Concentrated!Taken, Tokens
<1> QED BY <1>1, <1>2, <1>3

LEMMA SwapMint ==
    ASSUME SwapSafe, NEW a \in Addresses, NEW r \in TickRanges, NEW n \in SwapAmounts,
           Concentrated!Mint(a, r, [t \in Tokens |-> n])
    PROVE  SwapSafe'
<1> DEFINE desired == [t \in Tokens |-> n]
           low == TickPrices[r[1]]
           high == TickPrices[r[2]]
           p == store.price
           l == CASE p < low -> Concentrated!LiquidityFor("A", low, high, desired["A"])
                  [] p >= high -> Concentrated!LiquidityFor("B", low, high, desired["B"])
                  [] OTHER -> Concentrated!Least(
                                  Concentrated!LiquidityFor("A", low, p, desired["A"]),
                                  Concentrated!LiquidityFor("B", p, high, desired["B"]))
           paid == Concentrated!Taken(p < low, low <= p /\ p < high, low, high, p, l)
<1>1. /\ low \in Nat \ {0} /\ high \in Nat \ {0} /\ low <= high
      /\ p \in Nat \ {0} /\ n \in Nat
  BY SwapAssumption DEF SwapSafe, Concentrated!Mint, Concentrated!Call
<1>2. desired["A"] = n /\ desired["B"] = n
  BY DEF Tokens, Concentrated!Pair
<1>3. /\ DOMAIN store' = SwapFields
      /\ l > 0
      /\ store'.ticks = Concentrated!UpdatedTicks(r, l)
      /\ store'.liquidity = Concentrated!ActiveAfter(r, l)
      /\ store'.position = [store.position EXCEPT ![a] =
             [store.position[a] EXCEPT ![r] = [store.position[a][r] EXCEPT !.liquidity = @ + l]]]
      /\ store'.initialized = store.initialized /\ store'.tick = store.tick
      /\ store'.price = store.price /\ store'.growth = store.growth
      /\ store'.referrer = store.referrer /\ store'.rate = store.rate
      /\ store'.volume = store.volume /\ store'.change = store.change
      /\ store'.lastPrice = store.lastPrice
      /\ held' = [t \in Tokens |-> held[t] + paid[t]]
  BY DEF Concentrated!Mint, SwapSafe, SwapFields, Tokens
<1>4. l \in Int
  <2>1. "A" \in Tokens /\ "B" \in Tokens
    BY DEF Tokens, Concentrated!Pair
  <2>2. /\ Concentrated!LiquidityFor("A", low, high, n) \in Int
        /\ Concentrated!LiquidityFor("B", low, high, n) \in Int
        /\ Concentrated!LiquidityFor("A", low, p, n) \in Int
        /\ Concentrated!LiquidityFor("B", p, high, n) \in Int
    BY <1>1, <2>1, LiquidityIsInteger
  <2> QED BY <1>2, <2>2 DEF Concentrated!Least
<1> HIDE DEF l
<1>5. paid \in [Tokens -> Nat]
  <2>1. l \in Nat
    BY <1>3, <1>4
  <2>2. /\ (p < low) \in BOOLEAN /\ (low <= p /\ p < high) \in BOOLEAN
        /\ (low <= p /\ p < high) => (low <= p /\ p <= high)
    BY <1>1
  <2> QED BY <1>1, <2>1, <2>2, TakenIsNumber
<1> HIDE DEF paid
<1>6. held' \in [Tokens -> Nat]
  BY <1>3, <1>5 DEF SwapSafe
<1>7. [store.position[a][r] EXCEPT !.liquidity = @ + l] \in SwapPosition
  <2>1. store.position[a][r] \in SwapPosition
    BY DEF SwapSafe
  <2> QED BY <1>3, <1>4, <2>1 DEF SwapPosition
<1>8. store'.position \in [Addresses -> [TickRanges -> SwapPosition]]
  BY <1>3, <1>7, PositionBecomes
<1>9. store'.ticks \in [Concentrated!Ticks -> SwapTicks] /\ store'.liquidity \in Int
  BY <1>3, <1>4, TicksUpdated, ActiveIsInteger
<1>10. DOMAIN store' = SwapFields
  BY <1>3
<1> QED BY <1>3, <1>6, <1>8, <1>9, <1>10 DEF SwapSafe, Concentrated!Ticks

LEMMA SwapBurn ==
    ASSUME SwapSafe, NEW a \in Addresses, NEW r \in TickRanges,
           NEW n \in 1 .. store.position[a][r].liquidity, Concentrated!Burn(a, r, n)
    PROVE  SwapSafe'
<1>1. store.position[a][r] \in SwapPosition
  BY DEF SwapSafe
<1>2. PICK k \in Nat : k = store.position[a][r].liquidity /\ n \in Nat /\ n <= k
  BY <1>1 DEF SwapPosition
<1>3. PICK q : q = IF n = k THEN Concentrated!NoPosition
                   ELSE [store.position[a][r] EXCEPT !.liquidity = @ - n]
  OBVIOUS
<1>4. /\ DOMAIN store' = SwapFields
      /\ store'.ticks = Concentrated!UpdatedTicks(r, -n)
      /\ store'.liquidity = Concentrated!ActiveAfter(r, -n)
      /\ store'.position = [store.position EXCEPT ![a] =
             [store.position[a] EXCEPT ![r] = q]]
      /\ store'.initialized = store.initialized /\ store'.tick = store.tick
      /\ store'.price = store.price /\ store'.growth = store.growth
      /\ store'.referrer = store.referrer /\ store'.rate = store.rate
      /\ store'.volume = store.volume /\ store'.change = store.change
      /\ store'.lastPrice = store.lastPrice /\ held' = held
  BY <1>2, <1>3 DEF Concentrated!Burn, SwapSafe, SwapFields
<1>5. q \in SwapPosition
  <2>1. Concentrated!NoPosition \in SwapPosition
    BY DEF SwapPosition, Concentrated!NoPosition, Tokens
  <2>2. n <= k => [store.position[a][r] EXCEPT !.liquidity = @ - n] \in SwapPosition
    BY <1>1, <1>2 DEF SwapPosition
  <2> QED BY <1>2, <1>3, <2>1, <2>2
<1>6. store'.position \in [Addresses -> [TickRanges -> SwapPosition]]
  BY <1>4, <1>5, PositionBecomes
<1>7. store'.ticks \in [Concentrated!Ticks -> SwapTicks] /\ store'.liquidity \in Int
  <2>1. -n \in Int
    BY <1>2
  <2> QED BY <1>4, <2>1, TicksUpdated, ActiveIsInteger
<1> QED BY <1>4, <1>6, <1>7 DEF SwapSafe, Concentrated!Ticks

LEMMA SwapCollect ==
    ASSUME SwapSafe, NEW a \in Addresses, NEW r \in TickRanges,
           Concentrated!Collect(a, r, [t \in Tokens |-> SwapHeld])
    PROVE  SwapSafe'
<1> DEFINE position == store.position[a][r]
           owed == [t \in Tokens |-> position.owed[t] +
                      ((store.growth[t] - position.last[t]) * position.liquidity)
                          \div GrowthPrecision]
           paid == [t \in Tokens |-> Concentrated!Least([u \in Tokens |-> SwapHeld][t], owed[t])]
           q == [position EXCEPT !.owed = [t \in Tokens |-> position.owed[t] - paid[t]],
                                 !.last = store.growth]
<1>1. position \in SwapPosition
  BY DEF SwapSafe
<1>2. /\ DOMAIN store' = SwapFields
      /\ \A t \in Tokens : Concentrated!Greatest(paid[t], 0) <= held[t]
      /\ held' = [t \in Tokens |-> held[t] - Concentrated!Greatest(paid[t], 0)]
      /\ store'.position = [store.position EXCEPT ![a] = [store.position[a] EXCEPT ![r] = q]]
      /\ store'.ticks = store.ticks /\ store'.liquidity = store.liquidity
      /\ store'.initialized = store.initialized /\ store'.tick = store.tick
      /\ store'.price = store.price /\ store'.growth = store.growth
      /\ store'.referrer = store.referrer /\ store'.rate = store.rate
      /\ store'.volume = store.volume /\ store'.change = store.change
      /\ store'.lastPrice = store.lastPrice
  BY DEF Concentrated!Collect, SwapSafe, SwapFields, Tokens
<1>3. \A t \in Tokens : paid[t] \in Int
  <2> TAKE t \in Tokens
  <2>1. PICK g \in Nat, s \in Nat, l \in Nat, o \in Int :
            /\ g = store.growth[t] /\ s = position.last[t] /\ l = position.liquidity
            /\ o = position.owed[t]
    BY <1>1 DEF SwapSafe, SwapPosition
  <2>2. PICK m \in Int : m = (g - s) * l
    OBVIOUS
  <2>3. m \div GrowthPrecision \in Int
    BY SwapAssumption
  <2>4. owed[t] \in Int
    BY <2>1, <2>2, <2>3
  <2>5. SwapHeld \in Int
    BY SwapAssumption
  <2> HIDE DEF owed
  <2> QED BY <2>4, <2>5 DEF Concentrated!Least
<1> HIDE DEF paid
<1>4. held' \in [Tokens -> Nat]
  <2> SUFFICES ASSUME NEW t \in Tokens PROVE held'[t] \in Nat
    BY <1>2
  <2>1. PICK h \in Nat, x \in Int : h = held[t] /\ x = paid[t]
    BY <1>3 DEF SwapSafe
  <2>2. Concentrated!Greatest(x, 0) \in Nat /\ Concentrated!Greatest(x, 0) <= h
    BY <1>2, <2>1 DEF Concentrated!Greatest
  <2> QED BY <1>2, <2>1, <2>2
<1>5. q \in SwapPosition
  <2>1. [t \in Tokens |-> position.owed[t] - paid[t]] \in [Tokens -> Int]
    BY <1>1, <1>3 DEF SwapPosition
  <2> QED BY <1>1, <2>1 DEF SwapPosition, SwapSafe
<1> HIDE DEF q
<1>6. store'.position \in [Addresses -> [TickRanges -> SwapPosition]]
  BY <1>2, <1>5, PositionBecomes
<1> QED BY <1>2, <1>4, <1>6 DEF SwapSafe, Concentrated!Ticks

LEMMA SwapMoved ==
    ASSUME SwapSafe, NEW a \in Addresses, NEW t \in Tokens, NEW n \in SwapAmounts,
           NEW limit \in PriceLimits, Concentrated!Swap(a, t, n, limit, 0)
    PROVE  /\ DOMAIN store' = SwapFields /\ store.initialized /\ store.liquidity > 0
           /\ t = "A" => limit < store.price /\ limit > 0
           /\ t # "A" => limit > store.price
           /\ Out(t, n, limit) <= held[Concentrated!Other(t)]
           /\ held' = [held EXCEPT ![t] = @ + Gross(t, n, limit),
                                   ![Concentrated!Other(t)] = @ - Out(t, n, limit)]
           /\ store'.tick \in {store.tick - 1, store.tick + 1}
           /\ store'.growth = [store.growth EXCEPT ![t] = @ +
                 ((Gross(t, n, limit) - Used(t, n, limit)) * GrowthPrecision)
                     \div store.liquidity]
           /\ store'.volume \in {Gross(t, n, limit), store.volume + Gross(t, n, limit)}
           /\ store'.change \in
                 {0, store.change + Concentrated!Abs(Reached(t, n, limit) - store.lastPrice)}
           /\ store'.initialized = store.initialized /\ store'.liquidity = store.liquidity
           /\ store'.ticks = store.ticks /\ store'.position = store.position
           /\ store'.referrer = store.referrer /\ store'.rate = store.rate
<1> DEFINE q == Reached(t, n, limit)
           used == Used(t, n, limit)
           gross == Gross(t, n, limit)
           out == Out(t, n, limit)
           fee == gross - used
<1>1. /\ store.initialized /\ store.liquidity > 0
      /\ IF t = "A" THEN limit < store.price /\ limit > 0 ELSE limit > store.price
      /\ out <= held[Concentrated!Other(t)]
      /\ held' = [held EXCEPT ![t] = @ + gross, ![Concentrated!Other(t)] = @ - out]
      /\ store' = [store EXCEPT
              !.price = q,
              !.tick = IF t = "A" THEN @ - 1 ELSE @ + 1,
              !.growth[t] = @ + (fee * GrowthPrecision) \div store.liquidity,
              !.start = IF Concentrated!WindowOver THEN now ELSE @,
              !.volume = IF Concentrated!WindowOver THEN gross ELSE @ + gross,
              !.change = IF Concentrated!WindowOver THEN 0
                         ELSE @ + Concentrated!Abs(q - store.lastPrice),
              !.lastPrice = q]
  BY DEF Concentrated!Swap, Net, Reached, Used, Gross, Out
<1> HIDE DEF q, used, gross, out, fee
<1>2. DOMAIN store = SwapFields
  BY DEF SwapSafe
<1>3. /\ DOMAIN store' = SwapFields
      /\ store'.initialized = store.initialized /\ store'.liquidity = store.liquidity
      /\ store'.ticks = store.ticks /\ store'.position = store.position
      /\ store'.referrer = store.referrer /\ store'.rate = store.rate
  BY <1>1, <1>2 DEF SwapFields
<1>4. store'.tick \in {store.tick - 1, store.tick + 1}
  BY <1>1, <1>2 DEF SwapFields
<1>5. store'.growth = [store.growth EXCEPT ![t] = @ + (fee * GrowthPrecision)
                                                         \div store.liquidity]
  BY <1>1, <1>2 DEF SwapFields
<1>6. store'.volume \in {gross, store.volume + gross}
  BY <1>1, <1>2 DEF SwapFields
<1>7. store'.change \in {0, store.change + Concentrated!Abs(q - store.lastPrice)}
  BY <1>1, <1>2 DEF SwapFields
<1> QED BY <1>1, <1>3, <1>4, <1>5, <1>6, <1>7 DEF q, used, gross, out, fee

LEMMA SwapPriceMoved ==
    ASSUME SwapSafe, NEW a \in Addresses, NEW t \in Tokens, NEW n \in SwapAmounts,
           NEW limit \in PriceLimits, Concentrated!Swap(a, t, n, limit, 0)
    PROVE  store'.price = Reached(t, n, limit) /\ store'.lastPrice = Reached(t, n, limit)
<1> DEFINE q == Reached(t, n, limit)
<1>1. PICK rest : store' = [rest EXCEPT !.lastPrice = q] /\ DOMAIN rest = SwapFields
                  /\ rest.price = q
  <2>1. PICK less : store' = [less EXCEPT !.lastPrice = q] /\ less = [store EXCEPT
              !.price = q,
              !.tick = IF t = "A" THEN @ - 1 ELSE @ + 1,
              !.growth[t] = @ + ((Gross(t, n, limit) - Used(t, n, limit)) * GrowthPrecision)
                                    \div store.liquidity,
              !.start = IF Concentrated!WindowOver THEN now ELSE @,
              !.volume = IF Concentrated!WindowOver THEN Gross(t, n, limit)
                         ELSE @ + Gross(t, n, limit),
              !.change = IF Concentrated!WindowOver THEN 0
                         ELSE @ + Concentrated!Abs(q - store.lastPrice)]
    BY DEF Concentrated!Swap, Net, Reached, Used, Gross, Out
  <2> HIDE DEF q
  <2>2. DOMAIN less = SwapFields /\ less.price = q
    BY <2>1 DEF SwapSafe, SwapFields
  <2> QED BY <2>1, <2>2
<1> HIDE DEF q
<1>2. store'.price = q /\ store'.lastPrice = q
  BY <1>1 DEF SwapFields
<1> QED BY <1>2 DEF q

LEMMA TwoTokens ==
    /\ Tokens = {"A", "B"} /\ "A" # "B"
    /\ Concentrated!Other("A") = "B" /\ Concentrated!Other("B") = "A"
<1>1. \E u \in Concentrated!Pair : u # "A"
  BY DEF Concentrated!Pair
<1>2. \E u \in Concentrated!Pair : u # "B"
  BY DEF Concentrated!Pair
<1>3. Concentrated!Other("A") \in Concentrated!Pair /\ Concentrated!Other("A") # "A"
  BY <1>1 DEF Concentrated!Other
<1>4. Concentrated!Other("B") \in Concentrated!Pair /\ Concentrated!Other("B") # "B"
  BY <1>2 DEF Concentrated!Other
<1> QED BY <1>3, <1>4 DEF Tokens, Concentrated!Pair

LEMMA SwapSwap ==
    ASSUME SwapSafe, NEW a \in Addresses, NEW t \in Tokens, NEW n \in SwapAmounts,
           NEW limit \in PriceLimits, Concentrated!Swap(a, t, n, limit, 0)
    PROVE  SwapSafe' /\ Concentrated!CurveIsKeptStep
<1>a. /\ DOMAIN store' = SwapFields /\ store.initialized /\ store.liquidity > 0
      /\ store'.initialized = store.initialized /\ store'.liquidity = store.liquidity
      /\ store'.ticks = store.ticks /\ store'.position = store.position
      /\ store'.referrer = store.referrer /\ store'.rate = store.rate
  BY SwapMoved
<1>b. /\ store'.price = Reached(t, n, limit) /\ store'.lastPrice = Reached(t, n, limit)
  BY SwapPriceMoved
<1>c. /\ store'.tick \in {store.tick - 1, store.tick + 1}
      /\ store'.volume \in {Gross(t, n, limit), store.volume + Gross(t, n, limit)}
      /\ store'.change \in
            {0, store.change + Concentrated!Abs(Reached(t, n, limit) - store.lastPrice)}
  BY SwapMoved
<1>1. PICK p \in Nat, l \in Nat \ {0} : p = store.price /\ l = store.liquidity /\ p > 0
  <2>1. store.price \in Nat /\ store.liquidity \in Int /\ store.price > 0
    BY <1>a DEF SwapSafe
  <2>2. store.liquidity \in Nat \ {0}
    BY <1>a, <2>1
  <2> QED BY <2>1, <2>2
<1>2. n \in Nat /\ limit \in Nat
  BY SwapAssumption
<1>3. PICK q, used, gross, out, u : /\ q = Reached(t, n, limit) /\ used = Used(t, n, limit)
                                    /\ gross = Gross(t, n, limit) /\ out = Out(t, n, limit)
                                    /\ u = Concentrated!Other(t)
  OBVIOUS
<1>4. /\ q \in Nat /\ used \in Nat /\ out \in Nat /\ q > 0
      /\ t = "A" => MovesDown(gross, out, p, q) /\ u = "B"
      /\ t = "B" => MovesUp(gross, out, p, q) /\ u = "A"
  <2>1. CASE t = "A"
    <3>1. limit > 0 /\ limit < store.price /\ store.liquidity > 0
      BY <2>1, SwapMoved
    <3> QED BY <1>1, <1>2, <1>3, <2>1, <3>1, SwapDown, TwoTokens DEF MovesDown
  <2>2. CASE t = "B"
    <3>1. limit > store.price /\ store.price > 0 /\ store.liquidity > 0
      BY <1>1, <2>2, SwapMoved
    <3>2. q >= p
      BY <1>1, <1>2, <1>3, <2>2, <3>1, SwapUp DEF MovesUp
    <3>3. /\ q \in Nat /\ used \in Nat /\ out \in Nat /\ MovesUp(gross, out, p, q)
      BY <1>1, <1>2, <1>3, <2>2, <3>1, SwapUp
    <3>4. q > 0 /\ u = "A" /\ t # "A"
      BY <1>1, <1>3, <2>2, <3>2, <3>3, TwoTokens
    <3> QED BY <2>2, <3>3, <3>4
  <2> QED BY <2>1, <2>2, TwoTokens
<1>5. gross \in Nat /\ gross >= used
  BY <1>3, <1>4, GrossOfUsed
<1>6. /\ held'[t] = held[t] + gross /\ held'[u] = held[u] - out /\ out <= held[u]
      /\ held' \in [Tokens -> Nat] /\ held[t] \in Nat /\ held[u] \in Nat
  <2>1. held \in [Tokens -> Nat] /\ t \in Tokens /\ u \in Tokens /\ u # t
    BY <1>4, TwoTokens DEF SwapSafe
  <2>2. held' = [held EXCEPT ![t] = @ + gross, ![u] = @ - out] /\ out <= held[u]
    BY <1>3, SwapMoved
  <2>3. held'[t] = held[t] + gross /\ held'[u] = held[u] - out
    BY <2>1, <2>2
  <2>4. held[t] + gross \in Nat /\ held[u] - out \in Nat
    BY <1>4, <1>5, <2>1, <2>2
  <2>5. held' \in [Tokens -> Nat]
    BY <2>1, <2>2, <2>4
  <2> QED BY <2>1, <2>2, <2>3, <2>5
<1>7. store'.growth \in [Tokens -> Nat]
  <2>1. PICK m \in Nat : m = (gross - used) * GrowthPrecision
    <3>1. gross - used \in Nat /\ GrowthPrecision \in Nat
      BY <1>4, <1>5, SwapAssumption
    <3> QED BY <3>1
  <2>2. m \div l \in Nat
    OBVIOUS
  <2>3. store'.growth = [store.growth EXCEPT ![t] = @ + m \div l]
    BY <1>1, <1>3, <2>1, SwapMoved
  <2> QED BY <2>2, <2>3 DEF SwapSafe
<1>8. /\ store'.volume \in Nat /\ store'.change \in Nat
  <2>1. PICK v \in Nat, c \in Nat, last \in Nat :
            v = store.volume /\ c = store.change /\ last = store.lastPrice
    BY DEF SwapSafe
  <2>2. Concentrated!Abs(q - last) \in Nat
    BY <1>4 DEF Concentrated!Abs, Concentrated!Greatest
  <2>3. v + gross \in Nat /\ c + Concentrated!Abs(q - last) \in Nat
    BY <1>5, <2>2
  <2> QED BY <1>c, <1>3, <1>5, <2>1, <2>3
<1>9. SwapSafe'
  <2>1. store'.tick \in Int
    <3>1. store.tick \in Int
      BY DEF SwapSafe
    <3> QED BY <1>c, <3>1
  <2>2. store'.price = q /\ store'.lastPrice = q
    BY <1>b, <1>3
  <2>3. /\ DOMAIN store' = SwapFields
        /\ store'.initialized = store.initialized /\ store'.liquidity = store.liquidity
        /\ store'.ticks = store.ticks /\ store'.position = store.position
        /\ store'.referrer = store.referrer /\ store'.rate = store.rate
    BY <1>a
  <2> QED BY <1>4, <1>6, <1>7, <1>8, <2>1, <2>2, <2>3 DEF SwapSafe, Concentrated!Ticks
<1>10. Concentrated!CurveIsKeptStep
  <2>1. store'.price = q
    BY <1>b, <1>3
  <2>2. SUFFICES ASSUME p # q PROVE Concentrated!CurveIsKeptStep
    BY <1>1, <2>1 DEF Concentrated!CurveIsKeptStep
  <2>3. PICK rate \in Nat, unit \in Nat : rate = SwapFeeUnit - MinFee /\ unit = SwapFeeUnit
    BY SwapAssumption
  <2>4. PICK in \in Nat, given \in Nat : /\ in = gross /\ given = out
                                         /\ held'[t] - held[t] = in
                                         /\ held[u] - held'[u] = given
    BY <1>4, <1>5, <1>6
  <2>5. CASE t = "A"
    <3>1. MovesDown(gross, out, p, q) /\ u = "B" /\ q <= p
      BY <1>4, <2>5 DEF MovesDown
    <3>2. q < p /\ Concentrated!Abs(p - q) = p - q
      BY <1>4, <2>2, <3>1 DEF Concentrated!Abs, Concentrated!Greatest
    <3>3. PICK move \in Nat : move = l * (p - q)
      <4>1. p - q \in Nat
        BY <1>4, <3>2
      <4> QED BY <4>1
    <3>4. /\ in * rate * (p * q) >= move * Q96 * unit /\ given * Q96 <= move
      BY <1>1, <2>3, <2>4, <3>1, <3>3 DEF MovesDown
    <3>5. in * rate * p * q = in * rate * (p * q)
      BY <1>4
    <3>6. PICK big \in Nat, small \in Nat : big = given * Q96 /\ small = move
      BY SwapAssumption
    <3>7. ~(given * Q96 > move)
      BY <3>4, <3>6
    <3> QED BY <1>1, <2>1, <2>3, <2>4, <2>5, <3>1, <3>2, <3>3, <3>4, <3>5, <3>7, TwoTokens
         DEF Concentrated!CurveIsKeptStep
  <2>6. CASE t = "B"
    <3>1. MovesUp(gross, out, p, q) /\ u = "A" /\ q >= p
      BY <1>4, <2>6 DEF MovesUp
    <3>2. p < q /\ Concentrated!Abs(p - q) = q - p /\ ~(q < p)
      BY <1>4, <2>2, <3>1 DEF Concentrated!Abs, Concentrated!Greatest
    <3>3. PICK move \in Nat : move = l * (q - p)
      <4>1. q - p \in Nat
        BY <1>4, <3>2
      <4> QED BY <4>1
    <3>4. /\ in * rate * Q96 >= move * unit /\ given * (p * q) <= move * Q96
      BY <1>1, <2>3, <2>4, <3>1, <3>3 DEF MovesUp
    <3>5. PICK big \in Nat, small \in Nat :
              /\ big = given * (p * q) /\ small = move * Q96 /\ big = given * p * q
      <4>1. given * (p * q) \in Nat /\ given * (p * q) = given * p * q
        BY <1>4
      <4>2. move * Q96 \in Nat
        BY SwapAssumption
      <4> QED BY <4>1, <4>2
    <3>6. ~(given * p * q > move * Q96)
      BY <3>4, <3>5
    <3> QED BY <1>1, <2>1, <2>3, <2>4, <2>6, <3>1, <3>2, <3>3, <3>4, <3>6, TwoTokens
         DEF Concentrated!CurveIsKeptStep
  <2> QED BY <2>5, <2>6, TwoTokens
<1> QED BY <1>9, <1>10

\* initialize, the ticks, positions, swaps and referrals: the parts stay what they are,
\* and a move of the price is paid for along the curve.
LEMMA SwapStep == SwapSafe /\ Concentrated!Next => SwapSafe' /\ Concentrated!CurveIsKeptStep
<1> SUFFICES ASSUME SwapSafe, Concentrated!Next
             PROVE  SwapSafe' /\ Concentrated!CurveIsKeptStep
  OBVIOUS
<1>1. ASSUME store'.price = store.price \/ ~store.initialized
      PROVE  Concentrated!CurveIsKeptStep
  BY <1>1 DEF Concentrated!CurveIsKeptStep
<1>2. ASSUME NEW i \in Concentrated!Ticks, Concentrated!InitializeTick(i)
      PROVE  SwapSafe' /\ Concentrated!CurveIsKeptStep
  <2>1. store'.price = store.price
    BY <1>2 DEF Concentrated!InitializeTick, SwapSafe, SwapFields
  <2> QED BY <1>1, <1>2, <2>1, SwapTicksStep
<1>3. ASSUME NEW i \in Concentrated!Ticks, Concentrated!Initialize(i, TickPrices[i])
      PROVE  SwapSafe' /\ Concentrated!CurveIsKeptStep
  <2>1. ~store.initialized
    BY <1>3 DEF Concentrated!Initialize
  <2> QED BY <1>1, <1>3, <2>1, SwapTicksStep
<1>4. ASSUME NEW a \in Addresses, NEW r \in TickRanges, NEW n \in SwapAmounts,
             Concentrated!Mint(a, r, [t \in Tokens |-> n])
      PROVE  SwapSafe' /\ Concentrated!CurveIsKeptStep
  <2>1. store'.price = store.price
    BY <1>4 DEF Concentrated!Mint, SwapSafe, SwapFields
  <2> QED BY <1>1, <1>4, <2>1, SwapMint
<1>5. ASSUME NEW a \in Addresses, NEW r \in TickRanges,
             NEW n \in 1 .. store.position[a][r].liquidity, Concentrated!Burn(a, r, n)
      PROVE  SwapSafe' /\ Concentrated!CurveIsKeptStep
  <2>1. store'.price = store.price
    BY <1>5 DEF Concentrated!Burn, SwapSafe, SwapFields
  <2> QED BY <1>1, <1>5, <2>1, SwapBurn
<1>6. ASSUME NEW a \in Addresses, NEW r \in TickRanges,
             Concentrated!Collect(a, r, [t \in Tokens |-> SwapHeld])
      PROVE  SwapSafe' /\ Concentrated!CurveIsKeptStep
  <2>1. store'.price = store.price
    BY <1>6 DEF Concentrated!Collect, SwapSafe, SwapFields
  <2> QED BY <1>1, <1>6, <2>1, SwapCollect
<1>7. ASSUME \/ \E a \in Addresses, b \in Addresses : Concentrated!SetReferrer(a, b)
             \/ \E rate \in ReferralRates : Concentrated!SetReferralFeeRate(rate)
      PROVE  SwapSafe' /\ Concentrated!CurveIsKeptStep
  <2>1. store'.price = store.price
    BY <1>7 DEF Concentrated!SetReferrer, Concentrated!SetReferralFeeRate, SwapSafe, SwapFields
  <2> QED BY <1>1, <1>7, <2>1, SwapRateStep
<1>8. CASE Concentrated!TimePasses
  <2>1. store' = store /\ held' = held
    BY <1>8 DEF Concentrated!TimePasses
  <2> QED BY <1>1, <2>1 DEF SwapSafe
<1> QED BY <1>2, <1>3, <1>4, <1>5, <1>6, <1>7, <1>8, SwapSwap DEF Concentrated!Next, Tokens

LEMMA CurveKept == SwapSafe /\ [Concentrated!Next]_contractVars => Concentrated!CurveIsKeptStep
<1>1. ASSUME UNCHANGED contractVars PROVE Concentrated!CurveIsKeptStep
  BY <1>1 DEF contractVars, Concentrated!CurveIsKeptStep
<1> QED BY <1>1, SwapStep

------------------------------------------------------------------------------
(* The contracts together: each keeps what it owes its users by calls of its own. *)

LEMMA FairSteps ==
    [ContractsNext]_<<vars, contractVars>> =>
        /\ contract = "snapshot" => [Snapshot!Next]_contractVars
        /\ contract = "yield" => [Yield!Next]_contractVars
        /\ contract = "yield_farming" => [Farm!Next]_contractVars
        /\ contract = "staking" => [Staking!Next]_contractVars
        /\ contract = "revenue" => [Revenue!Next]_contractVars
        /\ contract = "swap" => [Concentrated!Next]_contractVars
        /\ contract = "amm" => [AMM!Next]_contractVars
        /\ contract = "random" => [Random!Next]_contractVars
        /\ contract = "medianizer" => [Medianizer!Next]_contractVars
        /\ contract = "consumer" => [Consumer!Next]_contractVars
  BY DEF ContractsNext, Step, contractVars

ContractsFair ==
    /\ contract = "vesting" => GrantsFair
    /\ contract = "snapshot" => SnapshotSafe
    /\ contract = "yield" => YieldSafe
    /\ contract = "yield_farming" => FarmSafe
    /\ contract = "staking" => StakingSafe
    /\ contract = "revenue" => RevenueSafe
    /\ contract = "governance" => CountSafe
    /\ contract = "token" => TokenAllowed
    /\ contract = "swap" => SwapSafe
    /\ contract = "random" => RandomSafe
    /\ contract = "medianizer" => MedianSafe
    /\ contract = "consumer" => FeedSafe

LEMMA DeployedFair == ContractsInit => ContractsFair
  BY GrantsStart, SnapshotInit, YieldInit, FarmInit, StakingInit, RevenueInit,
     CountStart, AllowedStart, SwapInit, RandomInit, MedianInit, FeedInit
  DEF ContractsInit, Start, ContractsFair

LEMMA GrantsIdle == GrantsFair /\ UNCHANGED contractVars => GrantsFair'
  BY DEF GrantsFair, GrantFair, Vesting!Vested, contractVars

LEMMA SnapshotIdle == SnapshotSafe /\ UNCHANGED contractVars => SnapshotSafe'
  BY DEF SnapshotSafe, CountedOf, Recorded, Snapshot!CurrentEpoch, contractVars

LEMMA YieldIdle == YieldSafe /\ UNCHANGED contractVars => YieldSafe'
  BY DEF YieldSafe, Yield!Stakes, contractVars

LEMMA FarmIdle == FarmSafe /\ UNCHANGED contractVars => FarmSafe'
  BY DEF FarmSafe, contractVars

LEMMA StakingIdle == StakingSafe /\ UNCHANGED contractVars => StakingSafe'
  BY DEF StakingSafe, contractVars

LEMMA RevenueIdle == RevenueSafe /\ UNCHANGED contractVars => RevenueSafe'
  BY DEF RevenueSafe, contractVars

LEMMA CountIdle == CountSafe /\ UNCHANGED contractVars => CountSafe'
  BY VotesStay DEF contractVars

LEMMA AllowedIdle == TokenAllowed /\ UNCHANGED contractVars => TokenAllowed'
  BY DEF TokenAllowed, contractVars

LEMMA StaysFair ==
    ContractsSafe /\ ContractsFair /\ [ContractsNext]_<<vars, contractVars>> => ContractsFair'
  BY OwnSteps, FairSteps, GrantsStep, SnapshotStep, YieldStep, FarmStep, StakingStep,
     RevenueStep, CountStep, AllowedStep, SwapStep, RandomStep, MedianStep, FeedStep,
     GrantsIdle, SnapshotIdle, YieldIdle, FarmIdle, StakingIdle, RevenueIdle, CountIdle,
     AllowedIdle, SwapIdle, RandomIdle, MedianIdle, FeedIdle
  DEF ContractsSafe, ContractsFair

LEMMA FairInvariance == ContractsSpec => []ContractsFair
  BY ContractsInvariance, DeployedFair, StaysFair, PTL DEF ContractsSpec

\* claim and revoke of the vesting contract, checkpoints and epochs of the snapshots,
\* deposits of rewards between stakes, the farm's decaying emission however the calls cut
\* it into periods, stakes that extend a lock and batches of distributions, in every order
\* and for all schedules, rates, tiers and amounts: nobody gets more than is the user's,
\* nothing before its time, and a pass that is over has left nobody out.
THEOREM Fair == ContractsSpec => []SharesAreFair
<1>1. ContractsSafe /\ ContractsFair => SharesAreFair
  BY GrantsAreFair, SharesOfEpoch, YieldPaid, EmissionAccounted, LocksAreServed, PassCompletes
  DEF ContractsSafe, ContractsFair, SharesAreFair
<1> QED BY ContractsInvariance, FairInvariance, <1>1, PTL

\* vote, allocate_credits and max_votes of governance, approve, permit, transfer_from and
\* purge of the token, and every way an NFT changes hands: for any number of voters,
\* proposals and credits, tallies are the votes on record, nobody's votes cost more than
\* the credits ever given, Newton's method finds the integer root of all credits; no
\* permit is honoured twice and no spender goes over the last approval; and an approval
\* does not outlive the ownership it was given by.
THEOREM Counted == ContractsSpec => []CountedOnce
<1>1. ContractsSafe /\ ContractsFair => CountedOnce
  BY CountIsOnce, AllowedIsSpent DEF ContractsSafe, ContractsFair, CountedOnce, NftSafe
<1> QED BY ContractsInvariance, FairInvariance, <1>1, PTL

\* add_liquidity, remove_liquidity and swap of the AMM, deposits, withdrawals and harvests
\* of the farm's vault and swaps of the concentrated pool, for all reserves, fees, prices,
\* limits and liquidity: every division is rounded for those who stay, so a share of the
\* pool or the vault is worth no less after a call, and a move of the concentrated pool's
\* price is paid for all along the curve.
THEOREM Kept == ContractsSpec => RoundingKeepsThePool
<1>1. ContractsSafe /\ ContractsFair /\ [ContractsNext]_<<vars, contractVars>> =>
          [/\ contract = "amm" => AMM!ShareValueNeverFallsStep
           /\ contract = "swap" => Concentrated!CurveIsKeptStep
           /\ contract = "yield_farming" => Farm!VaultShareNeverFallsStep]_contractVars
  BY FairSteps, PoolKeepsValue, CurveKept, VaultKeepsValue DEF ContractsSafe, ContractsFair
<1> QED BY ContractsInvariance, FairInvariance, <1>1, PTL
         DEF ContractsSpec, RoundingKeepsThePool

\* compute_random_seed, calculate_median and get_price, for any number of users, sources
\* and prices on record: nobody commits to a round once a secret of its seed is out; the
\* median is between any two bounds that more than half of the prices given keep to; and
\* the price a consumer reads is the average of the price in force in each second of the
\* window, however the oracles' answers fell in it and whatever was dropped.
THEOREM Unswayed == ContractsSpec => []BlindAndRobust
<1>1. ContractsSafe /\ ContractsFair => BlindAndRobust
  BY DrawsBlind, MediansRobust, TwapKept DEF ContractsFair, BlindAndRobust
<1> QED BY ContractsInvariance, FairInvariance, <1>1, PTL
==============================================================================
