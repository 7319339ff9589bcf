---------------------------- MODULE CircuitBreaker ----------------------------
(***************************************************************************)
(* The circuit breaker contract src/circuit_breaker/lib.rs: governance,    *)
(* bots, price moves and volume pause the protocol in tiers; it reopens    *)
(* after a time lock, or at once by the admin.  Time is in hours, amounts  *)
(* in millions and multipliers in whole multiples; of one asset's price it *)
(* is kept whether there is a reference; TripCount, which nothing reads,   *)
(* is left out.                                                            *)
(***************************************************************************)
EXTENDS Soroban, Sequences, FiniteSets, Functions

CONSTANTS
    Window,         \* WINDOW_DURATION_SECONDS
    Cooldown,       \* SPIKE_COOLDOWN_SECONDS
    Amounts,        \* the volumes that are recorded
    Thresholds,     \* the volume thresholds that are set
    Baselines,      \* the baselines that are set; 0 disables spikes
    Multipliers,    \* the spike multipliers that are set
    MaxBots,        \* MAX_BOTS
    MaxEntries      \* bound on the entries in the volume window

DefaultTimelock == 1
DefaultThreshold == 1
DefaultMultiplier == 3

Tiers == {"None", "SwapOnly", "WithdrawOnly", "All"}

\* history is when the unpause in preparation, if there is one, will have
\* waited out the time lock under which it was initiated.
TypeOK ==
    /\ store.admin \in Somebody
    /\ store.tier \in Tiers /\ store.pendingTier \in Tiers
    /\ store.isPaused \in BOOLEAN
    /\ store.bots \subseteq Addresses
    /\ {store.unlocksAt, store.timelock, store.cooldownUntil} \subseteq Nat
    /\ store.window \in Seq([at : Nat, amount : Nat])
    /\ now \in Nat /\ history \in Nat

Init ==
    /\ Deployed("breaker")
    /\ store = [admin |-> Nobody, tier |-> "None", isPaused |-> FALSE,
                unlocksAt |-> 0, pendingTier |-> "None", timelock |-> 0,
                bots |-> {}, referencePrice |-> FALSE,
                threshold |-> DefaultThreshold, window |-> <<>>, baseline |-> 0,
                multiplier |-> DefaultMultiplier, cooldownUntil |-> 0]
    /\ history = 0
    /\ held = 0

IsInCooldown == now < store.cooldownUntil

\* get_pause_tier: the effective tier
PauseTier == IF IsInCooldown THEN "All" ELSE store.tier

AdminCall == Call("breaker") /\ store.admin # Nobody

\* Volume may have been recorded and have tripped the breaker before: all of it is
\* reset.
Initialize(admin, timelock) ==
    /\ Call("breaker")
    /\ store.admin = Nobody
    /\ store' = [store EXCEPT !.admin = admin,
          !.timelock = IF timelock = 0 THEN DefaultTimelock ELSE timelock,
          !.tier = "None", !.isPaused = FALSE, !.unlocksAt = 0,
          !.threshold = DefaultThreshold, !.window = <<>>, !.bots = {}]
    /\ UNCHANGED <<held, history>>

AddBot(bot) ==
    /\ AdminCall
    /\ bot \notin store.bots /\ Cardinality(store.bots) < MaxBots
    /\ store' = [store EXCEPT !.bots = @ \cup {bot}]
    /\ UNCHANGED <<held, history>>

RemoveBot(bot) ==
    /\ AdminCall
    /\ bot \in store.bots
    /\ store' = [store EXCEPT !.bots = @ \ {bot}]
    /\ UNCHANGED <<held, history>>

------------------------------------------------------------------------------
(* Trips *)

\* apply_trip: the new tier replaces the present one, whichever is stricter,
\* and an unpause in preparation goes on.
Tripped(s, tier) == [s EXCEPT !.tier = tier, !.isPaused = TRUE]

Trip(caller, tier) ==
    /\ Call("breaker")
    /\ caller = store.admin \/ caller \in store.bots
    /\ tier # "None"
    /\ store' = Tripped(store, tier)
    /\ UNCHANGED <<held, history>>

\* oracle_trip and check_and_trip: the deviation is above the volatility limit
\* or it is not.
CheckPrice(volatile) ==
    LET s == [store EXCEPT !.referencePrice = TRUE] IN
    /\ AdminCall
    /\ volatile => store.referencePrice
    /\ store' = IF volatile THEN Tripped(s, "SwapOnly") ELSE s
    /\ UNCHANGED <<held, history>>

Volume(window) == FoldFunction(LAMBDA e, sum : sum + e.amount, 0, window)

\* check_volume_spike
CooledDown(s, total) ==
    IF s.baseline # 0 /\ total > s.baseline * s.multiplier
    THEN [s EXCEPT !.cooldownUntil = IF now + Cooldown > @ THEN now + Cooldown ELSE @]
    ELSE s

RecordVolume(amount) ==
    LET recent == SelectSeq(store.window, LAMBDA e : now - e.at < Window)
        window == Append(recent, [at |-> now, amount |-> amount])
        total == Volume(window)
        s == [store EXCEPT !.window = window]
    IN  /\ Call("breaker")
        /\ Len(recent) < MaxEntries
        /\ store' = CooledDown(IF total > s.threshold THEN Tripped(s, "All") ELSE s, total)
        /\ UNCHANGED <<held, history>>

------------------------------------------------------------------------------
(* Reopening *)

InitiateUnpause(target) ==
    /\ AdminCall
    /\ store.tier # "None"
    /\ store' = [store EXCEPT !.unlocksAt = now + store.timelock,
                              !.pendingTier = target]
    /\ history' = now + store.timelock
    /\ UNCHANGED held

ExecuteUnpause ==
    /\ Call("breaker")
    /\ store.unlocksAt > 0 /\ now >= store.unlocksAt
    /\ store' = [store EXCEPT !.tier = store.pendingTier,
                              !.isPaused = store.pendingTier # "None",
                              !.unlocksAt = 0]
    /\ history' = 0
    /\ UNCHANGED held

\* mutant: the unpause in preparation is left in place
Unpause_KeepsPending ==
    /\ AdminCall
    /\ store.tier # "None" \/ IsInCooldown
    /\ store' = [store EXCEPT !.tier = "None", !.isPaused = FALSE,
                              !.cooldownUntil = 0]
    /\ history' = 0
    /\ UNCHANGED held

Unpause ==
    /\ AdminCall
    /\ store.tier # "None" \/ IsInCooldown
    /\ store' = [store EXCEPT !.tier = "None", !.isPaused = FALSE,
                              !.cooldownUntil = 0, !.unlocksAt = 0]
    /\ history' = 0
    /\ UNCHANGED held

CancelUnpause ==
    /\ AdminCall
    /\ store.unlocksAt > 0
    /\ store' = [store EXCEPT !.unlocksAt = 0]
    /\ history' = 0
    /\ UNCHANGED held

------------------------------------------------------------------------------
(* Configuration *)

Set(field, value) ==
    /\ AdminCall
    /\ store' = [store EXCEPT ![field] = value]
    /\ UNCHANGED <<held, history>>

Configure ==
    \/ \E seconds \in 1..Delay : Set("timelock", seconds)
    \/ \E n \in Thresholds : Set("threshold", n)
    \/ \E n \in Baselines : Set("baseline", n)
    \/ \E n \in Multipliers : Set("multiplier", n)

Next ==
    \/ \E a \in Addresses : \/ \E s \in 0..Delay : Initialize(a, s)
                            \/ AddBot(a) \/ RemoveBot(a)
                            \/ \E tier \in Tiers : Trip(a, tier)
    \/ \E volatile \in BOOLEAN : CheckPrice(volatile)
    \/ \E n \in Amounts : RecordVolume(n)
    \/ \E tier \in Tiers : InitiateUnpause(tier)
    \/ ExecuteUnpause \/ Unpause \/ CancelUnpause \/ Configure
    \/ TimePasses

Spec == Init /\ [][Next]_vars

------------------------------------------------------------------------------
(* Properties *)

\* Short of the admin's emergency unpause, a paused protocol opens only when
\* an unpause that was neither cancelled nor superseded has waited out the time
\* lock that was in force when it was initiated.  That is so once the breaker has
\* an admin: initialize opens at once what volume recorded before it has paused.
ReopensInTimeStep ==
    store.admin # Nobody /\ store.tier # "None" /\ store'.tier = "None" =>
       Unpause \/ (history > 0 /\ now >= history)
ReopensInTime == [][ReopensInTimeStep]_vars

\* Nothing but time and the emergency unpause ends a cooldown: later volume
\* never shortens it, and an unpause in preparation does not reopen through it.
CooldownHoldsStep ==
    IsInCooldown /\ ~Unpause =>
       /\ store'.cooldownUntil >= store.cooldownUntil
       /\ now' < store.cooldownUntil => PauseTier' = "All"
CooldownHolds == [][CooldownHoldsStep]_vars

\* The cheap flag that integrators read agrees with the tier.
MirrorAgrees == store.isPaused = (store.tier # "None")
==============================================================================
