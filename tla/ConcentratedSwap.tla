--------------------------- MODULE ConcentratedSwap ---------------------------
(***************************************************************************)
(* The concentrated-liquidity pool contracts/swap/src/lib.rs.  A position  *)
(* has its liquidity between two ticks, a swap moves the square root of    *)
(* the price within the liquidity at the current tick, and its fee grows   *)
(* with the volume and the volatility of the window.  Prices are fixed     *)
(* point numbers with Q96 as the one; HalfQ is the 2^48 the code shifts    *)
(* by.  held is by token.                                                  *)
(***************************************************************************)
EXTENDS Soroban

CONSTANTS
    Q96, HalfQ,
    Ranges,             \* the pairs of ticks that positions are made for
    PriceAt,            \* tick_to_sqrt_price_x96, on the ticks in use
    Amounts,            \* what is brought in at once
    Limits,             \* the price limits that swaps are made with
    MinFee, MaxFee, FeeDenominator,
    Window,             \* WINDOW_SIZE
    VolumeThreshold, VolatilityThreshold,
    ReferralRates,      \* out of FeeDenominator, which is 10000 here as well
    Precision,          \* of the fee growth
    MaxVolume,          \* bound on the volume
    MaxGross            \* bound on the liquidity minted and burnt at a tick

Pair == {"A", "B"}
Other(t) == CHOOSE u \in Pair : u # t
Ticks == DOMAIN PriceAt
NoTick == [gross |-> -1, net |-> 0]
NoPosition == [liquidity |-> 0, last |-> [t \in Pair |-> 0], owed |-> [t \in Pair |-> 0]]

Least(a, b) == IF a < b THEN a ELSE b
Greatest(a, b) == IF a < b THEN b ELSE a
Abs(n) == Greatest(n, -n)
RoundUp(n, d) == (n + d - 1) \div d

TypeOK ==
    /\ store.initialized \in BOOLEAN
    /\ store.tick \in Int /\ store.price \in Nat /\ store.liquidity \in Int
    /\ store.growth \in [Pair -> Nat]
    /\ store.ticks \in [Ticks -> [gross : Nat \cup {-1}, net : Int]]
    /\ \A a \in Addresses, r \in Ranges :
          /\ store.position[a][r].liquidity \in Nat
          /\ store.position[a][r].owed \in [Pair -> Int]
    /\ store.referrer \in [Addresses -> Somebody] /\ store.rate \in Nat
    /\ held \in [Pair -> Nat]

Init ==
    /\ Deployed("swap")
    /\ store = [initialized |-> FALSE, tick |-> 0, price |-> 0, liquidity |-> 0,
                growth |-> [t \in Pair |-> 0],
                ticks |-> [i \in Ticks |-> NoTick],
                position |-> [a \in Addresses |-> [r \in Ranges |-> NoPosition]],
                referrer |-> [a \in Addresses |-> Nobody], rate |-> 1,
                start |-> 0, volume |-> 0, change |-> 0, lastPrice |-> 0]
    /\ held = [t \in Pair |-> 0]
    /\ history = 0

Initialize(tick, price) ==
    /\ Call("swap")
    /\ ~store.initialized
    /\ store' = [store EXCEPT !.initialized = TRUE, !.tick = tick, !.price = price,
                              !.start = now, !.lastPrice = price]
    /\ UNCHANGED <<held, history>>

InitializeTick(tick) ==
    /\ Call("swap")
    /\ store.ticks[tick] = NoTick
    /\ store' = [store EXCEPT !.ticks[tick] = [gross |-> 0, net |-> 0]]
    /\ UNCHANGED <<held, history>>

------------------------------------------------------------------------------
(* Positions *)

\* get_liquidity_for_amount0 and 1, get_amount0_for_liquidity and 1, from a up to b.
LiquidityFor(t, a, b, amount) ==
    IF t = "B" THEN (amount * Q96) \div b
    ELSE IF a = 0 \/ amount <= 0 \/ a = b THEN 0
    ELSE (amount * (a \div HalfQ) * (b \div HalfQ))
             \div Greatest(((b - a) \div HalfQ) * HalfQ, 1)
AmountFor(t, a, b, liquidity) ==
    IF liquidity <= 0 THEN 0
    ELSE IF t = "B" THEN (liquidity * (b - a)) \div Q96
    ELSE (liquidity * (b - a)) \div Greatest((a \div HalfQ) * (b \div HalfQ), 1)

\* What a position takes of each token when the price p is below, within or
\* above its prices.
Taken(below, within, low, high, p, liquidity) ==
    [t \in Pair |->
        CASE t = "A" /\ below -> AmountFor(t, low, high, liquidity)
          [] t = "A" /\ within -> AmountFor(t, low, p, liquidity)
          [] t = "B" /\ within -> AmountFor(t, p, high, liquidity)
          [] t = "B" /\ ~below /\ ~within -> AmountFor(t, low, high, liquidity)
          [] OTHER -> 0]

\* The ticks after delta at both ends: gross only grows, a burn included.
UpdatedTicks(range, delta) ==
    [i \in Ticks |->
        LET old == IF store.ticks[i] = NoTick THEN [gross |-> 0, net |-> 0] ELSE store.ticks[i]
            new == [gross |-> old.gross + Abs(delta),
                    net |-> old.net + (IF i = range[1] THEN delta ELSE -delta)]
        IN  IF i \notin {range[1], range[2]} THEN store.ticks[i]
            ELSE IF new.gross = 0 THEN NoTick ELSE new]

\* The bound on what is minted and burnt at a tick.
Bounded(range, delta) ==
    \A i \in {range[1], range[2]} : store.ticks[i].gross + Abs(delta) <= MaxGross

ActiveAfter(range, delta) ==
    IF range[1] <= store.tick /\ store.tick < range[2] THEN store.liquidity + delta
    ELSE store.liquidity

Mint(recipient, range, desired) ==
    LET low == PriceAt[range[1]]
        high == PriceAt[range[2]]
        p == store.price
        liquidity == CASE p < low -> LiquidityFor("A", low, high, desired["A"])
                       [] p >= high -> LiquidityFor("B", low, high, desired["B"])
                       [] OTHER -> Least(LiquidityFor("A", low, p, desired["A"]),
                                         LiquidityFor("B", p, high, desired["B"]))
        paid == Taken(p < low, low <= p /\ p < high, low, high, p, liquidity)
    IN  /\ Call("swap")
        /\ store.initialized
        /\ liquidity > 0
        /\ \A t \in Pair : held[t] + paid[t] <= MaxAmount
        /\ Bounded(range, liquidity)
        /\ held' = [t \in Pair |-> held[t] + paid[t]]
        /\ store' = [store EXCEPT !.position[recipient][range].liquidity = @ + liquidity,
                                  !.ticks = UpdatedTicks(range, liquidity),
                                  !.liquidity = ActiveAfter(range, liquidity)]
        /\ UNCHANGED history

\* burn: nothing is paid or put down as owed.
Burn(owner, range, amount) ==
    LET position == store.position[owner][range]
        rest == IF amount = position.liquidity THEN NoPosition
                ELSE [position EXCEPT !.liquidity = @ - amount]
    IN  /\ Call("swap")
        /\ position # NoPosition
        /\ amount <= position.liquidity
        /\ Bounded(range, amount)
        /\ store' = [store EXCEPT !.position[owner][range] = rest,
                                  !.ticks = UpdatedTicks(range, -amount),
                                  !.liquidity = ActiveAfter(range, -amount)]
        /\ UNCHANGED <<held, history>>

\* A position that is new has seen no growth at all.
Collect(recipient, range, requested) ==
    LET position == store.position[recipient][range]
        owed == [t \in Pair |-> position.owed[t] +
                    ((store.growth[t] - position.last[t]) * position.liquidity) \div Precision]
        paid == [t \in Pair |-> Least(requested[t], owed[t])]
    IN  /\ Call("swap")
        /\ position # NoPosition
        /\ \A t \in Pair : Greatest(paid[t], 0) <= held[t]
        /\ held' = [t \in Pair |-> held[t] - Greatest(paid[t], 0)]
        /\ store' = [store EXCEPT !.position[recipient][range] =
                        [position EXCEPT !.owed = [t \in Pair |-> position.owed[t] - paid[t]],
                                         !.last = store.growth]]
        /\ UNCHANGED history

------------------------------------------------------------------------------
(* Swaps *)

WindowOver == now >= store.start + Window

\* calculate_dynamic_fee
Fee ==
    LET factor == (store.volume * 100) \div VolumeThreshold
                    + (store.change * 100) \div VolatilityThreshold
    IN  IF WindowOver THEN MinFee
        ELSE MinFee + ((MaxFee - MinFee) * Least(factor, 100)) \div 100

\* compute_swap_step_values: the price, what is paid out and what is paid in when
\* amount moves the price p towards the limit.
InputDelta(t, p, q, liquidity) ==
    IF t = "A" THEN RoundUp(liquidity * Abs(p - q) * Q96, p * q)
    ELSE RoundUp(liquidity * Abs(p - q), Q96)
OutputDelta(t, p, q, liquidity) ==
    IF t = "A" THEN (liquidity * Abs(p - q)) \div Q96
    ELSE (liquidity * Abs(p - q) * Q96) \div (p * q)

\* mutant: the price is rounded for the benefit of who swaps
NextPrice_RoundsDown(t, p, limit, liquidity, amount) ==
    IF amount >= InputDelta(t, p, limit, liquidity) THEN limit
    ELSE IF t = "A"
         THEN Greatest((liquidity * Q96 * p) \div (liquidity * Q96 + amount * p), limit)
         ELSE Least(p + (amount * Q96) \div liquidity, limit)

NextPrice(t, p, limit, liquidity, amount) ==
    IF amount >= InputDelta(t, p, limit, liquidity) THEN limit
    ELSE IF t = "A"
         THEN Greatest(RoundUp(liquidity * Q96 * p, liquidity * Q96 + amount * p), limit)
         ELSE Least(p + (amount * Q96) \div liquidity, limit)

\* The fee is on the token that comes in; the referrer gets a part of it, in the
\* other token, out of what the swap pays.
Swap(recipient, t, amount, limit, minimum) ==
    LET p == store.price
        liquidity == store.liquidity
        less == (amount * (FeeDenominator - Fee)) \div FeeDenominator
        q == NextPrice(t, p, limit, liquidity, less)
        out == OutputDelta(t, p, q, liquidity)
        used == Least(less, InputDelta(t, p, limit, liquidity))
        gross == RoundUp(used * FeeDenominator, FeeDenominator - Fee)
        fee == gross - used
        referral == IF store.referrer[recipient] = Nobody THEN 0
                    ELSE (fee * store.rate) \div FeeDenominator
    IN  /\ Call("swap")
        /\ store.initialized
        /\ IF t = "A" THEN limit < p /\ limit > 0 ELSE limit > p
        /\ liquidity > 0 /\ less > 0
        /\ out > 0 /\ out >= minimum /\ out <= held[Other(t)]
        /\ referral <= out
        /\ held[t] + gross <= MaxAmount /\ store.volume + gross <= MaxVolume
        /\ held' = [held EXCEPT ![t] = @ + gross, ![Other(t)] = @ - out]
        /\ store' = [store EXCEPT
              !.price = q,
              !.tick = IF t = "A" THEN @ - 1 ELSE @ + 1,
              !.growth[t] = @ + (fee * Precision) \div liquidity,
              !.start = IF WindowOver THEN now ELSE @,
              !.volume = IF WindowOver THEN gross ELSE @ + gross,
              !.change = IF WindowOver THEN 0 ELSE @ + Abs(q - store.lastPrice),
              !.lastPrice = q]
        /\ UNCHANGED history

SetReferrer(user, referrer) ==
    /\ Call("swap")
    /\ store.referrer[user] = Nobody /\ referrer # user
    /\ store' = [store EXCEPT !.referrer[user] = referrer]
    /\ UNCHANGED <<held, history>>

SetReferralFeeRate(rate) ==
    /\ Call("swap")
    /\ store' = [store EXCEPT !.rate = rate]
    /\ UNCHANGED <<held, history>>

Next ==
    \/ \E i \in Ticks : InitializeTick(i) \/ Initialize(i, PriceAt[i])
    \/ \E a \in Addresses :
          \/ \E r \in Ranges :
                \/ \E n \in Amounts : Mint(a, r, [t \in Pair |-> n])
                \/ \E n \in 1 .. store.position[a][r].liquidity : Burn(a, r, n)
                \/ Collect(a, r, [t \in Pair |-> MaxAmount])
          \/ \E t \in Pair, amount \in Amounts, limit \in Limits :
                Swap(a, t, amount, limit, 0)
          \/ \E b \in Addresses : SetReferrer(a, b)
    \/ \E rate \in ReferralRates : SetReferralFeeRate(rate)
    \/ TimePasses

Spec == Init /\ [][Next]_vars

------------------------------------------------------------------------------
(* Properties *)

\* Rounding and the fee are always for the benefit of the pool: when the price
\* moves, what has come in pays, after the fee, for the whole move along the
\* curve, and what goes out is no more than the move is worth.
CurveIsKeptStep ==
    LET p == store.price
        q == store'.price
        in == IF q < p THEN "A" ELSE "B"
        paid == (held'[in] - held[in]) * (FeeDenominator - MinFee)
        given == held[Other(in)] - held'[Other(in)]
        move == store.liquidity * Abs(p - q)
        Covers(t, amount, unit) == IF t = "A" THEN amount * p * q >= move * Q96 * unit
                                   ELSE amount * Q96 >= move * unit
        Exceeds(t, amount) == IF t = "A" THEN amount * p * q > move * Q96
                              ELSE amount * Q96 > move
    IN  store.initialized /\ p # q =>
            Covers(in, paid, FeeDenominator) /\ ~Exceeds(Other(in), given)
CurveIsKept == [][CurveIsKeptStep]_vars
==============================================================================
