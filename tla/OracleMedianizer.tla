--------------------------- MODULE OracleMedianizer ---------------------------
(***************************************************************************)
(* The price oracle src/oracle_medianizer/lib.rs, for one asset: sources   *)
(* submit prices, and whoever asks for the median of a list of sources may *)
(* bring the published price up to date.  The time of a submission, which  *)
(* nothing reads, is left out.                                             *)
(***************************************************************************)
EXTENDS Soroban, Sequences, FiniteSets

CONSTANTS
    Prices,
    MinSources,
    Heartbeats,     \* the heartbeats that are set
    Thresholds      \* the deviations that are set, in percent

NoPrice == 0
Unset == -1

TypeOK ==
    /\ store.admin \in Somebody
    /\ store.sources \subseteq Addresses /\ store.count \in Nat
    /\ store.heartbeat \in Nat \cup {Unset} /\ store.threshold \in Nat \cup {Unset}
    /\ store.price \in [Addresses -> Nat]
    /\ store.median \in Nat /\ store.lastUpdate \in Nat
    /\ history \in Seq(Nat)

\* history is the prices that the published one was computed from.
Init ==
    /\ Deployed("medianizer")
    /\ store = [admin |-> Nobody, sources |-> {}, count |-> 0, heartbeat |-> Unset,
                threshold |-> Unset, price |-> [a \in Addresses |-> NoPrice],
                median |-> NoPrice, lastUpdate |-> 0]
    /\ held = 0
    /\ history = <<>>

Initialized == store.admin # Nobody

Initialize(admin) ==
    /\ Call("medianizer")
    /\ ~Initialized
    /\ store' = [store EXCEPT !.admin = admin]
    /\ UNCHANGED <<held, history>>

AddOracleSource(oracle) ==
    /\ Call("medianizer")
    /\ Initialized /\ oracle \notin store.sources
    /\ store' = [store EXCEPT !.sources = @ \cup {oracle}, !.count = @ + 1]
    /\ UNCHANGED <<held, history>>

\* The last price of the source stays; removing a source twice counts twice.
RemoveOracleSource(oracle) ==
    /\ Call("medianizer")
    /\ Initialized
    /\ store' = [store EXCEPT !.sources = @ \ {oracle}, !.count = IF @ > 0 THEN @ - 1 ELSE @]
    /\ UNCHANGED <<held, history>>

\* set_heartbeat and set_deviation_threshold
Set(field, value) ==
    /\ Call("medianizer")
    /\ Initialized
    /\ store' = [store EXCEPT ![field] = value]
    /\ UNCHANGED <<held, history>>

SubmitPrice(oracle, price) ==
    /\ Call("medianizer")
    /\ oracle \in store.sources
    /\ store' = [store EXCEPT !.price[oracle] = price]
    /\ UNCHANGED <<held, history>>

\* What the sources of the list have submitted.
PricesOf(list) ==
    LET collected[i \in 0 .. Len(list)] ==
            IF i = 0 THEN <<>>
            ELSE IF store.price[list[i]] = NoPrice THEN collected[i - 1]
            ELSE Append(collected[i - 1], store.price[list[i]])
    IN  collected[Len(list)]

\* sort_prices: fewer than i prices are lower than the i-th, and i are no higher.
HasRank(prices, i, p) ==
    /\ Cardinality({j \in DOMAIN prices : prices[j] < p}) < i
    /\ Cardinality({j \in DOMAIN prices : prices[j] <= p}) >= i
Sorted(prices) ==
    [i \in 1 .. Len(prices) |-> CHOOSE p \in Prices : HasRank(prices, i, p)]

\* From five prices on, the lowest and the highest are dropped.
Median(prices) ==
    LET sorted == Sorted(prices)
        kept == IF Len(sorted) >= 5 THEN SubSeq(sorted, 2, Len(sorted) - 1) ELSE sorted
        n == Len(kept)
    IN  IF n % 2 = 0 THEN (kept[n \div 2] + kept[n \div 2 + 1]) \div 2
        ELSE kept[n \div 2 + 1]

ShouldUpdate(median) ==
    LET deviation == IF median > store.median THEN median - store.median
                     ELSE store.median - median
    IN  \/ store.heartbeat # Unset /\ now > store.lastUpdate + store.heartbeat
        \/ store.threshold # Unset /\ store.median > 0
               /\ (deviation * 100) \div store.median >= store.threshold
        \/ store.median = NoPrice

\* The list is the caller's: it may name a source twice, or one that was removed.
CalculateMedian(list) ==
    LET prices == PricesOf(list)
        median == Median(prices)
    IN  /\ Call("medianizer")
        /\ Initialized
        /\ Len(prices) >= MinSources /\ prices # <<>>
        /\ ShouldUpdate(median)
        /\ store' = [store EXCEPT !.median = median, !.lastUpdate = now]
        /\ history' = prices
        /\ UNCHANGED held

Next ==
    \/ \E a \in Addresses :
          \/ Initialize(a) \/ AddOracleSource(a) \/ RemoveOracleSource(a)
          \/ \E p \in Prices : SubmitPrice(a, p)
    \/ \E n \in Heartbeats : Set("heartbeat", n)
    \/ \E n \in Thresholds : Set("threshold", n)
    \/ \E a, b, c \in Addresses :
          \E list \in {<<a, b>>, <<a, b, c>>, <<a, a, b, b, c>>} : CalculateMedian(list)
    \/ TimePasses

Spec == Init /\ [][Next]_vars

------------------------------------------------------------------------------
(* Properties *)

\* A minority of the listed prices cannot move the published one out of the range
\* of the others, however far off they are: where more than half of the prices lie,
\* there lies the median.
MedianIsRobust ==
    \A low, high \in Prices :
        LET within == {i \in DOMAIN history : low <= history[i] /\ history[i] <= high} IN
        2 * Cardinality(within) > Len(history) => low <= store.median /\ store.median <= high
==============================================================================
