--------------------------- MODULE OracleConsumer ---------------------------
(***************************************************************************)
(* The contract src/oracle_consumer/lib.rs for one asset: it takes prices  *)
(* from a primary oracle, or from a secondary one when the primary's is    *)
(* stale, and answers with averages over time.  A call in which an oracle  *)
(* traps or answers nonsense fails as a whole and has no action.  The      *)
(* clock counts both the seconds and the ledgers of the contract.          *)
(***************************************************************************)
EXTENDS Soroban, Sequences, Functions

CONSTANTS
    Prices,             \* what an oracle can answer
    DefaultWindow,      \* DEFAULT_TWAP_WINDOW_SECONDS
    DefaultStaleness,   \* DEFAULT_MAX_STALENESS_SECONDS
    MaxObservations,    \* DEFAULT_MAX_OBSERVATIONS, which nothing changes
    Windows,            \* what the setters are called with
    RecordedPrices      \* what record_price is called with

PriceData == [price : Prices, timestamp : Nat]
NoRecord == [price |-> 0, timestamp |-> 0]

\* record: the PriceRecord; prices: the PriceHistory.
TypeOK ==
    /\ store.admin \in Somebody /\ store.secondary \in BOOLEAN
    /\ store.record \in PriceData \cup {NoRecord}
    /\ store.prices \in Seq(PriceData) /\ Len(store.prices) <= MaxObservations
    /\ store.observations \in Seq([ledger : Nat, price : RecordedPrices])
    /\ Len(store.observations) <= MaxObservations
    /\ store.window \in Nat /\ store.maxStaleness \in Nat
    /\ history \in BOOLEAN

\* history: whether each price taken so far was dated no earlier than those before.
Init ==
    /\ Deployed("consumer")
    /\ store = [admin |-> Nobody, secondary |-> FALSE, record |-> NoRecord,
                prices |-> <<>>, observations |-> <<>>,
                window |-> DefaultWindow, maxStaleness |-> DefaultStaleness]
    /\ held = 0
    /\ history = TRUE

Initialize(admin) ==
    /\ Call("consumer")
    /\ store.admin = Nobody
    /\ store' = [store EXCEPT !.admin = admin]
    /\ UNCHANGED <<held, history>>

\* A setter that the admin must authorise.
Set(changed) ==
    /\ Call("consumer")
    /\ store.admin # Nobody
    /\ store' = changed
    /\ UNCHANGED <<held, history>>

SetSecondaryOracle == Set([store EXCEPT !.secondary = TRUE])
SetTwapWindow(window) == Set([store EXCEPT !.window = window])
SetMaxStaleness(age) == Set([store EXCEPT !.maxStaleness = age])

\* A date in the future is fresh.
NotStale(timestamp, age) == now - timestamp <= age

\* Both lists keep their last MaxObservations elements.
Kept(list) == SubSeq(list, IF Len(list) > MaxObservations THEN 2 ELSE 1, Len(list))
StoreObservation(answer) ==
    store' = [store EXCEPT !.record = answer, !.prices = Kept(Append(@, answer))]

UpdatePrice(primary, secondary) ==
    LET fallsBack == ~NotStale(primary.timestamp, store.maxStaleness)
        answer == IF fallsBack THEN secondary ELSE primary IN
    /\ Call("consumer")
    /\ store.admin # Nobody
    /\ fallsBack => /\ store.secondary
                    /\ NotStale(secondary.timestamp, store.maxStaleness)
    /\ StoreObservation(answer)
    /\ history' = (history /\ answer.timestamp >= store.record.timestamp)
    /\ UNCHANGED held

\* Anybody may record any price, before the contract is initialised, too.
RecordPrice(price) ==
    /\ Call("consumer")
    /\ store' = [store EXCEPT !.observations =
                    Kept(Append(@, [ledger |-> now, price |-> price]))]
    /\ UNCHANGED <<held, history>>

\* The average over the last lookback seconds: every price counts from its date, or from
\* the start of the window, to the date of the next one.
WindowStart(lookback) == IF now > lookback THEN now - lookback ELSE 0
Covered(lookback) ==
    \E i \in DOMAIN store.prices : store.prices[i].timestamp <= WindowStart(lookback)
Weight(i, lookback) ==
    LET next == IF i < Len(store.prices) THEN store.prices[i + 1].timestamp ELSE now
        end == IF next < now THEN next ELSE now
        begin == IF store.prices[i].timestamp > WindowStart(lookback)
                 THEN store.prices[i].timestamp ELSE WindowStart(lookback) IN
    IF end > begin THEN end - begin ELSE 0
GetTwapPrice(lookback) ==
    FoldFunction(+, 0, [i \in DOMAIN store.prices |->
        store.prices[i].price * Weight(i, lookback)]) \div lookback

\* What get_price and get_twap_price answer with, rather than fail.
Answers(lookback, age) ==
    /\ store.prices # <<>>
    /\ NotStale(store.record.timestamp, age)
    /\ Covered(lookback)
GetPrice == GetTwapPrice(store.window)

Next ==
    \/ \E a \in Addresses : Initialize(a)
    \/ SetSecondaryOracle
    \/ \E n \in Windows : SetTwapWindow(n) \/ SetMaxStaleness(n)
    \/ \E p, s \in [price : Prices, timestamp : 0 .. now] : UpdatePrice(p, s)
    \/ \E p \in RecordedPrices : RecordPrice(p)
    \/ TimePasses

Spec == Init /\ [][Next]_vars

------------------------------------------------------------------------------
(* Properties *)

\* The price in force at a moment: the last of those dated no later.
InForce(t) ==
    LET i == CHOOSE i \in DOMAIN store.prices :
                /\ store.prices[i].timestamp <= t
                /\ \A j \in DOMAIN store.prices :
                      store.prices[j].timestamp <= t => j <= i
    IN store.prices[i].price

\* While the oracles' dates do not go back, the price consumers read is the average of
\* the price in force in each second of the window, rounded down, and history that was
\* dropped is not taken for covered: a price that has only just arrived counts nothing.
TwapIsAverage ==
    history /\ Answers(store.window, store.maxStaleness) /\ store.window <= now =>
        GetPrice = FoldFunction(+, 0, [t \in now - store.window .. now - 1 |-> InForce(t)])
                       \div store.window
==============================================================================
