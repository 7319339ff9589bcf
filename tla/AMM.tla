---------------------------------- MODULE AMM ----------------------------------
(***************************************************************************)
(* The constant-product pool src/amm/lib.rs: deposits mint shares, swaps   *)
(* pay a fee to the pool, withdrawals burn shares.  Its tokens may take a  *)
(* fee of their own on every transfer.  held is by token.                  *)
(***************************************************************************)
EXTENDS Soroban, FiniteSetsExt

CONSTANTS
    MinimumLiquidity,       \* shares that the first deposit leaves to nobody
    FeeNumerator,           \* 997, and
    FeeDenominator,         \* 1000, in the code
    TransferFees            \* what the tokens may take of a transfer

Pair == {"A", "B"}
Other(t) == CHOOSE u \in Pair : u # t

\* tax is what both tokens keep of a transfer.
TypeOK ==
    /\ store.admin \in Somebody /\ store.paused \in BOOLEAN
    /\ store.tax \in TransferFees
    /\ store.reserve \in [Pair -> Nat]
    /\ store.totalShares \in Nat /\ store.shares \in [Addresses -> Nat]
    /\ held \in [Pair -> Nat]

Init ==
    /\ Deployed("amm")
    /\ \E tax \in TransferFees :
          store = [admin |-> Nobody, paused |-> FALSE, tax |-> tax,
                   reserve |-> [t \in Pair |-> 0], totalShares |-> 0,
                   shares |-> [a \in Addresses |-> 0]]
    /\ held = [t \in Pair |-> 0]
    /\ history = 0

Initialize(admin) ==
    /\ Call("amm")
    /\ store.admin = Nobody
    /\ store' = [store EXCEPT !.admin = admin]
    /\ UNCHANGED <<held, history>>

SetPaused(paused) ==
    /\ Call("amm")
    /\ store.admin # Nobody /\ store.paused # paused
    /\ store' = [store EXCEPT !.paused = paused]
    /\ UNCHANGED <<held, history>>

Running == Call("amm") /\ store.admin # Nobody /\ ~store.paused

\* The greatest s with s * s <= y.  The code finds it by Newton's iteration.
Sqrt(y) == CHOOSE s \in 0 .. y : s * s <= y /\ (s + 1) * (s + 1) > y

Least(a, b) == IF a < b THEN a ELSE b

\* The shares that a deposit mints.
Minted(received) ==
    IF store.totalShares = 0 THEN Sqrt(received["A"] * received["B"]) - MinimumLiquidity
    ELSE LET Part(t) == (received[t] * store.totalShares) \div store.reserve[t]
         IN  Least(Part("A"), Part("B"))

Deposit(from, amount) ==
    LET received == [t \in Pair |-> amount[t] - store.tax]
        before == IF store.totalShares = 0 THEN MinimumLiquidity ELSE store.totalShares
    IN  /\ Running
        /\ \A t \in Pair : received[t] > 0 /\ store.reserve[t] + amount[t] <= MaxAmount
        /\ Minted(received) > 0
        /\ store' = [store EXCEPT !.reserve = [t \in Pair |-> @[t] + received[t]],
                                  !.totalShares = before + Minted(received),
                                  !.shares[from] = @ + Minted(received)]
        /\ held' = [t \in Pair |-> held[t] + received[t]]
        /\ UNCHANGED history

AmountOut(tokenIn, amountIn) ==
    LET in == amountIn * FeeNumerator IN
    (in * store.reserve[Other(tokenIn)]) \div (store.reserve[tokenIn] * FeeDenominator + in)

\* The reserve grows by what was sent, whatever arrived of it.
Swap(tokenIn, amountIn, minAmountOut) ==
    LET out == AmountOut(tokenIn, amountIn)
        tokenOut == Other(tokenIn)
    IN  /\ Running
        /\ store.totalShares > 0
        /\ out >= minAmountOut
        /\ store.reserve[tokenIn] + amountIn <= MaxAmount
        /\ out <= held[tokenOut]
        /\ store' = [store EXCEPT !.reserve[tokenIn] = @ + amountIn,
                                  !.reserve[tokenOut] = @ - out]
        /\ held' = [held EXCEPT ![tokenIn] = @ + amountIn - store.tax, ![tokenOut] = @ - out]
        /\ UNCHANGED history

Withdraw(from, shares) ==
    LET out == [t \in Pair |-> (shares * store.reserve[t]) \div store.totalShares] IN
    /\ Running
    /\ shares > 0 /\ shares <= store.shares[from]
    /\ \A t \in Pair : out[t] <= held[t]
    /\ store' = [store EXCEPT !.reserve = [t \in Pair |-> @[t] - out[t]],
                              !.totalShares = @ - shares, !.shares[from] = @ - shares]
    /\ held' = [t \in Pair |-> held[t] - out[t]]
    /\ UNCHANGED history

Next ==
    \/ \E a \in Addresses :
          \/ Initialize(a)
          \/ \E x, y \in 1 .. MaxAmount : Deposit(a, [t \in Pair |-> IF t = "A" THEN x ELSE y])
          \/ \E shares \in 1 .. MaxAmount : Withdraw(a, shares)
    \/ \E t \in Pair, amount \in 1 .. MaxAmount : Swap(t, amount, 0)
    \/ \E paused \in BOOLEAN : SetPaused(paused)

Spec == Init /\ [][Next]_vars

------------------------------------------------------------------------------
(* Properties *)

\* The shares are those of the users and the ones that nobody has, so that the
\* pool can never be emptied.
SharesAddUp ==
    store.totalShares > 0 =>
        /\ store.totalShares = MinimumLiquidity
                                 + MapThenSumSet(LAMBDA a : store.shares[a], Addresses)
        /\ \A t \in Pair : store.reserve[t] > 0

\* What a share is worth, the geometric mean of the reserves over the shares, never
\* falls: rounding and the fee are always for the benefit of the pool.
Product(s) == s.reserve["A"] * s.reserve["B"]
ShareValueNeverFallsStep ==
    store.totalShares > 0 =>
       Product(store') * store.totalShares * store.totalShares
           >= Product(store) * store'.totalShares * store'.totalShares
ShareValueNeverFalls == [][ShareValueNeverFallsStep]_vars

\* The pool holds what it accounts for, whatever is deposited, swapped and withdrawn, as
\* long as its tokens take no fee of a transfer.
ReservesAreHeld == store.tax = 0 => \A t \in Pair : store.reserve[t] <= held[t]

------------------------------------------------------------------------------
(* What a comment says and the code does not do *)

\* "Measure each transfer so fee-on-transfer tokens cannot inflate reserves"
\* (lib.rs:124): deposits do, swaps book what was sent.
ReservesAreNotInflated == \A t \in Pair : store.reserve[t] <= held[t]
==============================================================================
