------------------------- MODULE RevenueDistributor -------------------------
(***************************************************************************)
(* The contract contracts/revenue_distributor/src/lib.rs: fees that are    *)
(* deposited are split between the governance stakers and the treasury,    *)
(* one token at a time or in batches that a cursor connects, and tokens    *)
(* can be swept into another one through an AMM.  held: its tokens.        *)
(***************************************************************************)
EXTENDS Soroban, Sequences, Functions

CONSTANTS
    Tokens,
    Whole,          \* MAX_BPS
    MaxPerBatch     \* MAX_TOKENS_PER_BATCH

TypeOK ==
    /\ store.admin \in Somebody
    /\ store.govShare \in 0 .. Whole
    /\ Range(store.payoutTokens) \subseteq Tokens
    /\ store.cursor \in 0 .. Len(store.payoutTokens)
    /\ store.cap \in Nat /\ store.totalDeposits \in Nat
    /\ store.operators \subseteq Addresses
    /\ held \in [Tokens -> Nat]

\* history is about the calls that follow one another's cursor from index 0 on: the
\* index that the last one returned, and the tokens registered when the first was made
\* of which nothing has been paid out since.
NoPass == [next |-> 0, left |-> {}]

Init ==
    /\ Deployed("revenue")
    /\ store = [admin |-> Nobody, govShare |-> 0, payoutTokens |-> <<>>, cursor |-> 0,
                cap |-> 0, totalDeposits |-> 0, operators |-> {}]
    /\ held = [t \in Tokens |-> 0]
    /\ history = NoPass

Initialize(admin, share) ==
    /\ Call("revenue")
    /\ store.admin = Nobody
    /\ share <= Whole
    /\ store' = [store EXCEPT !.admin = admin, !.govShare = share]
    /\ UNCHANGED <<held, history>>

\* A call that the admin must authorise.
RequireAdmin ==
    /\ Call("revenue")
    /\ store.admin # Nobody
    /\ UNCHANGED <<held, history>>

SetShares(share) ==
    /\ RequireAdmin
    /\ share <= Whole
    /\ store' = [store EXCEPT !.govShare = share]

RegisterPayoutToken(t) ==
    /\ RequireAdmin
    /\ t \notin Range(store.payoutTokens)
    /\ store' = [store EXCEPT !.payoutTokens = Append(@, t)]

\* A cap of 0 is none; total deposits are counted from the first, cap or not.
SetMaxDepositCap(cap) ==
    /\ RequireAdmin
    /\ store' = [store EXCEPT !.cap = cap]

AddSweepOperator(a) ==
    /\ RequireAdmin
    /\ store' = [store EXCEPT !.operators = @ \cup {a}]

RemoveSweepOperator(a) ==
    /\ RequireAdmin
    /\ store' = [store EXCEPT !.operators = @ \ {a}]

\* Deposits are possible before the contract is initialised.
Deposit(t, amount) ==
    /\ Call("revenue")
    /\ store.totalDeposits + amount <= MaxAmount
    /\ store.cap > 0 => store.totalDeposits + amount <= store.cap
    /\ store' = [store EXCEPT !.totalDeposits = @ + amount]
    /\ held' = [held EXCEPT ![t] = @ + amount]
    /\ UNCHANGED history

\* What is rounded off the stakers' part is the treasury's, so that everything goes.
GovAmount(t) == (held[t] * store.govShare) \div Whole
TreasuryAmount(t) == held[t] - GovAmount(t)
DistributeTokens(tokens) ==
    /\ store.admin # Nobody
    /\ held' = [t \in Tokens |->
                   IF t \in tokens THEN held[t] - GovAmount(t) - TreasuryAmount(t)
                   ELSE held[t]]

Distribute(t) ==
    /\ Call("revenue")
    /\ DistributeTokens({t})
    /\ history' = [history EXCEPT !.left = @ \ {t}]
    /\ UNCHANGED store

\* start is an index from 0 on; the tokens of the batch are those at start+1 to end.
DistributeBatch(start, maxTokens) ==
    LET n == Len(store.payoutTokens)
        limit == IF maxTokens \in 1 .. MaxPerBatch THEN maxTokens ELSE MaxPerBatch
        end == IF start + limit < n THEN start + limit ELSE n
        batch == {store.payoutTokens[i] : i \in start + 1 .. end}
        next == IF start + limit >= n THEN 0 ELSE start + limit
        pass == IF start = 0 THEN [next |-> 0, left |-> Range(store.payoutTokens)]
                ELSE history IN
    /\ Call("revenue")
    /\ n > 0
    /\ IF batch = {} THEN UNCHANGED held ELSE DistributeTokens(batch)
    /\ store' = [store EXCEPT !.cursor = next]
    /\ history' = [next |-> IF start = pass.next THEN next ELSE pass.next,
                   left |-> pass.left \ batch]

\* By the admin or an operator.  The AMM takes all of a and pays some of b, and the
\* treasury gets every b the contract holds, the revenue in b that nobody has split yet
\* included.
SweepAmm(caller, a, b) ==
    /\ Call("revenue")
    /\ store.admin # Nobody
    /\ caller \in store.operators \cup {store.admin}
    /\ held[a] > 0
    /\ held' = [held EXCEPT ![a] = 0, ![b] = 0]
    /\ UNCHANGED <<store, history>>

Next ==
    \/ \E a \in Addresses :
          \/ \E share \in {0, 1} : Initialize(a, share)
          \/ AddSweepOperator(a) \/ RemoveSweepOperator(a)
          \/ \E t, u \in Tokens : t # u /\ SweepAmm(a, t, u)
    \/ \E share \in {1, Whole, Whole + 1} : SetShares(share)
    \/ \E cap \in {0, 1} : SetMaxDepositCap(cap)
    \/ \E t \in Tokens : RegisterPayoutToken(t) \/ Deposit(t, 1) \/ Distribute(t)
    \/ \E start, limit \in 0 .. 3 : DistributeBatch(start, limit)

Spec == Init /\ [][Next]_vars

------------------------------------------------------------------------------
(* Properties *)

\* Whoever follows the cursor from index 0 until it is 0 again has paid out every token
\* that was registered at the start, whatever others distribute, register or sweep
\* in between.
PassIsComplete == history.next = 0 => history.left = {}
==============================================================================
