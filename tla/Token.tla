--------------------------------- MODULE Token ---------------------------------
(***************************************************************************)
(* The token contract src/token/lib.rs, for one token id: balances,        *)
(* allowances that lapse, operators, and permits, which the owner signs    *)
(* and anyone may submit.  The clock is the ledger's sequence; the         *)
(* checkpoints that only get_past_balance reads are left out.              *)
(***************************************************************************)
EXTENDS Soroban, FiniteSetsExt

CONSTANTS MaxApprovals      \* bound: the approvals, permits and operators given

Ledgers == 0 .. MaxTime
NoAllowance == [amount |-> 0, expiration |-> 0]

\* A permit: what the owner signs.
Permits == [owner : Addresses, spender : Addresses, amount : {1},
            nonce : {0, 1}, deadline : {0}, expiration : {1}]

\* history: how many approvals were given, how often each permit was honoured,
\* and what of the last approval each spender has left.
TypeOK ==
    /\ store.admin \in Somebody /\ store.supply \in Nat
    /\ store.balance \in [Addresses -> Nat]
    /\ store.allowance \in [Addresses \X Addresses -> [amount : Nat, expiration : Ledgers]]
    /\ store.operators \subseteq Addresses \X Addresses
    /\ store.nonce \in [Addresses \X Addresses -> Nat]
    /\ history.given \in Nat /\ history.left \in [Addresses \X Addresses -> Int]

Init ==
    /\ Deployed("token")
    /\ store = [admin |-> Nobody, supply |-> 0, balance |-> [a \in Addresses |-> 0],
                allowance |-> [p \in Addresses \X Addresses |-> NoAllowance],
                operators |-> {}, nonce |-> [p \in Addresses \X Addresses |-> 0]]
    /\ history = [given |-> 0, honoured |-> {}, twice |-> FALSE,
                  left |-> [p \in Addresses \X Addresses |-> 0]]
    /\ held = 0

Initialize(admin) ==
    /\ Call("token")
    /\ store.admin = Nobody
    /\ store' = [store EXCEPT !.admin = admin]
    /\ UNCHANGED <<held, history>>

Mint(to, amount) ==
    /\ Call("token")
    /\ store.admin # Nobody
    /\ store.supply + amount <= MaxAmount
    /\ store' = [store EXCEPT !.balance[to] = @ + amount, !.supply = @ + amount]
    /\ UNCHANGED <<held, history>>

Burn(from, amount) ==
    /\ Call("token")
    /\ store.balance[from] >= amount
    /\ store' = [store EXCEPT !.balance[from] = @ - amount, !.supply = @ - amount]
    /\ UNCHANGED <<held, history>>

\* mutant: both balances are read before either is written
Moved_ReadFirst(s, from, to, amount) ==
    [s EXCEPT !.balance = [[s.balance EXCEPT ![from] = @ - amount] EXCEPT ![to] = s.balance[to] + amount]]

\* do_transfer; the receiver's balance is read after the sender's is written
Moved(s, from, to, amount) ==
    [s EXCEPT !.balance = [[s.balance EXCEPT ![from] = @ - amount] EXCEPT ![to] = @ + amount]]

Transfer(from, to, amount) ==
    /\ Call("token")
    /\ store.balance[from] >= amount
    /\ store' = Moved(store, from, to, amount)
    /\ UNCHANGED <<held, history>>

\* batch_transfer of one id twice: each is checked after the one before it
BatchTransfer(from, to, first, second) ==
    LET s == Moved(store, from, to, first) IN
    /\ Call("token")
    /\ store.balance[from] >= first
    /\ s.balance[from] >= second
    /\ store' = Moved(s, from, to, second)
    /\ UNCHANGED <<held, history>>

Given(pair, amount) == [history EXCEPT !.given = @ + 1, !.left[pair] = amount]

Approve(owner, spender, amount, expiration) ==
    LET pair == <<owner, spender>> IN
    /\ Call("token")
    /\ history.given < MaxApprovals
    /\ amount > 0 => expiration >= now
    /\ store' = [store EXCEPT !.allowance[pair] =
                    IF amount = 0 THEN NoAllowance
                    ELSE [amount |-> amount, expiration |-> expiration]]
    /\ history' = Given(pair, amount)
    /\ UNCHANGED held

SetApprovalForAll(owner, operator, approved) ==
    /\ Call("token")
    /\ approved => history.given < MaxApprovals
    /\ approved # (<<owner, operator>> \in store.operators)
    /\ store' = [store EXCEPT !.operators = IF approved THEN @ \cup {<<owner, operator>>}
                                            ELSE @ \ {<<owner, operator>>}]
    /\ history' = [history EXCEPT !.given = IF approved THEN @ + 1 ELSE @]
    /\ UNCHANGED held

\* mutant: the nonce is compared but not counted up
Permit_KeepsNonce(p) ==
    LET pair == <<p.owner, p.spender>> IN
    /\ Call("token")
    /\ history.given < MaxApprovals
    /\ now <= p.deadline /\ p.expiration >= now
    /\ p.nonce = store.nonce[pair]
    /\ store' = [store EXCEPT
                    !.allowance[pair] = [amount |-> p.amount, expiration |-> p.expiration]]
    /\ history' = [Given(pair, p.amount) EXCEPT !.honoured = @ \cup {p},
                                                !.twice = @ \/ p \in history.honoured]
    /\ UNCHANGED held

Permit(p) ==
    LET pair == <<p.owner, p.spender>> IN
    /\ Call("token")
    /\ history.given < MaxApprovals
    /\ now <= p.deadline /\ p.expiration >= now
    /\ p.nonce = store.nonce[pair]
    /\ store' = [store EXCEPT
                    !.allowance[pair] = [amount |-> p.amount, expiration |-> p.expiration],
                    !.nonce[pair] = @ + 1]
    /\ history' = [Given(pair, p.amount) EXCEPT !.honoured = @ \cup {p},
                                                !.twice = @ \/ p \in history.honoured]
    /\ UNCHANGED held

\* live_allowance
Allowance(pair) ==
    IF now <= store.allowance[pair].expiration THEN store.allowance[pair].amount ELSE 0

TransferFrom(spender, from, to, amount) ==
    LET pair == <<from, spender>>
        remaining == Allowance(pair) - amount
        s == IF pair \in store.operators THEN store
             ELSE [store EXCEPT !.allowance[pair] =
                      IF remaining = 0 THEN NoAllowance ELSE [@ EXCEPT !.amount = remaining]]
    IN  /\ Call("token")
        /\ pair \in store.operators \/ remaining >= 0
        /\ store.balance[from] >= amount
        /\ store' = Moved(s, from, to, amount)
        /\ history' = IF pair \in store.operators THEN history
                      ELSE [history EXCEPT !.left[pair] = @ - amount]
        /\ UNCHANGED held

PurgeExpiredAllowance(pair) ==
    /\ Call("token")
    /\ store.allowance[pair].amount > 0
    /\ now > store.allowance[pair].expiration
    /\ store' = [store EXCEPT !.allowance[pair] = NoAllowance]
    /\ UNCHANGED <<held, history>>

Next ==
    \/ \E a \in Addresses : Initialize(a)
    \/ \E a \in Addresses : Mint(a, 1) \/ Burn(a, 1)
    \/ \E a, b \in Addresses :
          \/ Transfer(a, b, 1)
          \/ BatchTransfer(a, b, 1, 1)
          \/ \E amount \in {0, 2}, e \in {0, 1} : Approve(a, b, amount, e)
          \/ \E approved \in BOOLEAN : SetApprovalForAll(a, b, approved)
          \/ \E c \in Addresses : TransferFrom(a, b, c, 1)
          \/ PurgeExpiredAllowance(<<a, b>>)
    \/ \E p \in Permits : Permit(p)
    \/ TimePasses

Spec == Init /\ [][Next]_vars

------------------------------------------------------------------------------
(* Properties *)

\* Tokens come and go only by mint and burn: the supply is what everyone holds,
\* also after a transfer to oneself.
SupplyIsHeld == store.supply = MapThenSumSet(LAMBDA a : store.balance[a], Addresses)

\* A spender who is no operator never moves more than what the owner last allowed,
\* whichever of approve, permit, lapse and purge came in between, and a permit that
\* is submitted again is not honoured again.
SpentWithinApproval ==
    /\ ~history.twice
    /\ \A p \in Addresses \X Addresses :
          store.allowance[p].amount <= history.left[p] /\ history.left[p] >= 0
==============================================================================
