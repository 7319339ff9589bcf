------------------------------ MODULE XLMWrapper ------------------------------
(***************************************************************************)
(* The wrapped XLM contract contracts/xlm_wrapper/src/lib.rs: a deposit of *)
(* native XLM mints tokens, a withdrawal burns them and releases the XLM.  *)
(* held is by account: the native XLM of everyone, this contract included. *)
(* The lists of authorised modules, which no call reads, are left out.     *)
(***************************************************************************)
EXTENDS Soroban, FiniteSetsExt

CONSTANTS
    Self,           \* the contract's own address
    Native,         \* the native XLM that each user has at first
    BaseEntries,    \* MIN_ACCOUNT_ENTRIES, one unit of reserve for each
    Caps,           \* the supply caps that are set; 0 removes the cap
    MaxApprovals    \* bound: the approvals given

\* history is how many approvals were given.
TypeOK ==
    /\ store.admin \in Somebody /\ store.paused \in BOOLEAN
    /\ store.supply \in Nat /\ store.cap \in Nat
    /\ store.balance \in [Addresses -> Nat]
    /\ store.allowance \in [Addresses \X Addresses -> Nat]
    /\ store.operators \subseteq Addresses \X Addresses
    /\ store.trustlines \subseteq Addresses
    /\ held \in [Addresses \cup {Self} -> Nat]

Init ==
    /\ Deployed("xlm_wrapper")
    /\ store = [admin |-> Nobody, paused |-> FALSE, supply |-> 0, cap |-> 0,
                balance |-> [a \in Addresses |-> 0],
                allowance |-> [p \in Addresses \X Addresses |-> 0],
                operators |-> {}, trustlines |-> {}]
    /\ held = [a \in Addresses \cup {Self} |-> IF a = Self THEN 0 ELSE Native]
    /\ history = 0

Initialized == store.admin # Nobody

Initialize(admin) ==
    /\ Call("xlm_wrapper")
    /\ ~Initialized
    /\ store' = [store EXCEPT !.admin = admin]
    /\ UNCHANGED <<held, history>>

\* get_min_reserve, with one trustline or none
MinReserve(a) == BaseEntries + IF a \in store.trustlines THEN 1 ELSE 0

Deposit(from, amount) ==
    /\ Call("xlm_wrapper")
    /\ Initialized /\ ~store.paused
    /\ amount <= held[from] - MinReserve(from)
    /\ store.cap # 0 => store.supply + amount <= store.cap
    /\ held' = [held EXCEPT ![from] = @ - amount, ![Self] = @ + amount]
    /\ store' = [store EXCEPT !.balance[from] = @ + amount, !.supply = @ + amount]
    /\ UNCHANGED history

\* withdraw and unwrap: burn_and_release
Withdraw(from, amount) ==
    /\ Call("xlm_wrapper")
    /\ Initialized /\ ~store.paused
    /\ store.balance[from] >= amount
    /\ amount <= held[Self]
    /\ held' = [held EXCEPT ![from] = @ + amount, ![Self] = @ - amount]
    /\ store' = [store EXCEPT !.balance[from] = @ - amount, !.supply = @ - amount]
    /\ UNCHANGED history

\* The XLM of what is burnt stays in the contract.
Burn(from, amount) ==
    /\ Call("xlm_wrapper")
    /\ store.balance[from] >= amount
    /\ store' = [store EXCEPT !.balance[from] = @ - amount, !.supply = @ - amount]
    /\ UNCHANGED <<held, history>>

\* do_transfer, in the state s
Moved(s, from, to, amount) ==
    [s EXCEPT !.balance = [[s.balance EXCEPT ![from] = @ - amount] EXCEPT ![to] = @ + amount]]

Transfer(from, to, amount) ==
    /\ Call("xlm_wrapper")
    /\ store.balance[from] >= amount
    /\ store' = Moved(store, from, to, amount)
    /\ UNCHANGED <<held, history>>

Approve(pair, amount) ==
    /\ Call("xlm_wrapper")
    /\ history < MaxApprovals
    /\ store' = [store EXCEPT !.allowance[pair] = amount]
    /\ history' = history + 1
    /\ UNCHANGED held

\* increase_allowance and decrease_allowance
ChangeAllowance(pair, amount) ==
    /\ Call("xlm_wrapper")
    /\ history < MaxApprovals
    /\ store.allowance[pair] + amount \in 0 .. MaxAmount
    /\ store' = [store EXCEPT !.allowance[pair] = @ + amount]
    /\ history' = history + 1
    /\ UNCHANGED held

SetApprovalForAll(pair, approved) ==
    /\ Call("xlm_wrapper")
    /\ history < MaxApprovals
    /\ store' = [store EXCEPT !.operators = IF approved THEN @ \cup {pair} ELSE @ \ {pair}]
    /\ history' = history + 1
    /\ UNCHANGED held

TransferFrom(spender, from, to, amount) ==
    LET pair == <<from, spender>> IN
    /\ Call("xlm_wrapper")
    /\ pair \in store.operators \/ store.allowance[pair] >= amount
    /\ store.balance[from] >= amount
    /\ store' = Moved([store EXCEPT !.allowance[pair] =
                          IF pair \in store.operators THEN @ ELSE @ - amount],
                      from, to, amount)
    /\ UNCHANGED <<held, history>>

------------------------------------------------------------------------------
(* The admin *)

SetPaused(paused) ==
    /\ Call("xlm_wrapper")
    /\ Initialized
    /\ store' = [store EXCEPT !.paused = paused]
    /\ UNCHANGED <<held, history>>

SetTrustlineCount(account, has) ==
    /\ Call("xlm_wrapper")
    /\ Initialized
    /\ store' = [store EXCEPT !.trustlines = IF has THEN @ \cup {account} ELSE @ \ {account}]
    /\ UNCHANGED <<held, history>>

SetMaxSupply(cap) ==
    /\ Call("xlm_wrapper")
    /\ Initialized
    /\ store' = [store EXCEPT !.cap = cap]
    /\ UNCHANGED <<held, history>>

Next ==
    \/ \E a \in Addresses :
          \/ Initialize(a)
          \/ Deposit(a, 1) \/ Withdraw(a, 1) \/ Burn(a, 1)
          \/ \E has \in BOOLEAN : SetTrustlineCount(a, has)
    \/ \E a, b \in Addresses :
          \/ Transfer(a, b, 1)
          \/ Approve(<<a, b>>, 1)
          \/ \E n \in {-1, 1} : ChangeAllowance(<<a, b>>, n)
          \/ \E approved \in BOOLEAN : SetApprovalForAll(<<a, b>>, approved)
          \/ \E c \in Addresses : TransferFrom(a, b, c, 1)
    \/ \E paused \in BOOLEAN : SetPaused(paused)
    \/ \E cap \in Caps : SetMaxSupply(cap)

Spec == Init /\ [][Next]_vars

------------------------------------------------------------------------------
(* Properties *)

\* Every wrapped token can be redeemed: the supply is what the users have, also
\* after a transfer to oneself, and the contract holds the XLM for all of it.
Redeemable ==
    /\ store.supply = MapThenSumSet(LAMBDA a : store.balance[a], Addresses)
    /\ store.supply <= held[Self]
==============================================================================
