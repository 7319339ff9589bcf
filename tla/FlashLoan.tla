------------------------------- MODULE FlashLoan -------------------------------
(***************************************************************************)
(* The flash loan provider src/flash_loan/lib.rs.  A loan is one call: the *)
(* tokens go out, the receiver's callback sends back what it likes, and    *)
(* the call panics, undoing all of it, unless the fees came as well.  The  *)
(* host lets no callback enter the provider again.  held is by token.      *)
(***************************************************************************)
EXTENDS Soroban, Sequences, FiniteSetsExt

CONSTANTS
    Tokens,
    FeeRates,           \* the fees that are set
    FeeUnit,            \* 10_000: the denominator of a fee
    MaxLoans            \* bound: the loans that are completed

\* history: the loans completed, and per token what came in as deposits, what
\* fees were due and what went to the reward pool.
TypeOK ==
    /\ store.admin \in Somebody /\ store.paused \in BOOLEAN /\ store.registry \in BOOLEAN
    /\ store.rewardPool \in BOOLEAN /\ store.fee \in FeeRates
    /\ held \in [Tokens -> Nat]
    /\ history.loans \in 0 .. MaxLoans
    /\ {history.deposits, history.due, history.rewards} \subseteq [Tokens -> Nat]

Init ==
    /\ Deployed("flash_loan")
    /\ store = [admin |-> Nobody, paused |-> FALSE, registry |-> FALSE,
                rewardPool |-> FALSE, fee |-> CHOOSE r \in FeeRates : TRUE]
    /\ held = [t \in Tokens |-> 0]
    /\ history = [loans |-> 0, deposits |-> held, due |-> held, rewards |-> held]

InitializeAdmin(admin) ==
    /\ Call("flash_loan")
    /\ store.admin = Nobody
    /\ store' = [store EXCEPT !.admin = admin, !.paused = FALSE]
    /\ UNCHANGED <<held, history>>

SetPaused(paused) ==
    /\ Call("flash_loan")
    /\ store.admin # Nobody /\ store.paused # paused
    /\ store' = [store EXCEPT !.paused = paused]
    /\ UNCHANGED <<held, history>>

\* set_fee_bps, set_reward_pool and set_security_registry, which anyone may call
Set(field, value) ==
    /\ Call("flash_loan")
    /\ store[field] # value
    /\ store' = [store EXCEPT ![field] = value]
    /\ UNCHANGED <<held, history>>

Amounts(loans) == [i \in DOMAIN loans |-> loans[i].amount]
Fees(loans) == [i \in DOMAIN loans |-> (loans[i].amount * store.fee) \div FeeUnit]

\* check_not_paused
NotPaused(registryPaused) == ~store.paused /\ (store.registry => ~registryPaused)

\* The sum of F over those of the first n loans that are of token t.
SumOf(F, loans, t, n) == MapThenSumSet(LAMBDA i : F[i], {i \in 1 .. n : loans[i].token = t})

\* The loans that the callback pays back so much of each token for, if the
\* balances suffice: loan by loan, and with its fee sent on to the reward pool
\* before the next one is looked at.
Settle(loans, repaid, pays) ==
    LET Lent(t) == SumOf(Amounts(loans), loans, t, Len(loans))
        Due(t, n) == SumOf(Fees(loans), loans, t, n)
        Sent(t, n) == IF pays THEN Due(t, n) ELSE 0
        after == [t \in Tokens |-> held[t] - Lent(t) + repaid[t]]
    IN  /\ history.loans < MaxLoans
        /\ \A t \in Tokens : Lent(t) <= held[t]
        /\ \A i \in DOMAIN loans :
              LET t == loans[i].token IN
              /\ after[t] - Sent(t, i - 1) >= held[t] + Due(t, Len(loans))
              /\ after[t] - Sent(t, i) >= 0
        /\ held' = [t \in Tokens |-> after[t] - Sent(t, Len(loans))]
        /\ history' = [history EXCEPT
              !.loans = @ + 1,
              !.due = [t \in Tokens |-> @[t] + Due(t, Len(loans))],
              !.rewards = [t \in Tokens |-> @[t] + Sent(t, Len(loans))]]

\* flash_loan and flash_loan_batch
Lend(loans, repaid, registryPaused) ==
    /\ Call("flash_loan")
    /\ NotPaused(registryPaused)
    /\ Settle(loans, repaid, store.rewardPool)
    /\ UNCHANGED store

\* flash_loan_multi takes no lock and pays nothing to the reward pool.
FlashLoanMulti(loans, repaid, registryPaused) ==
    /\ Call("flash_loan")
    /\ NotPaused(registryPaused)
    /\ Settle(loans, repaid, FALSE)
    /\ UNCHANGED store

Deposit(t) ==
    /\ Call("flash_loan")
    /\ history.deposits[t] < MaxAmount
    /\ held' = [held EXCEPT ![t] = @ + 1]
    /\ history' = [history EXCEPT !.deposits[t] = @ + 1]
    /\ UNCHANGED store

Loans == [token : Tokens, amount : 1 .. MaxAmount]
LoanLists == {<<l>> : l \in Loans} \cup {<<l, m>> : l \in Loans, m \in Loans}

Next ==
    \/ \E a \in Addresses : InitializeAdmin(a)
    \/ \E value \in BOOLEAN : SetPaused(value)
    \/ \E r \in FeeRates : Set("fee", r)
    \/ Set("rewardPool", TRUE) \/ Set("registry", TRUE)
    \/ \E loans \in LoanLists, repaid \in [Tokens -> 0 .. 2 * MaxAmount],
          registryPaused \in BOOLEAN :
          \/ Lend(loans, repaid, registryPaused)
          \/ FlashLoanMulti(loans, repaid, registryPaused)
    \/ \E t \in Tokens : Deposit(t)

Spec == Init /\ [][Next]_vars

------------------------------------------------------------------------------
(* Properties *)

\* Lending never costs the provider anything: it holds what was deposited and the
\* fee of every loan, of several loans of one token too, less what it sent to the
\* reward pool, which is no more than those fees.
FeesAreEarned ==
    \A t \in Tokens :
        /\ held[t] + history.rewards[t] >= history.deposits[t] + history.due[t]
        /\ history.rewards[t] <= history.due[t]
==============================================================================
