--------------------------- MODULE MultisigPromise ---------------------------
(***************************************************************************)
(* What the multisig coordinator promises the signers of ONE transaction,  *)
(* without requests, rows or envelopes: the payment is made at most once,  *)
(* only after the service has taken as many signatures as its quorum       *)
(* demands and as many people have signed as the account itself demands,   *)
(* and nobody is told that it was made before it was.                      *)
(*                                                                         *)
(* quorum is the lowest number of signatures anyone has ever configured    *)
(* for the transaction; told holds the outcomes the signers were notified  *)
(* of.  The promise is weak where the code is: a signature is taken that   *)
(* nobody has verified, so a quorum above the account's own demand can be  *)
(* met without the people it asks for; and FAILED may be told of a payment *)
(* that was made, or no outcome at all.                                    *)
(***************************************************************************)
EXTENDS Integers, FiniteSets

CONSTANTS Signers,          \* the required signers of the transaction
          LedgerThreshold   \* signatures the Stellar account itself demands

VARIABLES
    taken,      \* signers of whom the service has taken a signature
    signed,     \* signers who have signed
    quorum, paid, told

vars == <<taken, signed, quorum, paid, told>>

Init ==
    /\ taken = {} /\ signed = {}
    /\ quorum \in 1..Cardinality(Signers)
    /\ paid = FALSE
    /\ told = {}

Sign(s) ==
    /\ signed' = signed \cup {s}
    /\ UNCHANGED <<taken, quorum, paid, told>>

Take(s) ==
    /\ taken' = taken \cup {s}
    /\ UNCHANGED <<signed, quorum, paid, told>>

Relax(n) ==
    /\ n < quorum
    /\ quorum' = n
    /\ UNCHANGED <<taken, signed, paid, told>>

Pay ==
    /\ ~paid
    /\ Cardinality(taken) >= quorum
    /\ Cardinality(signed) >= LedgerThreshold
    /\ paid' = TRUE
    /\ UNCHANGED <<taken, signed, quorum, told>>

TellSubmitted ==
    /\ paid
    /\ told' = told \cup {"SUBMITTED"}
    /\ UNCHANGED <<taken, signed, quorum, paid>>

TellFailed ==
    /\ told' = told \cup {"FAILED"}
    /\ UNCHANGED <<taken, signed, quorum, paid>>

Next ==
    \/ \E s \in Signers : Sign(s) \/ Take(s)
    \/ \E n \in 1..Cardinality(Signers) : Relax(n)
    \/ Pay
    \/ TellSubmitted
    \/ TellFailed

Spec == Init /\ [][Next]_vars
==============================================================================
