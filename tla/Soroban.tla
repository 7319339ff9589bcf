------------------------------- MODULE Soroban -------------------------------
(***************************************************************************)
(* A deployed Soroban contract.  Its storage is a record with a field per  *)
(* DataKey, or per part of one.  A call is one step: it succeeds as a      *)
(* whole or panics and changes nothing.  It is an action of whoever must   *)
(* authorise it, so that require_auth is not written again; where the code *)
(* compares addresses, the caller is a parameter.                          *)
(***************************************************************************)
EXTENDS Integers

CONSTANTS
    Addresses,
    Nobody,         \* Option::None, and an address that is not stored yet
    Delay,          \* a contract's time lock, in units of the ledger's clock
    MaxTime,        \* bound on the ledger's clock
    MaxAmount       \* bound on the tokens that come into a contract

Somebody == Addresses \cup {Nobody}

VARIABLES
    contract,       \* which contract it is
    store,          \* its storage
    held,           \* the tokens it holds
    now,            \* the ledger's clock
    history         \* ghost: what a property compares the present with

vars == <<contract, store, held, now, history>>

Deployed(c) == contract = c /\ now = 0

\* A call of an entry point of c.
Call(c) == contract = c /\ UNCHANGED <<contract, now>>

TimePasses ==
    /\ now < MaxTime
    /\ now' = now + 1
    /\ UNCHANGED <<contract, store, held, history>>
==============================================================================
