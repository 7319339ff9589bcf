--------------------------- MODULE ContractRegistry ---------------------------
(***************************************************************************)
(* The registry of contracts contracts/registry/src/lib.rs: registrars put *)
(* an address under a contract type, the admin activates, deactivates and  *)
(* removes it.  Versions and dates are left out.                           *)
(***************************************************************************)
EXTENDS Soroban, Sequences, Functions

CONSTANT ContractTypes

NoInfo == [address |-> Nobody, active |-> FALSE, previous |-> Nobody]

TypeOK ==
    /\ store.admin \in Somebody /\ store.pendingAdmin \in Somebody
    /\ store.paused \in BOOLEAN
    /\ store.registrars \subseteq Addresses
    /\ store.info \in [ContractTypes -> [address : Somebody, active : BOOLEAN,
                                         previous : Somebody]]
    /\ store.types \in Seq(ContractTypes)

Init ==
    /\ Deployed("contract_registry")
    /\ store = [admin |-> Nobody, pendingAdmin |-> Nobody, paused |-> FALSE,
                registrars |-> {}, info |-> [t \in ContractTypes |-> NoInfo],
                types |-> <<>>]
    /\ held = 0 /\ history = 0

Initialized == store.admin # Nobody
Registered(t) == store.info[t] # NoInfo
Running == Call("contract_registry") /\ ~store.paused /\ UNCHANGED <<held, history>>
Administered == Call("contract_registry") /\ Initialized /\ UNCHANGED <<held, history>>

Initialize(admin) ==
    /\ Call("contract_registry")
    /\ ~Initialized
    /\ store' = [store EXCEPT !.admin = admin, !.registrars = {admin}]
    /\ UNCHANGED <<held, history>>

\* An update is active, whether or not the admin had deactivated what it replaces.
RegisterContract(registrar, t, address) ==
    /\ Running
    /\ registrar \in store.registrars
    /\ store' = [store EXCEPT
          !.info[t] = [address |-> address, active |-> TRUE, previous |-> @.address],
          !.types = IF Registered(t) \/ t \in Range(@) THEN @ ELSE Append(@, t)]

AddRegistrar(registrar) ==
    /\ Administered
    /\ store' = [store EXCEPT !.registrars = @ \cup {registrar}]

RemoveRegistrar(registrar) ==
    /\ Administered
    /\ store' = [store EXCEPT !.registrars = @ \ {registrar}]

\* deactivate_contract and activate_contract
SetActive(t, active) ==
    /\ Running /\ Initialized
    /\ Registered(t)
    /\ store' = [store EXCEPT !.info[t].active = active]

\* mutant: the list of the types is left alone
RemoveContract_KeepsType(t) ==
    /\ Running /\ Initialized
    /\ Registered(t)
    /\ store' = [store EXCEPT !.info[t] = NoInfo]

RemoveContract(t) ==
    /\ Running /\ Initialized
    /\ Registered(t)
    /\ store' = [store EXCEPT !.info[t] = NoInfo,
                              !.types = SelectSeq(@, LAMBDA u : u # t)]

\* A proposal made before stays open.
TransferAdmin(new) ==
    /\ Administered
    /\ store' = [store EXCEPT !.admin = new]

ProposeAdmin(new) ==
    /\ Administered
    /\ store' = [store EXCEPT !.pendingAdmin = new]

ClaimAdmin ==
    /\ Administered
    /\ store.pendingAdmin # Nobody
    /\ store' = [store EXCEPT !.admin = store.pendingAdmin, !.pendingAdmin = Nobody]

SetPaused(paused) ==
    /\ Administered
    /\ store' = [store EXCEPT !.paused = paused]

Next ==
    \/ \E a \in Addresses :
          \/ Initialize(a) \/ AddRegistrar(a) \/ RemoveRegistrar(a)
          \/ TransferAdmin(a) \/ ProposeAdmin(a)
          \/ \E t \in ContractTypes, b \in Addresses : RegisterContract(a, t, b)
    \/ \E t \in ContractTypes :
          \/ \E active \in BOOLEAN : SetActive(t, active)
          \/ RemoveContract(t)
    \/ ClaimAdmin
    \/ \E paused \in BOOLEAN : SetPaused(paused)

Spec == Init /\ [][Next]_vars

------------------------------------------------------------------------------
(* Properties *)

\* The list that get_active_contracts walks has every registered type once and no
\* other, whatever was registered again, removed and registered again.
TypesAreRegistered ==
    /\ Range(store.types) = {t \in ContractTypes : Registered(t)}
    /\ IsInjective(store.types)
==============================================================================
