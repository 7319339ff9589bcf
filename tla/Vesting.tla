------------------------------- MODULE Vesting -------------------------------
(***************************************************************************)
(* The vesting contract src/vesting/lib.rs, for one token: the admin pays  *)
(* in the tokens of a grant, the beneficiary claims what has vested, and   *)
(* the admin takes the unvested rest of a revocable grant back.            *)
(***************************************************************************)
EXTENDS Soroban, Sequences, FiniteSetsExt

CONSTANTS
    Schedules,      \* the starts, cliffs and durations that grants are made with
    MaxGrants       \* bound on the number of grants

Grant == [total : Nat, claimed : Nat, start : Nat, cliff : Nat,
          duration : Nat \ {0}, revocable : BOOLEAN, revoked : BOOLEAN]

\* history holds the amount each grant was created with.
TypeOK ==
    /\ store \in [admin : Somebody, grants : Seq(Grant)]
    /\ history \in Seq(Nat) /\ Len(history) = Len(store.grants)
    /\ held \in Nat /\ now \in Nat

Init ==
    /\ Deployed("vesting")
    /\ store = [admin |-> Nobody, grants |-> <<>>]
    /\ history = <<>>
    /\ held = 0

SetGrant(id, g) == store' = [store EXCEPT !.grants[id] = g]

Initialize(admin) ==
    /\ Call("vesting")
    /\ store.admin = Nobody
    /\ store' = [store EXCEPT !.admin = admin]
    /\ UNCHANGED <<held, history>>

SetAdmin(new) ==
    /\ Call("vesting")
    /\ store.admin # Nobody
    /\ store' = [store EXCEPT !.admin = new]
    /\ UNCHANGED <<held, history>>

\* calculate_vested_amount, at the present time
Vested(g) ==
    CASE g.revoked -> g.total
      [] ~g.revoked /\ now < g.start + g.cliff -> 0
      [] ~g.revoked /\ now >= g.start + g.cliff /\ now >= g.start + g.duration
            -> g.total
      [] OTHER -> (g.total * (now - g.start)) \div g.duration

CreateGrant(amount, s, revocable) ==
    /\ Call("vesting")
    /\ store.admin # Nobody
    /\ Len(store.grants) < MaxGrants
    /\ amount > 0 /\ s.duration > 0 /\ s.cliff <= s.duration
    /\ held' = held + amount
    /\ store' = [store EXCEPT !.grants = Append(@,
          [total |-> amount, claimed |-> 0, start |-> s.start,
           cliff |-> s.cliff, duration |-> s.duration,
           revocable |-> revocable, revoked |-> FALSE])]
    /\ history' = Append(history, amount)

Claim(id) ==
    LET g == store.grants[id]
        claimable == Vested(g) - g.claimed
    IN  /\ Call("vesting")
        /\ claimable > 0
        /\ claimable <= held
        /\ held' = held - claimable
        /\ SetGrant(id, [g EXCEPT !.claimed = @ + claimable])
        /\ UNCHANGED history

RevokeGrant(id) ==
    LET g == store.grants[id]
        unvested == g.total - Vested(g)
    IN  /\ Call("vesting")
        /\ g.revocable /\ ~g.revoked
        /\ unvested <= held
        /\ held' = held - unvested
        /\ SetGrant(id, [g EXCEPT !.total = Vested(g), !.revoked = TRUE])
        /\ UNCHANGED history

Next ==
    \/ \E a \in Addresses : Initialize(a) \/ SetAdmin(a)
    \/ \E amount \in {1, MaxAmount}, s \in Schedules, revocable \in BOOLEAN :
          CreateGrant(amount, s, revocable)
    \/ \E id \in DOMAIN store.grants : Claim(id) \/ RevokeGrant(id)
    \/ TimePasses

Spec == Init /\ [][Next]_vars

------------------------------------------------------------------------------
(* Properties *)

\* What each grant has not paid out.
Left == [id \in DOMAIN store.grants |-> store.grants[id].total - store.grants[id].claimed]

\* The contract holds exactly what its grants have not paid out, so that no
\* grant is ever paid with the tokens of another one.
Solvent == held = MapThenSumSet(LAMBDA id : Left[id], DOMAIN store.grants)

\* Whatever the order of claims and revocation, nobody has claimed more than
\* has vested, nor has more vested than was granted.
ClaimedIsVested ==
    \A id \in DOMAIN store.grants :
        LET g == store.grants[id] IN
        g.claimed <= Vested(g) /\ Vested(g) <= history[id]

\* What has vested stays vested: no revocation takes it back, and the linear
\* schedule never steps down at the cliff or at the end.
VestedStaysStep ==
    \A id \in DOMAIN store.grants :
        Vested(store.grants[id]) <= Vested(store.grants[id])'
VestedStays == [][VestedStaysStep]_vars
==============================================================================
