-------------------------------- MODULE Random --------------------------------
(***************************************************************************)
(* The commit-reveal contract src/random/lib.rs.  A commitment stands for  *)
(* the secret it hides, so that a reveal is possible to whoever committed; *)
(* the counters of a round are the sizes of the sets they count.           *)
(***************************************************************************)
EXTENDS Soroban, FiniteSets

CONSTANTS
    MinParticipants,
    MaxRounds           \* bound: the rounds that are started

Rounds == 1 .. MaxRounds

\* seed is whose secrets were hashed, per round.  history is who has committed
\* to a round when a secret of that round was already public.
TypeOK ==
    /\ store.admin \in Somebody
    /\ store.phase \in {"none", "COMMIT", "REVEAL", "COMPLETED"}
    /\ store.round \in 0 .. MaxRounds
    /\ store.commitments \in [Rounds -> SUBSET Addresses]
    /\ store.secrets \in [Rounds -> SUBSET Addresses]
    /\ store.seed \in [Rounds -> (SUBSET Addresses) \cup {Nobody}]
    /\ history \in [Rounds -> SUBSET Addresses]

Init ==
    /\ Deployed("random")
    /\ store = [admin |-> Nobody, phase |-> "none", round |-> 0,
                commitments |-> [r \in Rounds |-> {}],
                secrets |-> [r \in Rounds |-> {}],
                seed |-> [r \in Rounds |-> Nobody]]
    /\ history = [r \in Rounds |-> {}]
    /\ held = 0

Initialize(admin) ==
    /\ Call("random")
    /\ store.admin = Nobody
    /\ store' = [store EXCEPT !.admin = admin, !.phase = "COMMIT"]
    /\ UNCHANGED <<held, history>>

\* Also gives up a round whose commitments are not complete.
StartRound ==
    /\ Call("random")
    /\ store.phase \in {"COMMIT", "COMPLETED"}
    /\ store.round < MaxRounds
    /\ store' = [store EXCEPT !.round = @ + 1, !.phase = "COMMIT"]
    /\ UNCHANGED <<held, history>>

\* mutant: the phase does not matter
Commit_AnyPhase(user, r) ==
    /\ Call("random")
    /\ store.phase \in {"COMMIT", "REVEAL"}
    /\ r <= store.round
    /\ user \notin store.commitments[r]
    /\ store' = [store EXCEPT !.commitments[r] = @ \cup {user}]
    /\ history' = [history EXCEPT ![r] =
                      IF store.secrets[r] # {} THEN @ \cup {user} ELSE @]
    /\ UNCHANGED held

\* A round stays active for ever: an earlier one takes commitments, too.
Commit(user, r) ==
    /\ Call("random")
    /\ store.phase = "COMMIT"
    /\ r <= store.round
    /\ user \notin store.commitments[r]
    /\ store' = [store EXCEPT !.commitments[r] = @ \cup {user}]
    /\ history' = [history EXCEPT ![r] =
                      IF store.secrets[r] # {} THEN @ \cup {user} ELSE @]
    /\ UNCHANGED held

StartRevealPhase ==
    /\ Call("random")
    /\ store.phase = "COMMIT"
    /\ store.round > 0 \/ MinParticipants = 0
    /\ store.round > 0 => Cardinality(store.commitments[store.round]) >= MinParticipants
    /\ store' = [store EXCEPT !.phase = "REVEAL"]
    /\ UNCHANGED <<held, history>>

Reveal(user, r) ==
    /\ Call("random")
    /\ store.phase = "REVEAL"
    /\ user \in store.commitments[r] \ store.secrets[r]
    /\ store' = [store EXCEPT !.secrets[r] = @ \cup {user}]
    /\ UNCHANGED <<held, history>>

ComputeRandomSeed(participants) ==
    LET r == store.round IN
    /\ Call("random")
    /\ store.phase = "REVEAL"
    /\ r > 0
    /\ store.commitments[r] # {}
    /\ Cardinality(store.secrets[r]) = Cardinality(store.commitments[r])
    /\ participants \subseteq store.secrets[r]
    /\ store' = [store EXCEPT !.seed[r] = participants, !.phase = "COMPLETED"]
    /\ UNCHANGED <<held, history>>

Next ==
    \/ \E a \in Addresses :
          \/ Initialize(a)
          \/ \E r \in Rounds : Commit(a, r) \/ Reveal(a, r)
    \/ StartRound \/ StartRevealPhase
    \/ \E participants \in SUBSET Addresses : ComputeRandomSeed(participants)

Spec == Init /\ [][Next]_vars

------------------------------------------------------------------------------
(* Properties *)

\* No seed has the secret of somebody who could choose it knowing another one,
\* although earlier rounds keep taking commitments and reveals.
SecretsWereBlind ==
    \A r \in Rounds : store.seed[r] # Nobody => store.seed[r] \cap history[r] = {}

------------------------------------------------------------------------------
(* What a comment says and the code does not do *)

\* "Compute the final random seed by hashing all revealed secrets" (lib.rs:340): the
\* admin lists those that count, after all are out.
SeedHashesAll ==
    \A r \in Rounds : store.seed[r] \in {Nobody, store.secrets[r]}
==============================================================================
