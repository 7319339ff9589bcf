---------------------------- MODULE SnapshotStaking ----------------------------
(***************************************************************************)
(* The snapshot contract src/staking/snapshot.rs: what each user stakes is *)
(* recorded by epochs, so that rewards go by the balance of a past epoch.  *)
(* It moves no tokens.  Initialize "must be called once before any other    *)
(* function" (line 74), but nothing asks for it: until then what is not    *)
(* stored reads as zero.  What is only reported, the number of             *)
(* participants and what a snapshot records, is left out.                  *)
(***************************************************************************)
EXTENDS Soroban, FiniteSetsExt

CONSTANTS MaxEpoch      \* bound: the epochs that are closed

Epochs == 0 .. MaxEpoch
Absent == -1

\* history.staked is what each user really had staked at the end of each closed
\* epoch, and, for the open one, what the user has staked so far; history.forgotten
\* is what had been staked when initialize set the total to zero.
TypeOK ==
    /\ store.epoch \in Epochs \cup {Absent}
    /\ store.totalStaked \in Int /\ store.snapshots \subseteq Epochs
    /\ store.epochTotal \in [Epochs -> Int]
    /\ store.checkpoint \in [Addresses -> [Epochs -> Nat \cup {Absent}]]
    /\ store.lastEpoch \in [Addresses -> Epochs \cup {Absent}]
    /\ history \in [staked : [Addresses -> [Epochs -> Nat]], forgotten : Nat]

Init ==
    /\ Deployed("snapshot")
    /\ store = [epoch |-> Absent, registry |-> FALSE, totalStaked |-> 0,
                snapshots |-> {}, epochTotal |-> [e \in Epochs |-> 0],
                checkpoint |-> [a \in Addresses |-> [e \in Epochs |-> Absent]],
                lastEpoch |-> [a \in Addresses |-> Absent]]
    /\ history = [staked |-> [a \in Addresses |-> [e \in Epochs |-> 0]], forgotten |-> 0]
    /\ held = 0

\* current_epoch
CurrentEpoch == IF store.epoch = Absent THEN 0 ELSE store.epoch

\* What was staked before stays on the users' checkpoints, but not in the total.
Initialize ==
    /\ Call("snapshot")
    /\ store.epoch = Absent
    /\ store' = [store EXCEPT !.epoch = 0, !.totalStaked = 0]
    /\ history' = [history EXCEPT !.forgotten = store.totalStaked]
    /\ UNCHANGED held

SetSecurityRegistry ==
    /\ Call("snapshot")
    /\ ~store.registry
    /\ store' = [store EXCEPT !.registry = TRUE]
    /\ UNCHANGED <<held, history>>

\* mutant: only what was recorded in this very epoch counts
BalanceAt_Exact(user, epoch) ==
    IF store.checkpoint[user][epoch] # Absent THEN store.checkpoint[user][epoch] ELSE 0

\* _balance_at_epoch: the checkpoint of that epoch, else the last one unless
\* it is later
BalanceAt(user, epoch) ==
    LET last == store.lastEpoch[user] IN
    IF store.checkpoint[user][epoch] # Absent THEN store.checkpoint[user][epoch]
    ELSE IF last = Absent \/ last > epoch THEN 0
    ELSE store.checkpoint[user][last]

AdvanceEpoch ==
    LET e == CurrentEpoch IN
    /\ Call("snapshot")
    /\ e < MaxEpoch
    /\ store' = [store EXCEPT !.epoch = e + 1, !.epochTotal[e] = store.totalStaked,
                              !.snapshots = @ \cup {e}]
    /\ history' = [history EXCEPT !.staked =
          [a \in Addresses |->
              [history.staked[a] EXCEPT ![e + 1] = history.staked[a][e]]]]
    /\ UNCHANGED held

\* Anyone may record a snapshot under any epoch, over the one that is there.
RecordEpochSnapshot(epoch) ==
    /\ Call("snapshot")
    /\ store' = [store EXCEPT !.snapshots = @ \cup {epoch}]
    /\ UNCHANGED <<held, history>>

\* _write_checkpoint
Checkpoint(user, balance) ==
    [store EXCEPT !.checkpoint[user][CurrentEpoch] = balance,
                  !.lastEpoch[user] = CurrentEpoch]

Stake(user, amount, paused) ==
    LET prev == BalanceAt(user, CurrentEpoch) IN
    /\ Call("snapshot")
    /\ store.registry => ~paused
    /\ history.forgotten + store.totalStaked + amount <= MaxAmount
    /\ store' = [Checkpoint(user, prev + amount) EXCEPT !.totalStaked = @ + amount]
    /\ history' = [history EXCEPT !.staked[user][CurrentEpoch] = @ + amount]
    /\ UNCHANGED held

Unstake(user, amount, paused) ==
    LET prev == BalanceAt(user, CurrentEpoch) IN
    /\ Call("snapshot")
    /\ store.registry => ~paused
    /\ prev >= amount
    /\ store' = [Checkpoint(user, prev - amount) EXCEPT !.totalStaked = @ - amount]
    /\ history' = [history EXCEPT !.staked[user][CurrentEpoch] = @ - amount]
    /\ UNCHANGED held

Next ==
    \/ Initialize \/ SetSecurityRegistry \/ AdvanceEpoch
    \/ \E e \in Epochs : RecordEpochSnapshot(e)
    \/ \E a \in Addresses, amount \in {1, 2}, paused \in BOOLEAN :
          Stake(a, amount, paused) \/ Unstake(a, amount, paused)

Spec == Init /\ [][Next]_vars

------------------------------------------------------------------------------
(* Properties *)

StakedAt(e) ==
    LET staked == [a \in Addresses |-> history.staked[a][e]] IN
    MapThenSumSet(LAMBDA a : staked[a], Addresses)

\* The shares of an epoch are of what was staked: its frozen total is the sum of
\* the balances at its end, less what a late initialize has forgotten, and nobody
\* who has not staked since has another balance at it than the one of then.
SharesAreOfTheEpoch ==
    \A e \in {i \in Epochs : i < store.epoch} :
        /\ store.epochTotal[e] = StakedAt(e) - history.forgotten
        /\ \A a \in Addresses :
              store.lastEpoch[a] <= e => BalanceAt(a, e) = history.staked[a][e]

------------------------------------------------------------------------------
(* What a comment says and the code does not do *)

\* "User's balance as it was recorded at `epoch`.  Returns the most recent checkpoint
\* written at or before `epoch`" (snapshot.rs:215): of a user who has staked since and
\* has no checkpoint at that epoch it returns another.
BalanceAtIsRecorded ==
    \A a \in Addresses, e \in 0 .. store.epoch : BalanceAt(a, e) = history.staked[a][e]
==============================================================================
