-------------------------------- MODULE Bridge --------------------------------
(***************************************************************************)
(* The bridge contract src/bridge/src/lib.rs, for one source chain and     *)
(* token: a relayer submits signed messages that mint or burn, each once   *)
(* within the replay window; burns keep the collateral; after a silence of *)
(* the relayer anybody may start the emergency mode.  Ledgers and seconds  *)
(* are one clock.  The admin's own start and the end of the emergency mode *)
(* read the relayer's key as an address, which traps: they never succeed   *)
(* and are no actions.                                                     *)
(***************************************************************************)
EXTENDS Soroban

CONSTANTS
    Messages,       \* signed message hashes
    Silence,        \* the 72 hours after which anybody may step in
    DefaultWindow,  \* DEFAULT_REPLAY_WINDOW_LEDGERS
    Windows,        \* the replay windows that the admin sets
    Ratios          \* minimum collateral in percent of what is minted

Never == -1

\* history.at is when each message was last processed, .active when any was.
TypeOK ==
    /\ store \in [admin : Somebody, ratio : Nat, window : Nat,
                  processedAt : [Messages -> Int], lastActivity : Nat,
                  locked : Nat, minted : Int, updated : Nat, emergency : BOOLEAN]
    /\ held \in Nat /\ now \in Nat

Init ==
    /\ Deployed("bridge")
    /\ store = [admin |-> Nobody, ratio |-> 100, window |-> DefaultWindow,
                processedAt |-> [m \in Messages |-> Never], lastActivity |-> 0,
                locked |-> 0, minted |-> 0, updated |-> 0, emergency |-> FALSE]
    /\ history = [active |-> 0, at |-> [m \in Messages |-> Never]]
    /\ held = 0

AdminCall == Call("bridge") /\ store.admin # Nobody

Initialize(admin, ratio) ==
    /\ Call("bridge")
    /\ store.admin = Nobody
    /\ store' = [store EXCEPT !.admin = admin, !.ratio = ratio,
                              !.window = DefaultWindow, !.lastActivity = now,
                              !.emergency = FALSE]
    /\ history' = [history EXCEPT !.active = now]
    /\ UNCHANGED held

SetReplayWindow(n) ==
    /\ AdminCall
    /\ store' = [store EXCEPT !.window = n]
    /\ UNCHANGED <<held, history>>

Fresh(m) ==
    \/ store.processedAt[m] = Never
    \/ now - store.processedAt[m] >= store.window

\* verify_collateralization
Collateralised(minted) ==
    minted > 0 => (store.locked * 100) \div minted >= store.ratio

\* A mint, or a burn if the amount is negative.
ProcessMessage(m, amount) ==
    /\ AdminCall
    /\ Fresh(m) /\ store.minted + amount \in -MaxAmount..MaxAmount
    /\ amount < 0 => Collateralised(store.minted + amount)
    /\ store' = [store EXCEPT !.processedAt[m] = now, !.lastActivity = now,
                              !.minted = @ + amount]
    /\ history' = [history EXCEPT !.active = now, !.at[m] = now]
    /\ UNCHANGED held

UpdateSourceLocked(amount) ==
    /\ AdminCall
    /\ store' = [store EXCEPT !.locked = amount, !.updated = now]
    /\ UNCHANGED <<held, history>>

SetMinCollateralRatio(ratio) ==
    /\ AdminCall
    /\ store' = [store EXCEPT !.ratio = ratio]
    /\ UNCHANGED <<held, history>>

ActivateEmergencyMode ==
    /\ Call("bridge")
    /\ ~store.emergency
    /\ now - store.lastActivity >= Silence
    /\ store' = [store EXCEPT !.emergency = TRUE]
    /\ UNCHANGED <<held, history>>

\* Any user, any amount that is there: LockedBalance is never written.
EmergencyWithdraw(amount) ==
    /\ Call("bridge")
    /\ store.emergency
    /\ amount <= held
    /\ held' = held - amount
    /\ UNCHANGED <<store, history>>

Lock ==
    /\ Call("bridge")
    /\ held < MaxAmount
    /\ held' = held + 1
    /\ UNCHANGED <<store, history>>

Next ==
    \/ \E a \in Addresses, r \in Ratios : Initialize(a, r)
    \/ \E n \in Windows : SetReplayWindow(n)
    \/ \E m \in Messages, n \in {-MaxAmount, MaxAmount} : ProcessMessage(m, n)
    \/ \E n \in 0..MaxAmount : UpdateSourceLocked(n) \/ EmergencyWithdraw(n)
    \/ \E r \in Ratios : SetMinCollateralRatio(r)
    \/ ActivateEmergencyMode \/ Lock
    \/ TimePasses

Spec == Init /\ [][Next]_vars
------------------------------------------------------------------------------
(* Properties *)

\* A relayer that submits a message again, however often, is refused for the
\* whole replay window after the last time it was processed.
NotReplayedStep ==
    \A m \in Messages : (\E n \in {-MaxAmount, MaxAmount} : ProcessMessage(m, n)) =>
       history.at[m] = Never \/ now - history.at[m] >= store.window
NotReplayed == [][NotReplayedStep]_vars

\* The locked tokens open to everybody only when the relayer has been silent
\* for the whole time: each message it delivers starts the time again.  The admin,
\* who lib.rs:372 says may open them sooner, cannot: what is read as the admin's
\* address is the relayer's key, and the call traps.
EmergencyAfterSilenceStep ==
    store'.emergency /\ ~store.emergency => now - history.active >= Silence
EmergencyAfterSilence == [][EmergencyAfterSilenceStep]_vars
==============================================================================
