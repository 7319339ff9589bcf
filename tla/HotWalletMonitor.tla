-------------------------- MODULE HotWalletMonitor --------------------------
(***************************************************************************)
(* The alerts about one hot wallet, backend/src/services/                  *)
(* hot-wallet-monitor.service.ts: checks run on a timer, and a slow one    *)
(* overlaps the next; the cooldown of alerts and the breach that calls for *)
(* an all-clear are keys in Redis.  The requests are the checks.           *)
(***************************************************************************)
EXTENDS Backend

CONSTANT MaxMoves     \* bound on changes of the balance

Idle == "idle"

\* outside: the balance, below the threshold, above it, or recovered; and what the
\* users were told last.  history: changes of the balance, and whether checks ever
\* overlapped.
TypeOK ==
    /\ db \in [cooldown : BOOLEAN, breach : BOOLEAN]
    /\ calls \in [Requests -> {Idle, "ask", "send", "cooldown", "breach", "recovery",
                               "clear", "delBreach", "delCooldown"}]
    /\ outside \in [balance : {"low", "above", "recovered"}, told : {"clear", "alert"}]
    /\ history \in [moves : 0 .. MaxMoves, overlapped : BOOLEAN]
    /\ failures \in 0 .. MaxFailures

Init ==
    /\ Running("wallet")
    /\ db = [cooldown |-> FALSE, breach |-> FALSE]
    /\ calls = [r \in Requests |-> Idle]
    /\ outside = [balance |-> "recovered", told |-> "clear"]
    /\ history = [moves |-> 0, overlapped |-> FALSE]

\* checkWallet: what the balance found calls for.
CheckWallet(r) ==
    /\ Step("wallet")
    /\ calls[r] = Idle
    /\ outside.balance # "above"
    /\ Goes(r, IF outside.balance = "low" THEN "ask" ELSE "recovery")
    /\ history' = [history EXCEPT !.overlapped = @ \/ \E q \in Requests : calls[q] # Idle]
    /\ UNCHANGED <<db, outside>>

Suppressed == db.cooldown

AlreadyAlerted(r) ==
    /\ Step("wallet")
    /\ calls[r] = "ask"
    /\ Goes(r, IF Suppressed THEN Idle ELSE "send")
    /\ UNCHANGED <<db, outside, history>>

Send(r) ==
    /\ Step("wallet")
    /\ calls[r] = "send"
    /\ outside' = [outside EXCEPT !.told = "alert"]
    /\ Goes(r, "cooldown")
    /\ UNCHANGED <<db, history>>

SetCooldown(r) ==
    /\ Step("wallet")
    /\ calls[r] = "cooldown"
    /\ db' = [db EXCEPT !.cooldown = TRUE]
    /\ Goes(r, "breach")
    /\ UNCHANGED <<outside, history>>

\* mutant: the key is written only where there is one (XX)
Remembered_Not == db.breach

Remembered == TRUE

SetBreach(r) ==
    /\ Step("wallet")
    /\ calls[r] = "breach"
    /\ db' = [db EXCEPT !.breach = Remembered]
    /\ Goes(r, Idle)
    /\ UNCHANGED <<outside, history>>

\* handleRecovery
InBreach(r) ==
    /\ Step("wallet")
    /\ calls[r] = "recovery"
    /\ Goes(r, IF db.breach THEN "clear" ELSE Idle)
    /\ UNCHANGED <<db, outside, history>>

AllClear(r) ==
    /\ Step("wallet")
    /\ calls[r] = "clear"
    /\ outside' = [outside EXCEPT !.told = "clear"]
    /\ Goes(r, "delBreach")
    /\ UNCHANGED <<db, history>>

Delete(r) ==
    /\ Step("wallet")
    /\ calls[r] \in {"delBreach", "delCooldown"}
    /\ IF calls[r] = "delBreach"
       THEN db' = [db EXCEPT !.breach = FALSE] /\ Goes(r, "delCooldown")
       ELSE db' = [db EXCEPT !.cooldown = FALSE] /\ Goes(r, Idle)
    /\ UNCHANGED <<outside, history>>

\* An error of Redis, of the notification of a recovery, or a crash.
CheckFails(r) ==
    /\ Fail("wallet")
    /\ calls[r] # Idle
    /\ Goes(r, Idle)
    /\ UNCHANGED <<db, outside, history>>

\* Promise.allSettled and notify swallow what the channels throw: nobody is told, and
\* the check goes on as if they were.
SendFails(r) ==
    /\ Fail("wallet")
    /\ calls[r] \in {"send", "clear"}
    /\ Goes(r, IF calls[r] = "send" THEN "cooldown" ELSE "delBreach")
    /\ UNCHANGED <<db, outside, history>>

CooldownExpires ==
    /\ Step("wallet")
    /\ db.cooldown
    /\ db' = [db EXCEPT !.cooldown = FALSE]
    /\ UNCHANGED <<calls, outside, history>>

BalanceMoves(balance) ==
    /\ Step("wallet")
    /\ history.moves < MaxMoves
    /\ balance # outside.balance
    /\ outside' = [outside EXCEPT !.balance = balance]
    /\ history' = [history EXCEPT !.moves = @ + 1]
    /\ UNCHANGED <<db, calls>>

Proceeds(r) ==
    \/ AlreadyAlerted(r) \/ Send(r) \/ SetCooldown(r) \/ SetBreach(r)
    \/ InBreach(r) \/ AllClear(r) \/ Delete(r)
Next ==
    \/ \E r \in Requests : CheckWallet(r) \/ Proceeds(r) \/ CheckFails(r) \/ SendFails(r)
    \/ CooldownExpires
    \/ \E b \in {"low", "above", "recovered"} : BalanceMoves(b)

\* The timer goes on, calls are answered, and the cooldown ends.
Fairness ==
    /\ \A r \in Requests : WF_vars(CheckWallet(r)) /\ WF_vars(Proceeds(r))
    /\ WF_vars(CooldownExpires)

Spec == Init /\ [][Next]_vars /\ Fairness

------------------------------------------------------------------------------
(* Properties *)

\* A balance that stays low is told of in the end, whatever check, all-clear or failure
\* came in between.  An alert that reached nobody counts as made and is not repeated
\* before the cooldown has passed, but it is then.
LowIsTold ==
    <>[](service = "wallet" /\ outside.balance = "low" => outside.told = "alert")

\* A wallet that has recovered for good gets its all-clear, as long as checks do not
\* overlap and neither they nor the notification fail.
RecoveryIsTold ==
    <>[](service = "wallet" /\ outside.balance = "recovered"
            /\ failures = 0 /\ ~history.overlapped => outside.told = "clear")
==============================================================================
