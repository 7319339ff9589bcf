-------------------------- MODULE RecurringPayments --------------------------
(***************************************************************************)
(* One recurring payment schedule of backend/src/services/                 *)
(* recurring-payments.service.ts, the workers whose ticks process it       *)
(* (workers/recurring-payments.worker.ts starts a tick every minute and    *)
(* one at startup, and does not wait for the previous one), and the user   *)
(* who pauses, resumes, edits, cancels and deletes it.                     *)
(*                                                                         *)
(* Time is counted in units that matter to the schedule: the cron fires    *)
(* at the multiples of CronPeriod.  A database transaction of the code is  *)
(* one step; the payment and everything between two awaits are others.     *)
(***************************************************************************)
EXTENDS Integers, FiniteSets

CONSTANTS
    Workers,        \* ticks that can be in progress together
    CronPeriod,     \* distance of two cron occurrences
    Backoff,        \* computeBackoffDelayMs, the same for every attempt
    FundsDelay,     \* INSUFFICIENT_FUNDS_RETRY_MS
    MaxRetries,     \* RECURRING_PAYMENTS_MAX_RETRIES
    MaxTime,        \* bound on the clock
    MaxRuns,        \* bound on run rows ever created
    MaxTroubles     \* bound on crashes, failed writes, lost answers, deletions and
                    \* ticks that begin beside another one, all together

FAILURE_NOTIFICATION_THRESHOLD == 2

ScheduleStatuses == {"ACTIVE", "PAUSED", "CANCELLED", "DELETED"}
RunStatuses == {"ABSENT", "PENDING", "PROCESSING", "SUCCEEDED", "FAILED",
                "INSUFFICIENT_FUNDS"}
Kinds == {"none", "INSUFFICIENT_FUNDS", "TRANSIENT", "PERMANENT"}
RunIds == 1..MaxRuns

VARIABLES
    schedule,   \* the recurringPaymentSchedule row
    runs,       \* its recurringPaymentRun rows, by order of creation
    lastRun,    \* rows created so far
    pc, tick,   \* the workers: position, and what they hold across awaits
    deleting,   \* deleteSchedule is between its two statements
    deletions,  \* requests to delete so far
    now,
    paid,       \* payments of this schedule on the ledger
    paidRuns,   \* ghost: the runs whose payments they are
    overlaps,   \* ghost: ticks that began while another was in progress
    notified,   \* the user has been told of repeated failures
    failures

userVars == <<deleting, deletions, now, notified>>
ledgerVars == <<paid, paidRuns, overlaps>>
vars == <<schedule, runs, lastRun, pc, tick, deleting, deletions, now, ledgerVars,
          notified, failures>>

NoTick == [at |-> 0, run |-> 0, attempt |-> 0, kind |-> "none"]

TypeOK ==
    /\ schedule \in [status : ScheduleStatuses, nextRunAt : Nat,
                     retryCount : Nat]
    /\ runs \in [RunIds -> [status : RunStatuses, attempt : Nat]]
    /\ lastRun \in 0..MaxRuns
    /\ pc \in [Workers -> {"idle", "claim", "pay", "settle", "record",
                           "notify"}]
    /\ tick \in [Workers -> [at : Nat, run : 0..MaxRuns, attempt : Nat,
                             kind : Kinds]]
    /\ deleting \in BOOLEAN
    /\ deletions \in Nat
    /\ now \in 0..MaxTime
    /\ paid \in Nat /\ overlaps \in Nat
    /\ paidRuns \subseteq RunIds
    /\ notified \in BOOLEAN
    /\ failures \in Nat

\* mutant: the occurrence that is due is found again
NextRunAt_Current(t) == (t \div CronPeriod) * CronPeriod

\* computeNextRunAt
NextRunAt(t) == (t \div CronPeriod + 1) * CronPeriod

\* createSchedule
Init ==
    /\ schedule = [status |-> "ACTIVE", nextRunAt |-> NextRunAt(0),
                   retryCount |-> 0]
    /\ runs = [r \in RunIds |-> [status |-> "ABSENT", attempt |-> 0]]
    /\ lastRun = 0
    /\ pc = [w \in Workers |-> "idle"]
    /\ tick = [w \in Workers |-> NoTick]
    /\ deleting = FALSE
    /\ deletions = 0
    /\ now = 0
    /\ paid = 0 /\ overlaps = 0
    /\ paidRuns = {}
    /\ notified = FALSE
    /\ failures = 0

RunsWith(statuses) == {r \in RunIds : runs[r].status \in statuses}
Latest(ids) == CHOOSE r \in ids : \A q \in ids : q <= r

At(w, label, local) ==
    /\ pc' = [pc EXCEPT ![w] = label]
    /\ tick' = [tick EXCEPT ![w] = local]
Finish(w) == At(w, "idle", NoTick)

Troubles == failures + deletions + overlaps

Fail == Troubles < MaxTroubles /\ failures' = failures + 1

------------------------------------------------------------------------------
(* processDueSchedules *)

\* From the look for due schedules to the transaction that records the result.
InProgress(w) == pc[w] \in {"claim", "pay", "settle", "record"}

\* The findMany of due schedules.
Tick(w) ==
    /\ pc[w] = "idle"
    /\ schedule.status = "ACTIVE" /\ schedule.nextRunAt <= now
    /\ At(w, "claim", [NoTick EXCEPT !.at = now])
    /\ IF \E v \in Workers : InProgress(v)
       THEN Troubles < MaxTroubles /\ overlaps' = overlaps + 1
       ELSE UNCHANGED overlaps
    /\ UNCHANGED <<schedule, runs, lastRun, paid, paidRuns, failures, userVars>>

\* mutant: a run that is PROCESSING, whoever's it is, holds the schedule back
Claim_SkipsInFlight(w) ==
    /\ pc[w] = "claim"
    /\ IF schedule.status # "ACTIVE" \/ RunsWith({"PROCESSING"}) # {}
       THEN Finish(w) /\ UNCHANGED <<runs, lastRun>>
       ELSE /\ lastRun < MaxRuns
            /\ lastRun' = lastRun + 1
            /\ runs' = [runs EXCEPT ![lastRun + 1] =
                           [status |-> "PROCESSING",
                            attempt |-> schedule.retryCount + 1]]
            /\ At(w, "pay", [tick[w] EXCEPT !.run = lastRun + 1,
                                !.attempt = schedule.retryCount + 1])
    /\ UNCHANGED <<schedule, ledgerVars, failures, userVars>>

\* The claiming transaction: only the status is looked at again.
Claim(w) ==
    /\ pc[w] = "claim"
    /\ IF schedule.status # "ACTIVE"
       THEN Finish(w) /\ UNCHANGED <<runs, lastRun>>
       ELSE LET attempt == schedule.retryCount + 1
                pending == RunsWith({"PENDING"})
                run     == IF pending # {} THEN Latest(pending)
                           ELSE lastRun + 1
            IN /\ run <= MaxRuns
               /\ lastRun' = IF pending # {} THEN lastRun ELSE run
               /\ runs' = [runs EXCEPT ![run] =
                              [status |-> "PROCESSING", attempt |-> attempt]]
               /\ At(w, "pay", [tick[w] EXCEPT !.run = run,
                                   !.attempt = attempt])
    /\ UNCHANGED <<schedule, ledgerVars, failures, userVars>>

Paid(w) ==
    /\ paid' = paid + 1
    /\ paidRuns' = paidRuns \cup {tick[w].run}
    /\ UNCHANGED overlaps

\* checkSufficientBalance and executeBatch, with classifyRecurringPaymentError
\* for the error: the payment is made and reported, refused, or made although
\* the answer is an error (a lost answer).
Pay(w) ==
    /\ pc[w] = "pay"
    /\ \/ Paid(w) /\ At(w, "settle", tick[w]) /\ UNCHANGED failures
       \/ /\ \E k \in Kinds \ {"none"} :
                At(w, "record", [tick[w] EXCEPT !.kind = k])
          /\ UNCHANGED <<ledgerVars, failures>>
       \/ Paid(w) /\ At(w, "record", [tick[w] EXCEPT !.kind = "TRANSIENT"]) /\ Fail
    /\ UNCHANGED <<schedule, runs, lastRun, userVars>>

RowsExist(w) ==
    schedule.status # "DELETED" /\ runs[tick[w].run].status # "ABSENT"

\* The transaction that records a success.  It throws when a row is gone,
\* which the catch takes for a transient failure of the payment.
Settle(w) ==
    /\ pc[w] = "settle"
    /\ IF RowsExist(w)
       THEN /\ runs' = [runs EXCEPT ![tick[w].run].status = "SUCCEEDED"]
            /\ schedule' = [schedule EXCEPT !.status = "ACTIVE",
                               !.retryCount = 0,
                               !.nextRunAt = NextRunAt(tick[w].at)]
            /\ Finish(w)
       ELSE /\ At(w, "record", [tick[w] EXCEPT !.kind = "TRANSIENT"])
            /\ UNCHANGED <<runs, schedule>>
    /\ UNCHANGED <<lastRun, ledgerVars, failures, userVars>>

SettleFails(w) ==
    /\ pc[w] = "settle"
    /\ Fail
    /\ At(w, "record", [tick[w] EXCEPT !.kind = "TRANSIENT"])
    /\ UNCHANGED <<schedule, runs, lastRun, ledgerVars, userVars>>

ShouldRetry(w) == tick[w].kind = "TRANSIENT" /\ tick[w].attempt <= MaxRetries

RunStatusAfter(w) ==
    IF tick[w].kind = "INSUFFICIENT_FUNDS" THEN "INSUFFICIENT_FUNDS"
    ELSE IF ShouldRetry(w) THEN "PENDING" ELSE "FAILED"

NextRunAfter(w) ==
    CASE RunStatusAfter(w) = "INSUFFICIENT_FUNDS" -> tick[w].at + FundsDelay
      [] RunStatusAfter(w) = "PENDING" -> tick[w].at + Backoff
      [] OTHER -> NextRunAt(tick[w].at)

\* The catch: a row that is gone makes the whole tick throw.
RecordFailure(w) ==
    /\ pc[w] = "record"
    /\ IF RowsExist(w)
       THEN /\ runs' = [runs EXCEPT ![tick[w].run].status = RunStatusAfter(w)]
            /\ schedule' = [schedule EXCEPT !.status = "ACTIVE",
                               !.retryCount = IF RunStatusAfter(w) = "FAILED"
                                              THEN 0 ELSE tick[w].attempt,
                               !.nextRunAt = NextRunAfter(w)]
            /\ IF RunStatusAfter(w) = "PENDING"
               THEN Finish(w)
               ELSE At(w, "notify", NoTick)
       ELSE Finish(w) /\ UNCHANGED <<runs, schedule>>
    /\ UNCHANGED <<lastRun, ledgerVars, failures, userVars>>

\* All failed runs the schedule ever had are counted.
NotifyUser(w) ==
    /\ pc[w] = "notify"
    /\ notified' = \/ notified
                    \/ Cardinality(RunsWith({"FAILED", "INSUFFICIENT_FUNDS"}))
                           >= FAILURE_NOTIFICATION_THRESHOLD
    /\ Finish(w)
    /\ UNCHANGED <<schedule, runs, lastRun, ledgerVars, failures, deleting,
                   deletions, now>>

\* The worker process dies: its run stays PROCESSING.
WorkerDies(w) ==
    /\ pc[w] # "idle"
    /\ Fail
    /\ Finish(w)
    /\ UNCHANGED <<schedule, runs, lastRun, ledgerVars, userVars>>

------------------------------------------------------------------------------
(* The user's requests *)

UserSets(status) ==
    /\ schedule.status # "DELETED"
    /\ schedule' = [schedule EXCEPT !.status = status,
                       !.nextRunAt = IF status = "ACTIVE"
                                     THEN NextRunAt(now) ELSE @]
    /\ UNCHANGED <<runs, lastRun, pc, tick, ledgerVars, failures, userVars>>

\* What is paid, and to whom, is not modelled: only a new cron shows.
UpdateSchedule ==
    /\ schedule.status # "DELETED"
    /\ schedule' = [schedule EXCEPT !.nextRunAt = NextRunAt(now)]
    /\ UNCHANGED <<runs, lastRun, pc, tick, ledgerVars, failures, userVars>>

DeleteRuns ==
    /\ schedule.status # "DELETED" /\ ~deleting
    /\ Troubles < MaxTroubles
    /\ deleting' = TRUE
    /\ deletions' = deletions + 1
    /\ runs' = [r \in RunIds |-> [status |-> "ABSENT", attempt |-> 0]]
    /\ UNCHANGED <<schedule, lastRun, pc, tick, ledgerVars, failures, now,
                   notified>>

\* A run created meanwhile still refers to the schedule: the delete fails.
DeleteSchedule ==
    /\ deleting
    /\ deleting' = FALSE
    /\ schedule' = IF RunsWith({"ABSENT"}) = RunIds
                   THEN [schedule EXCEPT !.status = "DELETED"] ELSE schedule
    /\ UNCHANGED <<runs, lastRun, pc, tick, ledgerVars, failures, deletions, now,
                   notified>>

TimePasses ==
    /\ now < MaxTime
    /\ now' = now + 1
    /\ UNCHANGED <<schedule, runs, lastRun, pc, tick, ledgerVars, failures,
                   deleting, deletions, notified>>

------------------------------------------------------------------------------
Step(w) ==
    \/ Tick(w) \/ Claim(w) \/ Pay(w) \/ Settle(w) \/ RecordFailure(w)
    \/ NotifyUser(w)

UserStep ==
    \/ \E s \in {"ACTIVE", "PAUSED", "CANCELLED"} : UserSets(s)
    \/ UpdateSchedule
    \/ DeleteRuns
    \/ DeleteSchedule

Next ==
    \/ \E w \in Workers : Step(w) \/ SettleFails(w) \/ WorkerDies(w)
    \/ UserStep
    \/ TimePasses

Spec == Init /\ [][Next]_vars

\* The cron keeps ticking, an awaited call settles, the clock advances.
Fairness ==
    /\ \A w \in Workers : WF_vars(Step(w))
    /\ WF_vars(TimePasses)

FairSpec == Spec /\ Fairness

------------------------------------------------------------------------------
(* Properties *)

\* While nothing fails and nobody deletes the schedule, there are never more
\* payments than cron occurrences so far: no occurrence is paid twice, the
\* retries of a refused payment and the edits of the owner included.
PaidOncePerOccurrence ==
    failures = 0 /\ deletions = 0 => paid <= now \div CronPeriod

\* What is paid beyond the cron occurrences so far is accounted for: by ticks that
\* began while another was in progress, which pay again, and by crashes, failed
\* writes, lost answers and deletions, each of which costs one payment at most.
PaymentsAreExplained ==
    paid <= now \div CronPeriod + overlaps + failures + deletions

\* A run is recorded SUCCEEDED only if its own payment is on the ledger, whatever
\* overlaps, fails or is deleted.
SucceededIsPaid == RunsWith({"SUCCEEDED"}) \subseteq paidRuns

\* A run waits for a retry only within the configured number of retries.
RequeueIsBounded ==
    \A r \in RunsWith({"PENDING"}) : runs[r].attempt <= MaxRetries

\* A schedule that is due does not stay due: it is run, or stopped, although
\* a worker dies and a deletion takes the rows of a run away.
DueIsServed == []<>(schedule.status # "ACTIVE" \/ schedule.nextRunAt > now)
==============================================================================
