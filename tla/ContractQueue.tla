---------------------------- MODULE ContractQueue ----------------------------
(***************************************************************************)
(* One transaction submission job of the contract queue: the BullMQ job,   *)
(* the worker that processes it (backend/src/workers/                      *)
(* contract-queue.worker.ts), the contractJob row that follows it through  *)
(* event listeners, and the API requests that add, retry, cancel and clean *)
(* it (backend/src/services/contract-queue.service.ts).                    *)
(*                                                                         *)
(* The listeners start a database update for an event and do not await     *)
(* it: the updates in flight are a bag, and land in any order.  They are   *)
(* updateMany, which changes nothing while there is no row.                *)
(***************************************************************************)
EXTENDS Integers

CONSTANTS
    Requests,       \* API requests that can be in flight together
    MaxAttempts,    \* jobOptions.attempts
    MaxStalls,      \* BullMQ's maxStalledCount (external)
    MaxRequests,    \* bound on retry, cancel and clean requests
    MaxFailures     \* bound on crashes of the worker and of the API

VARIABLES
    job,        \* in BullMQ: its state, failed attempts, stalls and outcome
    row,        \* the contractJob row
    updates,    \* updates in flight, by the status they write
    burying,    \* failed handlers that are adding the job to the dead letters
    deadLetters,
    applied,    \* the job's transaction is on the ledger
    pc,         \* the API requests
    requests, failures

worker == <<burying, deadLetters, applied>>
counters == <<requests, failures>>
vars == <<job, row, updates, worker, pc, counters>>

JobStates == {"absent", "waiting", "submit", "return", "delayed", "completed",
              "failed", "removed"}
Active == {"submit", "return"}              \* the stretches of a processor
Rested == {"completed", "failed", "removed"}
JobStatus == {"PENDING", "ACTIVE", "COMPLETED", "FAILED", "RETRYING"}
Listened == {"ACTIVE", "COMPLETED", "FAILED"}
Outcomes == {"none", "success", "failure"}  \* JobResult.success

NoRow == [status |-> "NONE", result |-> "none", completedAt |-> FALSE]

TypeOK ==
    /\ job \in [state : JobStates, made : Nat, stalls : 0..MaxStalls,
                outcome : Outcomes]
    /\ row \in [status : JobStatus, result : Outcomes, completedAt : BOOLEAN]
                  \cup {NoRow}
    /\ updates \in [Listened -> Nat]
    /\ burying \in Nat /\ deadLetters \in Nat /\ applied \in BOOLEAN
    /\ pc \in [Requests -> {"idle", "createRow", "markRetrying",
                            "markCancelled", "deleteRows"}]
    /\ requests \in 0..MaxRequests /\ failures \in 0..MaxFailures

Init ==
    /\ job = [state |-> "absent", made |-> 0, stalls |-> 0,
              outcome |-> "none"]
    /\ row = NoRow
    /\ updates = [s \in Listened |-> 0]
    /\ burying = 0 /\ deadLetters = 0 /\ applied = FALSE
    /\ pc = [r \in Requests |-> "idle"]
    /\ requests = 0 /\ failures = 0

Emit(status) == updates' = [updates EXCEPT ![status] = @ + 1]
Goto(r, label) == pc' = [pc EXCEPT ![r] = label]
Fail == failures < MaxFailures /\ failures' = failures + 1
Ask == requests < MaxRequests /\ requests' = requests + 1

------------------------------------------------------------------------------
(* The API *)

AddJob(r) ==
    /\ pc[r] = "idle"
    /\ job.state = "absent"
    /\ job' = [job EXCEPT !.state = "waiting"]
    /\ Goto(r, "createRow")
    /\ UNCHANGED <<row, updates, worker, counters>>

CreateRow(r) ==
    /\ pc[r] = "createRow"
    /\ row' = [NoRow EXCEPT !.status = "PENDING"]
    /\ Goto(r, "idle")
    /\ UNCHANGED <<job, updates, worker, counters>>

\* updateMany({ where: { jobId } })
UpdateMany(status) ==
    row' = IF row = NoRow THEN row ELSE [row EXCEPT !.status = status]

\* mutant: the configured attempts are given back
RetryJob_GivesBack(r) ==
    /\ pc[r] = "idle"
    /\ job.state = "failed"
    /\ Ask
    /\ job' = [job EXCEPT !.state = "waiting", !.made = @ - MaxAttempts]
    /\ Goto(r, "markRetrying")
    /\ UNCHANGED <<row, updates, worker, failures>>

\* job.retry() refuses a job that has not failed, and keeps attemptsMade.
RetryJob(r) ==
    /\ pc[r] = "idle"
    /\ job.state = "failed"
    /\ Ask
    /\ job' = [job EXCEPT !.state = "waiting"]
    /\ Goto(r, "markRetrying")
    /\ UNCHANGED <<row, updates, worker, failures>>

MarkRetrying(r) ==
    /\ pc[r] = "markRetrying"
    /\ UpdateMany("RETRYING")
    /\ Goto(r, "idle")
    /\ UNCHANGED <<job, updates, worker, counters>>

\* job.remove() refuses an active job; a job that is not there, or has ended,
\* is cancelled all the same.
CancelJob(r) ==
    /\ pc[r] = "idle"
    /\ job.state \notin Active \cup {"absent"}
    /\ Ask
    /\ job' = [job EXCEPT !.state = "removed"]
    /\ Goto(r, "markCancelled")
    /\ UNCHANGED <<row, updates, worker, failures>>

MarkCancelled(r) ==
    /\ pc[r] = "markCancelled"
    /\ UpdateMany("FAILED")
    /\ Goto(r, "idle")
    /\ UNCHANGED <<job, updates, worker, counters>>

\* cleanOldJobs, of a job that is older than the cutoff
CleanQueue(r) ==
    /\ pc[r] = "idle"
    /\ job.state # "absent"
    /\ Ask
    /\ job' = [job EXCEPT !.state =
                  IF @ \in {"completed", "failed"} THEN "removed" ELSE @]
    /\ Goto(r, "deleteRows")
    /\ UNCHANGED <<row, updates, worker, failures>>

\* Only a row that completed once has a completedAt.
DeleteRows(r) ==
    /\ pc[r] = "deleteRows"
    /\ row' = IF row.status \in {"COMPLETED", "FAILED"} /\ row.completedAt
              THEN NoRow ELSE row
    /\ Goto(r, "idle")
    /\ UNCHANGED <<job, updates, worker, counters>>

\* mutant: the listener of "failed" is a copy of the one of "completed"
UpdateJobInDatabase_Copied(status) ==
    /\ updates[status] > 0
    /\ updates' = [updates EXCEPT ![status] = @ - 1]
    /\ row' = CASE row = NoRow -> row
                [] row # NoRow /\ status = "ACTIVE" ->
                      [row EXCEPT !.status = "ACTIVE"]
                [] OTHER -> [row EXCEPT !.status = "COMPLETED",
                                        !.result = job.outcome,
                                        !.completedAt = TRUE]
    /\ UNCHANGED <<job, worker, pc, counters>>

\* An update that one of the listeners has started reaches the database.
UpdateJobInDatabase(status) ==
    /\ updates[status] > 0
    /\ updates' = [updates EXCEPT ![status] = @ - 1]
    /\ row' = CASE row = NoRow -> row
                [] row # NoRow /\ status = "COMPLETED" ->
                      [row EXCEPT !.status = status, !.result = job.outcome,
                                  !.completedAt = TRUE]
                [] OTHER -> [row EXCEPT !.status = status]
    /\ UNCHANGED <<job, worker, pc, counters>>

\* The API restarts: its requests and updates are gone, and QueueEvents does
\* not replay what it had read.
ApiDies ==
    /\ Fail
    /\ pc' = [r \in Requests |-> "idle"]
    /\ updates' = [s \in Listened |-> 0]
    /\ UNCHANGED <<job, row, worker, requests>>

------------------------------------------------------------------------------
(* The worker *)

TakeJob ==
    /\ job.state = "waiting"
    /\ job' = [job EXCEPT !.state = "submit"]
    /\ Emit("ACTIVE")
    /\ UNCHANGED <<row, worker, pc, counters>>

Submit ==
    /\ job.state = "submit"
    /\ ~applied
    /\ applied' = TRUE
    /\ job' = [job EXCEPT !.state = "return"]
    /\ UNCHANGED <<row, updates, burying, deadLetters, pc, counters>>

Complete(outcome) ==
    /\ job' = [job EXCEPT !.state = "completed", !.outcome = outcome]
    /\ Emit("COMPLETED")
    /\ UNCHANGED burying

Return ==
    /\ job.state = "return"
    /\ Complete("success")
    /\ UNCHANGED <<row, deadLetters, applied, pc, counters>>

\* mutant: the last attempt is not buried
Throw_Unburied ==
    LET made == job.made + 1 IN
    IF made < MaxAttempts
    THEN /\ job' = [job EXCEPT !.state = "delayed", !.made = made]
         /\ UNCHANGED <<updates, burying>>
    ELSE /\ job' = [job EXCEPT !.state = "failed", !.made = made]
         /\ Emit("FAILED")
         /\ burying' = IF made > MaxAttempts THEN burying + 1 ELSE burying

\* The processor throws: BullMQ delays the job for its next attempt, or moves
\* it to failed, and the failed handler buries it.
Throw ==
    LET made == job.made + 1 IN
    IF made < MaxAttempts
    THEN /\ job' = [job EXCEPT !.state = "delayed", !.made = made]
         /\ UNCHANGED <<updates, burying>>
    ELSE /\ job' = [job EXCEPT !.state = "failed", !.made = made]
         /\ Emit("FAILED")
         /\ burying' = burying + 1

\* A call of the processor fails: the submission is refused, or its answer is
\* lost and the transaction may be applied, or the progress cannot be
\* reported.  What isRetryable does not recognise completes the job.
AttemptFails ==
    /\ job.state \in Active
    /\ \E late \in BOOLEAN : applied' = (applied \/ late)
    /\ Throw \/ Complete("failure")
    /\ UNCHANGED <<row, deadLetters, pc, counters>>

\* The backoff of a delayed job is over.
Promote ==
    /\ job.state = "delayed"
    /\ job' = [job EXCEPT !.state = "waiting"]
    /\ UNCHANGED <<row, updates, worker, pc, counters>>

\* The dead letter is added, or the failed handler's catch has logged it.
Bury ==
    /\ burying > 0
    /\ burying' = burying - 1
    /\ \/ /\ deadLetters' = deadLetters + 1
          /\ UNCHANGED failures
       \/ /\ Fail
          /\ UNCHANGED deadLetters
    /\ UNCHANGED <<job, row, updates, applied, pc, requests>>

\* The worker dies.  A stalled job is run again, or failed when it has stalled
\* too often.  That is not an attempt: the next worker's failed handler only
\* buries it when it had used up its attempts before.
WorkerDies ==
    /\ Fail
    /\ \/ /\ job.state \notin Active
          /\ burying' = 0
          /\ UNCHANGED <<job, updates>>
       \/ /\ job.state \in Active /\ job.stalls < MaxStalls
          /\ job' = [job EXCEPT !.state = "waiting", !.stalls = @ + 1]
          /\ burying' = 0
          /\ UNCHANGED updates
       \/ /\ job.state \in Active /\ job.stalls = MaxStalls
          /\ job' = [job EXCEPT !.state = "failed"]
          /\ burying' = IF job.made >= MaxAttempts THEN 1 ELSE 0
          /\ Emit("FAILED")
    /\ UNCHANGED <<row, deadLetters, applied, pc, requests>>

------------------------------------------------------------------------------
Process == TakeJob \/ Submit \/ Return \/ AttemptFails \/ Promote

Request(r) ==
    \/ AddJob(r) \/ CreateRow(r) \/ RetryJob(r) \/ MarkRetrying(r)
    \/ CancelJob(r) \/ MarkCancelled(r) \/ CleanQueue(r) \/ DeleteRows(r)

Next ==
    \/ \E r \in Requests : Request(r)
    \/ \E s \in Listened : UpdateJobInDatabase(s)
    \/ Process \/ Bury
    \/ ApiDies \/ WorkerDies

Spec == Init /\ [][Next]_vars

\* BullMQ hands a waiting job to a worker and wakes up a delayed one, and what
\* the processor awaits settles.
FairSpec == Spec /\ WF_vars(Process)

------------------------------------------------------------------------------
(* Properties *)

\* Whatever order updates, retries, cancellations and crashes come in, a row
\* that says COMPLETED is of a job that completed, and has its result.
CompletedIsTrue ==
    row.status = "COMPLETED" =>
        job.outcome # "none" /\ row.result = job.outcome

\* A success is reported only of a transaction that is on the ledger, even
\* after stalls, retries and lost answers of it.
SuccessIsApplied == "success" \in {job.outcome, row.result} => applied

\* While nothing dies, each failure from the last configured attempt on is
\* buried once: one dead letter for the attempts used up, and one more for
\* each manual retry that fails.
DeadLettered ==
    failures = 0 =>
        deadLetters + burying =
            IF job.made < MaxAttempts THEN 0 ELSE job.made - MaxAttempts + 1

\* A job does not retry for ever: it completes, fails or is removed.
JobRests == <>[](job.state \in Rested \cup {"absent"})

\* No update of the row is on its way.
Quiet ==
    /\ \A s \in Listened : updates[s] = 0
    /\ \A r \in Requests : pc[r] = "idle"

\* TASK_QUEUE: "Job result/error stored in database": when a job has completed
\* and no update of its row is on its way, the row says so.
ResultStored == job.state = "completed" /\ Quiet => row.status = "COMPLETED"
==============================================================================
