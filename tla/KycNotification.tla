--------------------------- MODULE KycNotification ---------------------------
(***************************************************************************)
(* The KYC status of a customer and the webhooks that tell the partner of  *)
(* it: submissions and the provider's callbacks (backend/src/api/          *)
(* controllers/sep12.controller.ts) change the status; webhook.service.ts  *)
(* delivers each transition under an idempotency key, with a store of the  *)
(* keys delivered (idempotentWebhook.service.ts) and a queue of retries    *)
(* (webhookRetry.queue.ts, workers/webhook.worker.ts).  The partner may    *)
(* refuse any delivery.                                                    *)
(***************************************************************************)
EXTENDS Backend

CONSTANTS
    MaxRetries,     \* config.maxRetries
    JobAttempts,    \* attempts of WEBHOOK_RETRY_JOB_OPTIONS
    MaxRequests     \* bound on submissions, callbacks and deletions

ASSUME KycAssumption ==
    MaxRetries \in Nat /\ JobAttempts \in Nat \ {0} /\ MaxRequests \in Nat

Statuses == {"PENDING", "ACCEPTED", "REJECTED"}
Keys == {k \in Statuses \X Statuses : k[1] # k[2]}
Idle == [at |-> "idle", key |-> <<"PENDING", "PENDING">>, attempt |-> 0]
NoJob == [state |-> "none", made |-> 0]

\* What a request is at, with the transition it tells of and its attempts.
Call == [at : {"idle", "submit", "update", "ask", "post", "mark", "enqueue"},
         key : Statuses \X Statuses, attempt : 0 .. MaxRetries + 1]

\* history: transitions written, webhooks lost to a crash or with the queue,
\* those expired from the queue, and requests so far.
TypeOK ==
    /\ db \in [status : Statuses, deleted : BOOLEAN, delivered : SUBSET Keys,
               jobs : [Keys -> [state : {"none", "waiting", "completed", "failed"},
                                made : 0 .. JobAttempts]]]
    /\ calls \in [Requests -> Call]
    /\ outside \in [received : SUBSET Keys, told : Statuses]
    /\ history \in [written : SUBSET Keys, lost : SUBSET Keys, requests : 0 .. MaxRequests]
    /\ failures \in 0 .. MaxFailures

Init ==
    /\ Running("kyc")
    /\ db = [status |-> "PENDING", deleted |-> FALSE, delivered |-> {},
             jobs |-> [k \in Keys |-> NoJob]]
    /\ calls = [r \in Requests |-> Idle]
    /\ outside = [received |-> {}, told |-> "PENDING"]
    /\ history = [written |-> {}, lost |-> {}, requests |-> 0]

At(r, label) == calls[r].at = label
Goto(r, label) == Goes(r, [calls[r] EXCEPT !.at = label])
Ends(r) == Goes(r, Idle)
Arrives ==
    /\ history.requests < MaxRequests
    /\ history' = [history EXCEPT !.requests = @ + 1]

\* A transition is written: db has it, and its webhook is sent.
Notifies(r, from, to) ==
    /\ Goes(r, [at |-> "ask", key |-> <<from, to>>, attempt |-> 1])
    /\ history' = [history EXCEPT !.written = @ \cup {<<from, to>>}]

------------------------------------------------------------------------------
(* sep12.controller.ts *)

PutCustomer(r) ==
    /\ Step("kyc")
    /\ At(r, "idle")
    /\ Arrives
    /\ db' = [db EXCEPT !.status = "PENDING", !.deleted = FALSE]
    /\ Goto(r, "submit")
    /\ UNCHANGED outside

\* The provider's first answer.
Submitted(r, status) ==
    /\ Step("kyc")
    /\ At(r, "submit")
    /\ db' = [db EXCEPT !.status = status]
    /\ IF status = "PENDING" THEN Ends(r) /\ UNCHANGED history
       ELSE Notifies(r, "PENDING", status)
    /\ UNCHANGED outside

\* The submission fails, or an update: the customer's status stays as it is.
SubmissionFails(r) ==
    /\ Fail("kyc")
    /\ calls[r].at \in {"submit", "update"}
    /\ Ends(r)
    /\ UNCHANGED <<db, outside, history>>

\* handleWebhook, and updateCustomerKycStatus likewise, up to the update
HandleWebhook(r, status) ==
    /\ Step("kyc")
    /\ At(r, "idle")
    /\ ~db.deleted /\ db.status # status
    /\ Arrives
    /\ Goes(r, [at |-> "update", key |-> <<db.status, status>>, attempt |-> 0])
    /\ UNCHANGED <<db, outside>>

Update(r) ==
    /\ Step("kyc")
    /\ At(r, "update")
    /\ db' = [db EXCEPT !.status = calls[r].key[2]]
    /\ Notifies(r, calls[r].key[1], calls[r].key[2])
    /\ UNCHANGED outside

DeleteCustomer ==
    /\ Step("kyc")
    /\ ~db.deleted
    /\ Arrives
    /\ db' = [db EXCEPT !.deleted = TRUE]
    /\ UNCHANGED <<calls, outside>>

------------------------------------------------------------------------------
(* webhook.service.ts *)

\* mutant: a store that cannot be read counts as one that has the key
HasBeenDelivered_Closed(key, readable) == ~readable \/ key \in db.delivered

\* hasBeenDelivered: what cannot be read has not been delivered.
HasBeenDelivered(key, readable) == readable /\ key \in db.delivered

Ask(r, readable) ==
    /\ IF readable THEN Step("kyc") ELSE Fail("kyc")
    /\ At(r, "ask")
    /\ IF HasBeenDelivered(calls[r].key, readable) THEN Ends(r) ELSE Goto(r, "post")
    /\ UNCHANGED <<db, outside, history>>

Receives(key) ==
    outside' = [received |-> outside.received \cup {key}, told |-> key[2]]

Delivered(r) ==
    /\ Step("kyc")
    /\ At(r, "post")
    /\ Receives(calls[r].key)
    /\ Goto(r, "mark")
    /\ UNCHANGED <<db, history>>

\* mutant: the delivery begins again with attempt 1
NextAttempt_Reset(n) == 1

NextAttempt(n) == n + 1

\* The partner answers an error, or not in time though it has it: again after
\* the backoff, or to the queue.  Some errors are not worth an attempt.
Refused(r, retryable, received) ==
    /\ Step("kyc")
    /\ At(r, "post")
    /\ IF received THEN Receives(calls[r].key) ELSE UNCHANGED outside
    /\ IF retryable /\ calls[r].attempt <= MaxRetries
       THEN Goes(r, [calls[r] EXCEPT !.attempt = NextAttempt(@)])
       ELSE Goto(r, "enqueue")
    /\ UNCHANGED <<db, history>>

MarkDelivered(r, written) ==
    /\ IF written THEN Step("kyc") ELSE Fail("kyc")
    /\ At(r, "mark")
    /\ db' = IF written THEN [db EXCEPT !.delivered = @ \cup {calls[r].key}] ELSE db
    /\ Ends(r)
    /\ UNCHANGED <<outside, history>>

\* A job of that id, also a finished one, stays as it is.
EnqueueWebhookRetry(r) ==
    LET key == calls[r].key
    IN  /\ Step("kyc")
        /\ At(r, "enqueue")
        /\ db' = IF db.jobs[key].state # "none" THEN db
                 ELSE [db EXCEPT !.jobs[key].state = "waiting"]
        /\ Ends(r)
        /\ UNCHANGED <<outside, history>>

\* The webhook is gone: its request died or the queue could not be reached.
Lost(r) ==
    /\ Fail("kyc")
    /\ calls[r].at \in {"ask", "post", "enqueue"}
    /\ Ends(r)
    /\ history' = [history EXCEPT !.lost = @ \cup {calls[r].key}]
    /\ UNCHANGED <<db, outside>>

------------------------------------------------------------------------------
(* webhook.worker.ts and what forgets *)

AttemptFails(job) ==
    [state |-> IF job.made + 1 < JobAttempts THEN "waiting" ELSE "failed",
     made |-> job.made + 1]

ProcessJob(key, ok, received) ==
    /\ Step("kyc")
    /\ db.jobs[key].state = "waiting"
    /\ ok => received
    /\ IF received THEN Receives(key) ELSE UNCHANGED outside
    /\ db' = [db EXCEPT !.jobs[key] =
                 IF ok THEN [@ EXCEPT !.state = "completed"] ELSE AttemptFails(@)]
    /\ UNCHANGED <<calls, history>>

\* A day after the delivery
Expires(key) ==
    /\ Step("kyc")
    /\ key \in db.delivered
    /\ db' = [db EXCEPT !.delivered = @ \ {key}]
    /\ UNCHANGED <<calls, outside, history>>

\* removeOnComplete, removeOnFail
JobRemoved(key) ==
    /\ Step("kyc")
    /\ db.jobs[key].state \in {"completed", "failed"}
    /\ db' = [db EXCEPT !.jobs[key] = NoJob]
    /\ history' = [history EXCEPT !.lost =
                      IF db.jobs[key].state = "failed" THEN @ \cup {key} ELSE @]
    /\ UNCHANGED <<calls, outside>>

Delivers(r) ==
    \/ \E b \in BOOLEAN : Ask(r, b) \/ MarkDelivered(r, b)
    \/ Delivered(r) \/ \E b, c \in BOOLEAN : Refused(r, b, c)
    \/ EnqueueWebhookRetry(r)
Proceeds(r) ==
    \/ \E s \in Statuses : Submitted(r, s)
    \/ Update(r) \/ Delivers(r)
Works(key) == \E b, c \in BOOLEAN : ProcessJob(key, b, c)

Next ==
    \/ \E r \in Requests :
           \/ Proceeds(r) \/ PutCustomer(r) \/ SubmissionFails(r) \/ Lost(r)
           \/ \E s \in Statuses : HandleWebhook(r, s)
    \/ DeleteCustomer
    \/ \E k \in Keys : Works(k) \/ Expires(k) \/ JobRemoved(k)

\* Awaited calls settle, and the worker is running.
Fairness ==
    /\ \A r \in Requests : WF_vars(Proceeds(r))
    /\ \A k \in Keys : WF_vars(Works(k))

Spec == Init /\ [][Next]_vars /\ Fairness

------------------------------------------------------------------------------
(* Properties *)

\* No transition that was written goes unaccounted for: the partner has it, a call
\* or a job is at it, or it is known to be lost.  A key that was delivered, marked
\* or queued before stands for the same transition made again.
Accounted ==
    service = "kyc" =>
        \A k \in history.written :
            \/ k \in outside.received \cup history.lost
            \/ \E r \in Requests : calls[r].at \in {"ask", "post", "mark", "enqueue"}
                                   /\ calls[r].key = k
            \/ db.jobs[k].state \in {"waiting", "failed"}

\* A partner that never answers holds nothing up for ever: every delivery ends,
\* in the hands of the partner or of the queue, and so does every job.
DeliveriesEnd ==
    <>[](service = "kyc" =>
            /\ \A r \in Requests : At(r, "idle")
            /\ \A k \in Keys : db.jobs[k].state # "waiting")

\* "Same transaction + transition always yields the same key so partners can safely
\* dedupe retries" (idempotentWebhook.service.ts:18): what is dropped because its
\* key was delivered is a retry, and tells the partner nothing it does not know.
DroppedIsRetry ==
    [][\A r \in Requests :
          /\ At(r, "ask") /\ calls'[r] = Idle
          /\ UNCHANGED failures
          => outside.told = calls[r].key[2]]_vars
==============================================================================
