---------------------------- MODULE Sep31Payments ----------------------------
(***************************************************************************)
(* SEP-31 payments, some with a firm SEP-38 quote (backend/src/services/   *)
(* sep31.service.ts, sep38.service.ts), the administrator's status updates *)
(* (api/routes/admin.route.ts) and the reconciler of payments stuck in     *)
(* pending_stellar (workers/transaction-reconcile.scheduler.ts).  There is *)
(* one quote.                                                              *)
(***************************************************************************)
EXTENDS Backend

CONSTANT MaxUpdates     \* bound on the administrator's updates

Statuses == {"pending_sender", "pending_stellar", "completed", "error", "refunded"}
NoTransaction == [status |-> "none", submitted |-> FALSE, stale |-> FALSE,
                  quoted |-> FALSE]
Nothing == [tx |-> "none", status |-> "none"]

\* Of a transaction: whether it has a stellarTxId, was updated STALE_AFTER_MS ago,
\* and has the quote.  calls: the requests, the rows the reconciler has still to look at, and
\* the update it is about to make.  outside: the quote's expiry and the ledger.
\* history: the administrator's updates so far.
TypeOK ==
    /\ db \in [quote : {"PENDING", "EXECUTED", "EXPIRED"},
               tx : [Requests -> [status : Statuses \cup {"none"}, submitted : BOOLEAN,
                                  stale : BOOLEAN, quoted : BOOLEAN]]]
    /\ calls \in [create : [Requests -> {"idle", "claim", "quoted", "plain", "ended"}],
                  pending : SUBSET Requests,
                  writing : {Nothing} \cup [tx : Requests, status : Statuses]]
    /\ outside \in [past : BOOLEAN,
                    ledger : [Requests -> {"absent", "successful", "failed"}]]
    /\ history \in 0 .. MaxUpdates
    /\ failures \in 0 .. MaxFailures

Init ==
    /\ Running("sep31")
    /\ db = [quote |-> "PENDING", tx |-> [r \in Requests |-> NoTransaction]]
    /\ calls = [create |-> [r \in Requests |-> "idle"], pending |-> {}, writing |-> Nothing]
    /\ outside = [past |-> FALSE, ledger |-> [r \in Requests |-> "absent"]]
    /\ history = 0

At(r, label) == calls.create[r] = label
Goto(r, label) == calls' = [calls EXCEPT !.create[r] = label]

\* createTransaction up to the look at the quote; a bad quote ends it.
ReadQuote(r) ==
    /\ Step("sep31")
    /\ At(r, "idle")
    /\ Goto(r, IF db.quote = "PENDING" /\ ~outside.past THEN "claim" ELSE "ended")
    /\ UNCHANGED <<db, outside, history>>

WithoutQuote(r) ==
    /\ Step("sep31")
    /\ At(r, "idle")
    /\ Goto(r, "plain")
    /\ UNCHANGED <<db, outside, history>>

\* mutant: the update is of the quote by its id alone
Claimable_ById == TRUE

\* The conditional update; its time is that of the look.
Claimable == db.quote = "PENDING"

Claim(r) ==
    /\ Step("sep31")
    /\ At(r, "claim")
    /\ IF Claimable
       THEN db' = [db EXCEPT !.quote = "EXECUTED"] /\ Goto(r, "quoted")
       ELSE UNCHANGED db /\ Goto(r, "ended")
    /\ UNCHANGED <<outside, history>>

Persist(r) ==
    /\ Step("sep31")
    /\ calls.create[r] \in {"quoted", "plain"}
    /\ db' = [db EXCEPT !.tx[r] = [@ EXCEPT !.status = "pending_sender",
                                            !.quoted = At(r, "quoted")]]
    /\ Goto(r, "ended")
    /\ UNCHANGED <<outside, history>>

CreationFails(r) ==
    /\ Fail("sep31")
    /\ calls.create[r] \in {"claim", "quoted", "plain"}
    /\ Goto(r, "ended")
    /\ UNCHANGED <<db, outside, history>>

Expiring == db.quote = "PENDING"

ExpireStaleQuotes ==
    /\ Step("sep31")
    /\ outside.past /\ Expiring
    /\ db' = [db EXCEPT !.quote = "EXPIRED"]
    /\ UNCHANGED <<calls, outside, history>>

\* updateStatus by an administrator, who gives no message, which an error needs,
\* and perhaps the stellarTxId.
UpdateStatus(r, status, submitted) ==
    /\ Step("sep31")
    /\ db.tx[r].status # "none"
    /\ db' = [db EXCEPT !.tx[r] = [@ EXCEPT !.status = status, !.stale = FALSE,
                                   !.submitted = db.tx[r].submitted \/ submitted]]
    /\ history < MaxUpdates /\ history' = history + 1
    /\ UNCHANGED <<calls, outside>>

\* reconcile, up to its query
Reconcile ==
    /\ Step("sep31")
    /\ calls.pending = {} /\ calls.writing = Nothing
    /\ calls' = [calls EXCEPT !.pending =
           {r \in Requests : db.tx[r].status = "pending_stellar"
                             /\ db.tx[r].submitted /\ db.tx[r].stale}]
    /\ calls'.pending # {}
    /\ UNCHANGED <<db, outside, history>>

\* mutant: a transaction that is not on the ledger ends the run
NotFound_Stops(r) == {}

\* The rows left after one that is not on the ledger yet.
NotFound(r) == calls.pending \ {r}

LookUp(r) ==
    /\ Step("sep31")
    /\ r \in calls.pending /\ calls.writing = Nothing
    /\ calls' = IF outside.ledger[r] = "absent"
                THEN [calls EXCEPT !.pending = NotFound(r)]
                ELSE [calls EXCEPT !.pending = @ \ {r}, !.writing =
                    [tx |-> r, status |-> IF outside.ledger[r] = "successful"
                                          THEN "completed" ELSE "error"]]
    /\ UNCHANGED <<db, outside, history>>

\* The update is of the row by its id, whatever its status is by now.
WriteOutcome ==
    /\ Step("sep31")
    /\ calls.writing # Nothing
    /\ db' = [db EXCEPT !.tx[calls.writing.tx] =
                 [@ EXCEPT !.status = calls.writing.status, !.stale = FALSE]]
    /\ calls' = [calls EXCEPT !.writing = Nothing]
    /\ UNCHANGED <<outside, history>>

\* An error of the look-up or of the update: the next row is taken.
RowFails(r) ==
    /\ Fail("sep31")
    /\ IF calls.writing = Nothing
       THEN /\ r \in calls.pending
            /\ calls' = [calls EXCEPT !.pending = @ \ {r}]
       ELSE /\ r = calls.writing.tx
            /\ calls' = [calls EXCEPT !.writing = Nothing]
    /\ UNCHANGED <<db, outside, history>>

QuoteExpires ==
    /\ Step("sep31")
    /\ ~outside.past
    /\ outside' = [outside EXCEPT !.past = TRUE]
    /\ UNCHANGED <<db, calls, history>>

Applied(r, outcome) ==
    /\ Step("sep31")
    /\ db.tx[r].submitted /\ outside.ledger[r] = "absent"
    /\ outside' = [outside EXCEPT !.ledger[r] = outcome]
    /\ UNCHANGED <<db, calls, history>>

Ages(r) ==
    /\ Step("sep31")
    /\ db.tx[r].status = "pending_stellar" /\ ~db.tx[r].stale
    /\ db' = [db EXCEPT !.tx[r] = [@ EXCEPT !.stale = TRUE]]
    /\ UNCHANGED <<calls, outside, history>>

Next ==
    \/ \E r \in Requests :
           \/ ReadQuote(r) \/ WithoutQuote(r) \/ Claim(r) \/ Persist(r) \/ CreationFails(r)
           \/ \E s \in Statuses \ {"error"}, b \in BOOLEAN : UpdateStatus(r, s, b)
           \/ LookUp(r) \/ RowFails(r) \/ Ages(r)
           \/ \E o \in {"successful", "failed"} : Applied(r, o)
    \/ ExpireStaleQuotes \/ Reconcile \/ WriteOutcome \/ QuoteExpires

\* The scheduler runs every ten minutes, and its calls are answered.
Fairness ==
    /\ WF_vars(Reconcile) /\ WF_vars(\E r \in Requests : LookUp(r))
    /\ WF_vars(WriteOutcome)
    /\ \A r \in Requests : WF_vars(Ages(r))

Spec == Init /\ [][Next]_vars /\ Fairness

------------------------------------------------------------------------------
(* Properties *)

\* However requests, failures and the expiry interleave, a quote prices one
\* payment, and is EXECUTED from then on.
QuoteUsedOnce ==
    LET users == {r \in Requests : db.tx[r].quoted}
    IN  /\ \A p, q \in users : p = q
        /\ users # {} => db.quote = "EXECUTED"

Stuck(r) == db.tx[r].status = "pending_stellar" /\ outside.ledger[r] # "absent"

\* A payment whose transaction is on the ledger does not stay pending_stellar
\* once the administrator leaves it alone, however many others are not there yet.
Reconciled == \A r \in Requests : []<>(service = "sep31" => ~Stuck(r))
==============================================================================
