----------------------------- MODULE MCServices -----------------------------
(***************************************************************************)
(* Services of the backend on small instances.  They share no state here:  *)
(* a behaviour has one service, one of Services, and a run visits what all *)
(* of them can do.  Each property is about the service that the instance   *)
(* before the exclamation mark models; what has none is of KycNotification. *)
(***************************************************************************)
EXTENDS KycNotification, FiniteSets

CONSTANTS
    Services,           \* the services that a run is about
    BreakerCalls, BreakerFailures,
    FailureThreshold, HalfOpenMaxCalls, SuccessThreshold, ResetTimeout,
    IndexerFailures, MaxLedger, EventsIn, BatchSize, Limit, Lookback,
    MaxUpdates,         \* of SEP-31 payments
    Values, None, MaxWrites,                            \* of the cache
    MaxMoves,           \* of the hot wallet's balance
    Uploads, MaxDocuments, MaxRotations,
    MaxAttempts, MaxStalls, QueueFailures,
    Ticks,              \* of the recurring payments, in progress together
    CronPeriod, Backoff, FundsDelay, RecurringRetries, MaxTime, MaxRuns,
    RecurringTroubles

ASSUME BreakerAssumption ==
    BreakerFailures \in Nat /\ HalfOpenMaxCalls \in Nat /\ ResetTimeout \in Nat

ASSUME IndexerAssumption ==
    /\ IndexerFailures \in Nat /\ MaxLedger \in Nat \ {0}
    /\ BatchSize \in Nat \ {0} /\ Lookback \in Nat

ASSUME Sep31Assumption == MaxUpdates \in Nat

ASSUME CacheAssumption == MaxWrites \in Nat

ASSUME WalletAssumption == MaxMoves \in Nat

ASSUME StoreAssumption ==
    "rotation" \notin Uploads /\ MaxDocuments \in Nat \ {0} /\ MaxRotations \in Nat

ASSUME QueueAssumption ==
    MaxAttempts \in Nat \ {0} /\ MaxStalls \in Nat /\ QueueFailures \in Nat

ASSUME RecurringAssumption ==
    /\ CronPeriod \in Nat \ {0} /\ Backoff \in Nat /\ FundsDelay \in Nat
    /\ RecurringRetries \in Nat /\ MaxTime \in Nat /\ MaxRuns \in Nat
    /\ RecurringTroubles \in Nat /\ IsFiniteSet(Ticks)

VARIABLES
    job, row, updates, burying, deadLetters, applied, pc, requests,
                        \* the contract queue's
    schedule, runs, lastRun, position, tick, deleting, deletions, now, paid,
    paidRuns, overlaps, notified        \* the recurring payments'

Breaker == INSTANCE CallBreaker WITH
    Requests <- BreakerCalls, MaxFailures <- BreakerFailures

Indexer == INSTANCE EventIndexer WITH MaxFailures <- IndexerFailures

Sep31 == INSTANCE Sep31Payments

Cache == INSTANCE MultiLevelCache

Wallet == INSTANCE HotWalletMonitor

Store == INSTANCE DocumentStore WITH Requests <- Uploads

Queue == INSTANCE ContractQueue WITH MaxFailures <- QueueFailures

Recurring == INSTANCE RecurringPayments WITH
    pc <- position, Workers <- Ticks, MaxRetries <- RecurringRetries,
    MaxTroubles <- RecurringTroubles

\* Events in the ledgers of the runs.
EventsPerLedger == <<1, 0, 0, 2, 1>>

queueVars == <<job, row, updates, burying, deadLetters, applied, pc, requests>>
recurringVars == <<schedule, runs, lastRun, position, tick, deleting, deletions, now,
    paid, paidRuns, overlaps, notified>>
ownVars == <<db, calls, outside, history>>
servicesVars == <<vars, queueVars, recurringVars>>

Start ==
    \/ Breaker!Init \/ Indexer!Init \/ Init \/ Sep31!Init \/ Cache!Init \/ Wallet!Init
    \/ Store!Init
    \/ /\ service \in {"queue", "recurring"} /\ failures = 0
       /\ db = 0 /\ calls = 0 /\ outside = 0 /\ history = 0

ServicesInit ==
    /\ Start /\ service \in Services
    /\ Queue!Init /\ Recurring!Init

QueueNext ==
    /\ service = "queue" /\ Queue!Next
    /\ UNCHANGED <<service, ownVars, recurringVars>>
RecurringNext ==
    /\ service = "recurring" /\ Recurring!Next
    /\ UNCHANGED <<service, ownVars, queueVars>>

ServicesNext ==
    \/ /\ \/ Breaker!Next \/ Indexer!Next \/ Next \/ Sep31!Next \/ Cache!Next
          \/ Wallet!Next \/ Store!Next
       /\ UNCHANGED <<queueVars, recurringVars>>
    \/ QueueNext \/ RecurringNext

\* The fairness that each service's module states, of the service there is; asking
\* for the service first saves TLC most of the work.
Runs(s, step) == service = s /\ step

ServicesSpec ==
    /\ ServicesInit /\ [][ServicesNext]_servicesVars
    /\ \A r \in BreakerCalls :
           /\ WF_vars(Runs("breaker", Breaker!Execute(r)))
           /\ WF_vars(Runs("breaker", Breaker!OnSuccess(r) \/ Breaker!OnFailure(r)))
    /\ WF_vars(Runs("breaker", Breaker!TimePasses))
    /\ WF_vars(Runs("indexer", Indexer!Begin \/ Indexer!UpToDate))
    /\ WF_vars(Runs("indexer", Indexer!Fetch))
    /\ WF_vars(Runs("indexer", Indexer!CommitLastIndexedLedger))
    /\ WF_vars(Runs("indexer", \E e \in Indexer!AllEvents : Indexer!ProcessEvent(e)))
    /\ \A r \in Requests : WF_vars(Runs("kyc", Proceeds(r)))
    /\ \A k \in Keys : WF_vars(Runs("kyc", Works(k)))
    /\ WF_vars(Runs("sep31", Sep31!Reconcile))
    /\ WF_vars(Runs("sep31", \E r \in Requests : Sep31!LookUp(r)))
    /\ WF_vars(Runs("sep31", Sep31!WriteOutcome))
    /\ \A r \in Requests :
           /\ WF_vars(Runs("sep31", Sep31!Ages(r)))
           /\ WF_vars(Runs("cache", Cache!Proceeds(r)))
           /\ WF_vars(Runs("cache", Cache!HandleInvalidationMessage(r)))
           /\ WF_vars(Runs("cache", \E gone \in BOOLEAN : Cache!L1Expires(r, gone)))
           /\ WF_vars(Runs("wallet", Wallet!CheckWallet(r)))
           /\ WF_vars(Runs("wallet", Wallet!Proceeds(r)))
    /\ WF_vars(Runs("cache", Cache!L2Expires))
    /\ WF_vars(Runs("wallet", Wallet!CooldownExpires))
    /\ WF_queueVars(Runs("queue", Queue!Process))
    /\ \A w \in Ticks : WF_recurringVars(Runs("recurring", Recurring!Step(w)))
    /\ WF_recurringVars(Runs("recurring", Recurring!TimePasses))

------------------------------------------------------------------------------
(* Properties *)

\* Every module's type invariant.
ServicesTypeOK ==
    /\ service = "breaker" => Breaker!TypeOK
    /\ service = "indexer" => Indexer!TypeOK
    /\ service = "kyc" => TypeOK
    /\ service = "sep31" => Sep31!TypeOK
    /\ service = "cache" => Cache!TypeOK
    /\ service = "wallet" => Wallet!TypeOK
    /\ service = "documents" => Store!TypeOK
    /\ service = "queue" => Queue!TypeOK
    /\ service = "recurring" => Recurring!TypeOK

\* From opening to opening a half-open breaker lets no more than halfOpenMaxCalls
\* probes through, whichever older calls end meanwhile.
ProbesAreFew == service = "breaker" => Breaker!ProbesAreFew

\* Once the dependency no longer fails the breaker closes, and stays closed: late
\* answers of older calls leave it no half-open state in which every call is
\* rejected.
Recovers == Breaker!Recovers

\* Errors, crashes and restarts in between lose nothing.  Every event that the
\* indexer's cursor has passed is stored.  Every document that was accepted is there,
\* whole and encrypted, none that was refused stays readable unless its removal failed,
\* and a rotation that ends has encrypted all there was: all of it while uploads go on
\* beside it, and but for the documents that it read while they were still being received.
CleanIsComplete ==
    /\ service = "indexer" => Indexer!CleanIsComplete
    /\ service = "documents" =>
           Store!AcceptedIsWhole /\ Store!NothingPlainStays /\ Store!PassIsComplete

\* Through ledgers without events, failures and restarts, the indexer's cursor
\* reaches the tip.
CatchesUp == Indexer!CatchesUp

\* However requests, failures and the expiry interleave, a quote prices one SEP-31
\* payment, and is EXECUTED from then on.
QuoteUsedOnce == service = "sep31" => Sep31!QuoteUsedOnce

\* A SEP-31 payment whose transaction is on the ledger does not stay pending_stellar
\* once the administrator leaves it alone, however many others are not there yet.
Reconciled == Sep31!Reconciled

\* Once writes stop, no cache keeps an old value, or one that was never written,
\* for ever: not through fetches that were overtaken by a write, copies from L2 to
\* L1, lost messages or a write that fails after it was cached.
Converges == Cache!Converges

\* A wallet's balance that stays low is told of in the end, whatever check, cooldown or
\* failure came in between: an alert that no channel delivered is made again after the
\* cooldown.  One that has recovered for good gets its all-clear, which may only be
\* lost to checks that overlap or fail, or to the notification of it.
AlertsAreTrue == Wallet!LowIsTold /\ Wallet!RecoveryIsTold

\* Whatever stalls, overlaps, fails, is retried, cancelled or deleted, the rows say
\* nothing that did not happen: a contractJob row COMPLETED is of a job that completed
\* and has its result, that success is of a transaction on the ledger, and so is
\* the payment of a recurring run SUCCEEDED.
ReportsAreTrue ==
    /\ Queue!CompletedIsTrue /\ Queue!SuccessIsApplied
    /\ Recurring!SucceededIsPaid

\* While nothing dies, each failure from the last configured attempt on is buried
\* once: one dead letter for the attempts used up, and one more for each manual
\* retry that fails.
DeadLettered == Queue!DeadLettered

\* A partner that never answers, or a transaction that never succeeds, holds nothing
\* up for ever: every KYC webhook ends with the partner or in the retry queue, every
\* job there ends, and so does the contract queue's.
QueuesDrain ==
    /\ DeliveriesEnd
    /\ <>[](service = "queue" => job.state \in Queue!Rested \cup {"absent"})

\* Whatever is paid on a recurring schedule beyond the cron occurrences so far is paid
\* for a reason: a tick that began while another was in progress, a crash, a failed
\* write, a lost answer or a deletion, each of which costs one payment at most.  A
\* run is tried again only as often as configured, since a lost answer makes each
\* retry a payment.
PaymentsAreExplained ==
    service = "recurring" =>
        Recurring!PaymentsAreExplained /\ Recurring!RequeueIsBounded

\* A schedule that is due does not stay due: it is run, or stopped, although a
\* worker dies and a deletion takes the rows of a run away.
DueIsServed == []<>(service = "recurring" =>
                        schedule.status # "ACTIVE" \/ schedule.nextRunAt > now)

------------------------------------------------------------------------------
(* What a comment says and the code does not do *)

\* sep12.route.ts:123, see DocumentStore.
NothingUnencryptedIsRetained == service = "documents" => Store!NothingUnencryptedIsRetained
==============================================================================
