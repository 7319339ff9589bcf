# A verification development of AnchorPoint

TLA+ models, TLC runs and TLAPS proofs for the parts of AnchorPoint in which
money or access moves and several things happen at once: the multisig
coordinator, the recurring and batch payments, the contract job queue, seven
more services of the backend, and the Soroban contracts. Paths below are
relative to the repository.

    tlasany M.tla                              parse a module
    tlc -workers 2 -config X.cfg M             a run (§3 pairs X and M)
    tlapm M.tla                                check the proofs of a module (§5)

Seven findings come out of it; they are listed in §4. `PROJECT.json` maps every
definition that models code to its lines, and lists the components, the hazards
with the properties about them, the runs, the theorems, and for each property a
mutant: a definition named `X_Something` is `X` with a plausible bug, used by no
specification, under which the property fails.

## 1. Inventory

AnchorPoint is a Stellar anchor: a Node backend (`backend/src`, Express, Prisma
on PostgreSQL, Redis, BullMQ), a set of Soroban contracts (`src/*`,
`contracts/*`), a React dashboard and deployment material.

| component | state it keeps | operations | what is hard |
|---|---|---|---|
| **Multisig coordinator** `services/multisig.service.ts`, `workers/multisig-reconcile.scheduler.ts` | the `multisigTransaction` row (status, threshold, count, envelope), its signature and notification rows | create, addSignature, updateThreshold, reconcile, expire, submit, notify | every `await` lets other requests in; updates are unconditional and computed from earlier reads; Horizon's answer may be lost |
| **Recurring payments** `services/recurring-payments.service.ts`, its worker | schedule row, run rows | create, pause/resume/cancel, edit, delete, the minute tick (find, claim, pay, record, notify) | ticks overlap; a payment cannot be undone when recording it fails; retries against occurrences |
| **Batch payments and sequence numbers** `services/batch-payment.service.ts`, `services/sequence-number.service.ts` | Redis lock and counter per account, the account's sequence number on the ledger | executeBatch(InChunks), fetch, lock, next, submit, reset, release | the lock expires; the counter expires or is reset; Horizon times out; other users of the account |
| **Contract job queue** `services/contract-queue.service.ts`, `workers/contract-queue.worker.ts` | `contractJob` rows beside BullMQ jobs, dead letters | addJob, retry, cancel, clean, event listeners; process, fail, bury | two stores without a transaction; unawaited, unordered updates; stalls and lost answers |
| **Call circuit breaker** `services/circuit-breaker.service.ts` | state and counters per dependency | execute, forceOpen, forceClose | calls in flight across a change of state |
| **Event indexing** `services/event-indexer.service.ts` | stored events, a cursor in memory | poll: fetch, store concurrently, commit | half-stored batches, restarts, empty ranges |
| **KYC status and its webhooks** `controllers/sep12.controller.ts`, `services/webhook.service.ts`, `idempotentWebhook.service.ts`, `webhookRetry.queue.ts`, `workers/webhook.worker.ts` | the customer's status, delivered keys (Redis, 24 h), retry jobs | submit, provider's callback, delete; ask, post, mark, enqueue, retry | duplicates, repeats of a transition, lost answers |
| **SEP-31 payments and SEP-38 quotes** `services/sep31.service.ts`, `sep38.service.ts`, `workers/transaction-reconcile.scheduler.ts` | transactions, quotes | create with a quote, claim, expire, administrator's update, reconcile | two payments on one quote; writers of one status |
| **Multi-level cache** `services/advanced-cache.service.ts` | L1 per process, L2 in Redis | get, revalidate, write through and behind, invalidate | fetches overtaken by writes; lost messages |
| **Hot wallet monitoring** `services/hot-wallet-monitor.service.ts` | cooldown and breach keys in Redis | check, alert, all-clear | overlapping checks, cooldown against recovery |
| **Documents and key rotation** `routes/sep12.route.ts`, `services/upload-store.service.ts`, `key-rotation.service.ts`, `lib/key-management.service.ts` | the KYC files on disk, the version of Vault's key | receive, validate, encrypt; rotate, encrypt all again | two processes write the same directory; crashes between its steps |
| **Timelocked escrow** `src/escrow_timelock` | details, settled/cancelled flags, recovery proposal | initialize, claim, refund, cancel, recovery procedure | order of calls around two deadlines; stray deposits |
| **24 other contracts** (§2) | instance storage, tokens held | one atomic call at a time | order of calls, time locks, quorums, arithmetic |
| SEP-10 and SEP-24, administrative proposals, relayer, fees, prices, notification, administration, HTTP API, dashboard, tools | little, or single statements | | not modelled, see §7 |

How they interact: the HTTP routes call the services; the schedulers call the
same services from cron, so the same row is written by requests and jobs; the
recurring payments call the batch payment service; multisig, batch and relayer
submit to Horizon, whose answer may come late or never; several services use the
webhooks' store and queue. Between backend processes state is shared through
PostgreSQL, Redis and the upload directory only. A Soroban call is atomic: it
succeeds as a whole or changes nothing; contracts meet only by calling each other,
mostly a token, the security registry or an oracle.

What makes each component correct: a payment is made at most once, and only when
enough people or the clock allow it; a contract holds what it owes, and nobody
gets another's share; what is reported (row, notification, result) is what
happened; something due is eventually done, and caches and cursors come to the
truth.

## 2. Modules

| module | models |
|---|---|
| `MultisigPromise` | what the coordinator promises the signers of one transaction |
| `MultisigCoordination`, `MultisigCoordination_proofs` | the coordinator, one action per stretch between two awaits (`INSTANCE MultisigPromise`), and theorems about both |
| `RecurringPayments` | one schedule, its owner and the ticks that run it |
| `BatchPayments` | requests of several workers on one account, lock, counter, ledger, and the theorems about them |
| `ContractQueue` | one submission job in BullMQ, its row, its worker, the API requests |
| `Backend` | what the backend's services have in common: `service`, `db`, `calls`, `outside`, `history`, `failures` |
| `CallBreaker`, `EventIndexer`, `KycNotification`, `Sep31Payments`, `MultiLevelCache`, `HotWalletMonitor`, `DocumentStore` | a service each, over `Backend` |
| `MCServices`, `MCServices_proofs` | instances of these seven, of `ContractQueue` and of `RecurringPayments`, with ASSUMEs on their parameters, and the theorems about all nine |
| `Soroban` | what the contracts have in common: `contract`, `store`, `held`, `now`, `history`, and their parameters |
| `EscrowTimelock` | the timelocked escrow |
| `Vesting`, `EscrowMultisig` | grants; m-of-n release |
| `Proxy`, `Upgradeable`, `SecurityRegistry`, `CircuitBreaker` | how code and administrators change, and how the protocol is paused |
| `Governance`, `Random` | quadratic voting; commit-reveal draws |
| `Staking`, `SnapshotStaking`, `MultiTokenStaking`, `YieldFarming`, `YieldDistribution`, `RevenueDistributor` | stakes, rewards and their shares |
| `AMM`, `ConcentratedSwap`, `FlashLoan` | exchange and lending |
| `Token`, `XLMWrapper`, `NftMetadata`, `Bridge` | tokens |
| `OracleMedianizer`, `OracleConsumer`, `ContractRegistry` | prices and addresses |
| `TimelockedChange` | what a time lock promises, whoever keeps it |
| `MCContracts`, `MCContracts_proofs`, `MCContracts_fairness_proofs` | an instance of every contract, with ASSUMEs on their parameters, and the theorems about them, those on shares and votes in the last |

### MultisigCoordination

`row` is the `multisigTransaction` row, `signatures` the signers with a signature
row, `notified` the types of the notification rows. An envelope is a set of decorated signatures, each with the hint of a signer's
key and valid or not. `wallets` holds who has signed the transaction at all; who has
can put a valid signature into an upload, and anybody one that only bears the hint of
a signer in `Faulty`. The code looks at the hint alone (`Signs`), so either is stored,
counted and makes the row READY; the network looks at the signature (`Authorized`). That is why
`MultisigPromise` keeps apart what the service has taken and who has signed: a payment
needs the quorum of the first and the account's own number of the second. A request `p` is at
`pc[p]`, and `loc[p]` holds what it read before an await and uses after it:
addSignature keeps the envelope of its first read (`base`) while count and
threshold come from its second read, which is what `multisig_lost_signature`
is about. An invalid upload is rejected before anything changes and is not an
action. `ledger` goes from open to queued to applied. Horizon's answer is success,
refusal, or lost while the transaction may still be applied. `RequestDies` is a
crash of the process, or an exception outside a `try`, at any await.

### RecurringPayments

Time counts in units; the cron fires at multiples of `CronPeriod`. A tick
is find (`Tick`), the claiming transaction (`Claim`), the payment (`Pay`),
recording (`Settle`, or `RecordFailure` after the catch) and `NotifyUser`; several
may be in progress, since nothing keeps the next from starting. The
owner's operations are `UserSets`, `UpdateSchedule` and the two statements of
deleteSchedule. A lost answer is an applied payment reported as TRANSIENT. Two
ghosts: `paidRuns`, the runs whose payments are on the ledger, and `overlaps`, how many
ticks began beside another. An occurrence *is* paid more than once by overlapping ticks
(finding 3), and after crashes, lost answers, failed writes and deletions;
`PaymentsAreExplained` says that it is paid no oftener than that, one payment each.

### BatchPayments

Each worker runs one request of `Chunks` chunks. A submission carries
`base + offset + 1`: the base was read before the lock was taken, the offset
comes from the Redis counter, and the last one is added by the SDK's
TransactionBuilder. The ledger applies a transaction only when it carries the
next sequence number; one whose answer was lost waits in `pending` and may be
applied later. `OtherTransaction` is any other use of the account, without which
no submission on a fresh account would land (see the finding).

### ContractQueue

`job` is what BullMQ knows (state, failed attempts, stalls, outcome), `row` the
`contractJob` row, and `updates` the bag of listener updates that have started
and not reached the database: nothing orders them, and while there is no row they
change nothing. An API request is two steps, the call of BullMQ and the write of
the row; `getJob` and the `remove` or `retry` behind it are one step, which
BullMQ's own script checks again. The processor is modelled by the two stretches
of a transaction submission (`Submit`, `Return`), which any error may end
(`AttemptFails`): BullMQ then delays or fails the job, and what `isRetryable` does
not recognise completes it with `success: false`. `ApiDies` and `WorkerDies` are
crashes: the first drops requests and updates, the second stalls the job.
BullMQ itself (`Complete`, `Promote`, stalls) is external, modelled from how the
code configures and uses it.

### The services over Backend

A step is what a call does from one await to the next. `db` is what the service
stores, `calls[r]` where a call in flight is and what it holds from earlier reads,
`outside` whom the service talks to, and `history` a ghost that properties compare
with. `Step(s)` is a step of service `s` in which nothing fails, `Fail(s)` one in
which a write, a call or a process does, at most `MaxFailures` times.

* `CallBreaker`: `Execute` admits a call or rejects it, `OnSuccess` and `OnFailure`
  are where it ends, in whatever state the breaker is by then.
* `EventIndexer`: a round is `Begin`, `Fetch`, one `ProcessEvent` per event in any
  order, `CommitLastIndexedLedger`; `Restart` loses the cursor, which
  `ResolveStartLedger` finds again from the newest stored event.
* `KycNotification`: `PutCustomer` and `HandleWebhook` read, `Submitted` and `Update`
  write unconditionally; a delivery asks the store (`Ask`), posts (`Delivered`,
  `Refused`, `NextAttempt`), marks and at last enqueues; the queue's job has its
  own attempts. The key's time to live is `Expires`.
* `Sep31Payments`: `ReadQuote`, the conditional `Claim`, `Persist`; the administrator's
  update; the reconciler, which reads a page of rows (`Reconcile`), looks each up on
  the ledger and writes without looking again.
* `MultiLevelCache`: one key; each process is at one call or at what that call goes on
  with in the background. Times to live are steps of their own.
* `HotWalletMonitor`: a check reads the balance, then the cooldown or the breach, sends,
  and writes keys, each an await apart. `SendFails` is an alert that no channel takes, of
  which the check hears nothing: it writes the same keys as if somebody had been told.
* `DocumentStore`: a file has its whole text or the part that was there when it was
  read, and a form: plain, or encrypted under a version of the key. An upload receives,
  validates and encrypts its documents one after another; the rotation lists the
  directory once and then reads, wraps, writes and renames entry by entry. `writeFileAtomic`
  is its three steps, and its temporary files are listed as documents, as in the code. The
  documents of an upload that is refused are removed but for any that cannot be, which the
  code swallows (`Unlinked`, `history.kept`).

### The contracts over Soroban

`store` is a record with a field per `DataKey`, or per part of one, `held` the tokens
the contract holds, `now` the ledger's clock. An entry point is one action of
whoever must authorise it; its panics are the negation of its guard. Where the code
compares addresses, the caller is a parameter. The token contract is assumed to
transfer what it is asked, except in `AMM`, where a token may take a fee, and
`FlashLoan`, where the borrower's callback does as it likes. Fixed-point numbers are
integers of small width, divided as the code divides them.

`initialize` is an action like the others, and what can be called before it is: it
then resets what the code resets (a tripped breaker, the governance's counter of
proposals, the total of the snapshots' stakes), which the ghosts `early` and
`forgotten` remember. `Staking` has two clocks, as the code has: locks are agreed to
in seconds and counted in ledgers, at five seconds each, and ledgers close when the network
closes them (`LedgerCloses`, with `CloseTimes`).

`EscrowTimelock` has its own variables, on which its proofs rest. Anyone may send
it tokens (`Deposit`) at any time. `proposal` and `keySince` are ghosts that record
when the last proposal was made and by which key, for `ChangeHasWaited`.

`TimelockedChange` is an abstract specification: a value changes only to what has been
proposed, in the open, for the whole delay, and a new proposal or a withdrawal undoes
the earlier one. `UpgradesAreTimelocked` shows that the proxy implements it twice,
for the implementation it forwards to and for its own code.

The contracts share no state and neither do the services, so one run can visit
many: `contract` or `service` is chosen in the initial state, the state space is the
sum of theirs, and a property is the conjunction of those that the modules state
about their own part, under `service = "..." =>`. The modules' properties are:

| property of a run | is the conjunction of |
|---|---|
| `CleanIsComplete` | `EventIndexer!CleanIsComplete`; `DocumentStore!AcceptedIsWhole`, `NothingPlainStays`, `PassIsComplete` |
| `ReportsAreTrue` | `ContractQueue!CompletedIsTrue`, `SuccessIsApplied`; `RecurringPayments!SucceededIsPaid` |
| `PaymentsAreExplained` | `RecurringPayments!PaymentsAreExplained`, `RequeueIsBounded` |
| `QueuesDrain` | `KycNotification!DeliveriesEnd`, and the contract queue's job comes to rest |
| `AlertsAreTrue` | `HotWalletMonitor!LowIsTold`, `RecoveryIsTold` |
| `OwedIsHeld` | `Vesting!Solvent`, `MultiTokenStaking!Covered`, `Token!SupplyIsHeld`, `XLMWrapper!Redeemable`, `AMM!SharesAddUp`, `ReservesAreHeld`; `FlashLoan!FeesAreEarned` |
| `SharesAreFair` | `Vesting!ClaimedIsVested`, `SnapshotStaking!SharesAreOfTheEpoch`, `YieldDistribution!PaidFromOwnTime`, `YieldFarming!EmissionIsExact`, `Staking!LockIsServed`, `RevenueDistributor!PassIsComplete` |
| `CountedOnce` | `Governance!TallyIsVotes`, `VotesArePaid`, `MaxVotesIsRoot`; `Token!SpentWithinApproval`; `NftMetadata!ApprovalsEndWithOwnership` |
| `BlindAndRobust` | `Random!SecretsWereBlind`, `OracleMedianizer!MedianIsRobust`, `OracleConsumer!TwapIsAverage` |
| `ChangesAreAuthorised` | the steps of `Proxy`, `Upgradeable`, `SecurityRegistry`, `EscrowMultisig` and `NftMetadata` that need somebody's consent |
| `NothingBeforeItsTime` | `CircuitBreaker!ReopensInTimeStep`, `CooldownHoldsStep`; `Bridge!NotReplayedStep`, `EmergencyAfterSilenceStep` |
| `NothingIsTakenBack` | `Vesting!VestedStaysStep`, `Governance!DecidedStaysStep`, `MultiTokenStaking!EarnedStaysStep` |
| `RoundingKeepsThePool` | `AMM!ShareValueNeverFallsStep`, `ConcentratedSwap!CurveIsKeptStep`, `YieldFarming!VaultShareNeverFallsStep` |

## 3. Runs

| run | module | instance | states | shows |
|---|---|---|---|---|
| `multisig_safety` | MultisigCoordination | 2 signers, one of whose signatures can be feigned, 2 requests (one also the scheduler), 1 threshold change, 1 failure | 4.3 M | no interleaving lets the row claim, become READY, submit or report SUBMITTED without cause; `KeepsPromise`: it implements `MultisigPromise` |
| `multisig_repair` | MultisigCoordination | 2 signers, 1 request + scheduler, fair | 486 k | serial signing loses nothing; the scheduler repairs drift for good |
| `batch` | BatchPayments | 2 workers x 2 chunks, 2 attempts, 2 other transactions, 1 failure, 1 expiry, fair | 1.5 M | results match the ledger; one submitter under the lock; every request ends |
| `services` | MCServices | nine services, 1 to 3 calls each, 1 to 4 failures, fair | 960 k | what each service reports, keeps and comes to, see the properties |
| `contracts` | MCContracts | 25 contracts, 3 interchangeable addresses, clocks of 1 to 4, a few tokens | 1.3 M | what each contract owes, keeps closed, counts and lets change |
| `multisig_lost_signature` | MultisigCoordination | 2 signers at once | violation | finding 1 |
| `multisig_failed_but_paid` | MultisigCoordination | 1 request beside the scheduler, no failure | violation | finding 2 |
| `recurring_double_tick` | RecurringPayments | 2 ticks that overlap, no failure | violation | finding 3 |
| `batch_first_submission` | BatchPayments | 1 worker alone | violation | finding 4 |
| `queue_stale_row` | ContractQueue | 1 job nobody touches | violation | finding 5 |
| `contracts_same_approver` | MCContracts | the proxy alone | violation | finding 6 |
| `kyc_dropped_webhook` | MCServices | 1 customer, no failure | violation | finding 7 |

The properties of a run are stated in its module (or in the module that it
instances), each under a comment that says what it is about.

**Bounds.** Two signers and two overlapping requests are the least with which one
request's read goes stale under another; the theorems lift the safety properties
to any number. One failure puts a crash or a lost answer at every step of one
request while the others go on; one threshold change is enough for a threshold
to be stale. One signer of `Faulty` makes up a quorum with a signature that does not
verify beside one that does. Two workers with two attempts meet at the lock in every order, and two
other transactions cover both sides of the base's read. The bounds sit in guards
and are the constants named `Max...`.

In `services`: three calls are in flight at the breaker, one more than it admits when
half open, with a threshold of two. Five ledgers, two of them without events, in
batches of two make the indexer fetch an empty batch, a full one and the tip, and three
failures hit fetch, write and commit of one round. A key of the KYC webhooks is made
twice, so that a mark can be its own or an earlier transition's. Two SEP-31 payments
want the one quote. Two processes share a cached key with two values. Two checks of a
wallet overlap while it moves three times. A job with two attempts and one stall fails,
is delayed and stalls before it is buried, and two requests retry, cancel or clean it
around that. Two ticks, two cron periods and five runs let an occurrence be retried, skipped, paid
beside an overlapping tick and followed by the next; one trouble (`RecurringTroubles`) is
such a tick, or a crash, a lost answer, a failed write or a deletion, at any step. An upload of two documents is at one while the other is encrypted,
and two rotations let the second find what the first left behind.

In `contracts`: three addresses are an admin and two users, two of whom can be the same
side of a deal; a clock of one more than the time lock lets a proposal mature before, at
and after it; token amounts are the least for which the contract's divisions round (an
AMM of six tokens with a minimum liquidity of one, a curve over three ticks). A ledger takes two units of the clock, or one or three
(`CloseTimes`), which makes a lock's two clocks disagree. Proposals are created before and after `initialize`. Symmetry
of the addresses is sound there since all properties of the run are safety properties,
and no address is named in a definition.

`CHECK_DEADLOCK FALSE` in every run because all these systems may stop: transactions,
requests and uploads end, and clocks are bounded.

**Fairness.** Only what the code's scheduling gives. A request whose await has settled is
resumed by Node's event loop (`WF` of `Continue`, `Step`, `Proceeds`, of the breaker's
`Execute` and of the end of an admitted call). Cron and timers keep calling the
schedulers, the indexer's poll, the reconciler and the wallet's checks (`WF` of
`ReconcileTransaction`, of `Step`, which includes `Tick`, of `Begin`, `Reconcile`,
`CheckWallet`). BullMQ hands out waiting jobs and wakes up delayed ones, and what a
processor awaits settles (`WF` of `Process`, `Works`). Clocks advance and times to live
run out (`TimePasses`, `Ages`, `L1Expires`, `L2Expires`, `CooldownExpires`). A message
that Redis has published reaches a subscriber or is lost. Nothing is assumed of users,
partners, crashes, the network's content or the order of calls; the document store has
safety properties only.

## 4. Findings

1. `multisig.service.ts:386` merges the upload into the envelope of the *first*
   read, so of two overlapping signers one signature is lost from the envelope
   while both are counted (`multisig_lost_signature`).
2. `multisig.service.ts:706` writes FAILED after any error, including a timeout
   of a submission that was applied (`multisig_failed_but_paid`).
3. `recurring-payments.service.ts:486` does not exclude a run that is
   PROCESSING, so a tick that starts while the previous one is paying pays the
   occurrence a second time (`recurring_double_tick`).
4. `sequence-number.service.ts:100` and the TransactionBuilder both add one, so
   the first submission on a fresh account carries a sequence number one too
   high (`batch_first_submission`).
5. `contract-queue.service.ts:79` queues the job before its row exists, and the
   listeners do not await or order their updates, so the row of a completed job
   can say PENDING or ACTIVE for good (`queue_stale_row`).
6. `src/proxy/lib.rs:336` counts approvals and not approvers, so one approver makes up
   the "2-of-N" alone (`contracts_same_approver`).
7. `idempotentWebhook.service.ts:28` tells transitions apart and not their repetitions,
   so a customer accepted for the second time within a day is reported to the partner
   as rejected still (`kyc_dropped_webhook`).

### Also contradicted

More statements of the repository that the models refute. They have no run of their own;
each of the properties named fails within half a minute when it takes the place of the properties in
the cfg given (`-config`, with the module §3 pairs with it).

| statement | property, cfg | what the code does |
|---|---|---|
| `backend/docs/MULTISIG_COORDINATION.md:17` "Validate signatures against required signers" | `SignaturesAreValidated`, `multisig_safety.cfg` | `multisig.service.ts:745` compares the hint of a signature and verifies nothing: one that does not verify is stored, counted, and makes the row READY |
| `MULTISIG_COORDINATION.md:83` "Transaction expired before reaching threshold" | `ExpiredBeforeThreshold`, `multisig_safety.cfg` | `multisig.service.ts:499` marks READY rows EXPIRED as well |
| `sep12.route.ts:123` "Plain-text files are removed if encryption fails so nothing unencrypted is retained" | `NothingUnencryptedIsRetained`, `services.cfg` | the removal swallows its error (:138), and nothing tries again |
| `src/amm/lib.rs:124` "Measure each transfer so fee-on-transfer tokens cannot inflate reserves" | `ReservesAreNotInflated`, `contracts.cfg` | `deposit` measures, `swap` books what was sent (:276) |
| `src/staking/lib.rs:19` "Total tokens staked across every user" | `TotalIsSum`, `contracts.cfg` | `emergency_withdraw` leaves the total as it was |
| `src/staking/snapshot.rs:215` "User's balance as it was recorded at `epoch`", "the most recent checkpoint written at or before `epoch`" | `BalanceAtIsRecorded`, `contracts.cfg` | of an epoch without a checkpoint of its own, before the user's last call, it answers 0 (:321), whatever an earlier checkpoint says |
| `src/random/lib.rs:340` "hashing all revealed secrets" | `SeedHashesAll`, `contracts.cfg` | the admin passes the participants whose secrets count, after all are out (:406) |
| `src/upgradeable/lib.rs:431` "Requires 3 out of 5 approvals to execute" | `ReplacedByQuorum`, `contracts.cfg` | one administrator replaces another alone; the quorum of `ChangesAreAuthorised` is of whoever the administrators then are |

And some that a property which holds, or a guard, shows to be wrong:

* `src/bridge/src/lib.rs:372`: emergency mode "Can be called by admin or automatically after
  72h of inactivity". `EmergencyAfterSilenceStep` holds for the admin too: what is read as the
  admin's address is the relayer's key, and the call traps.
* `contracts/yield/src/lib.rs:106`: rewards deposited while nobody stakes "will be claimable
  once the first stake occurs". `PaidFromOwnTime`: who stakes after a deposit has nothing of
  it, and nobody else has.
* `src/oracle_medianizer/lib.rs:7`: "Outlier rejection (discarding values > 2 standard
  deviations)", and :279, "collects price inputs from N registered oracle sources". There is
  no standard deviation; with five prices or more the two extreme ones go (`Median`), and the
  caller lists the sources, one of them twice if he likes (`PricesOf`). `MedianIsRobust` is
  about the prices listed.
* `src/staking/snapshot.rs:76`: initialize "Must be called once before any other function".
  Nothing checks it: stakes made before it are forgotten in the total (`history.forgotten`).

### What the models show besides

Behaviour that is in the models, is excluded from a property by name, or is what a
property had to be weakened for, and of which no document says otherwise, or none that we know.

* Before `initialize`: the circuit breaker's volume is recorded, and the pause it may cause
  ends with `initialize`, without a time lock (`src/circuit_breaker/lib.rs:142`); the governance
  gives out ids of proposals that `initialize` gives out again, so that a cancelled proposal
  is written over by an open one (`src/governance/lib.rs:150`). `ReopensInTimeStep` and
  `DecidedStaysStep` say what holds after it.
* Staking: a lock is counted in ledgers of five seconds, and ends earlier or later in seconds
  as ledgers close faster or slower (`src/staking/lib.rs:573`).
* Multisig: updates computed from an earlier read write over a status set meanwhile
  (:388); a request that dies between READY and submission is not taken up again (:512).
* Recurring: recording a result writes ACTIVE over a pause or cancellation made while
  the payment was in flight (:574); a write that throws in the catch ends the tick, and
  schedules behind it wait for the next (:657).
* Queue: cancelJob marks a completed job's row FAILED (:292); rows that only failed are
  never cleaned (:364); a failed update of a row is lost (:420); an unknown error
  completes the job with `success: false` (worker :263).
* Batch: a lost answer is retried under a fresh sequence number although it may be
  applied (:230); a failed reset leaves a stale counter until it expires (:271).
* Escrow: at the very second of the unlock time claim and refund are both open and
  cancellation is closed (:246); a change of beneficiary keeps the earlier recovery key (:424).
* Indexer: an event whose own write failed is skipped by the commit (:116), so
  completeness is of rounds in which no write failed.
* KYC webhooks: a crash between the write of a status and the queue loses the notice,
  and a lost mark sends it again, under the same key.
* SEP-31: the reconciler writes over a status that the administrator has set since its
  read (:59); a payment that fails after its claim leaves the quote EXECUTED with no
  transaction; `now` is taken before the claim, so a quote can be claimed at its expiry.
* Cache: writeThrough publishes no invalidation, so other processes keep the old value
  for their time to live; staleness is tested before expiry, so a stale L1 entry is
  served, and fetched again, however old it is (:164).
* Wallet: overlapping checks, or one that fails half-way, can lose an all-clear; an alert
  that no channel takes is marked as made, and a balance that stays low is told of only when
  the cooldown has passed (`hot-wallet-monitor.service.ts:411`).
* Documents: a rotation that reads a file while Multer still writes it can put the part
  it read over an upload that is accepted; it can bring a refused document back,
  encrypted; an upload beside it keeps the older key version; a file that was removed
  since it was listed, or a temporary file that a crash cut off, ends the pass, the latter
  every pass from then on; the plain text of an upload whose process died stays until
  a pass comes to its end. `AcceptedIsWhole` and `PassIsComplete` say what holds beside that.
* Circuit breaker contract: a trip keeps the unpause that was pending before it.
* Bridge: `deactivate_emergency_mode` and the admin's own activation always trap.
* XLM wrapper: a burn leaves its backing in the contract for good (:326).
* `harvest_yield` of the yield contract reads a key that nothing writes and always fails.
* Oracle consumer: a primary oracle that traps fails the call instead of falling back; a
  secondary's price that is dated earlier counts a span twice in the average.
* Revenue: a sweep through the AMM sends the treasury all of the target token held,
  revenue not yet split included.

## 5. Proofs

Five modules hold theorems, and each lies beside what it is about:
`MultisigCoordination_proofs`, `BatchPayments` (at its end), `MCServices_proofs`,
`MCContracts_proofs` and `MCContracts_fairness_proofs`. They hold for every value of the
constants that satisfies the ASSUMEs of the modules: any finite set of signers, addresses or
customers, any number of workers, requests, chunks, attempts, grants, proposals and tokens,
and any clock, price, fee or bound that is a number, and not zero where the code divides by
it; the farm's own address and `Nobody` are no user's. Each theorem has the
form `Init => Inv`, `Inv /\ [Next]_vars => Inv'`, `Inv =>` what is claimed; what
follows says what `Inv` adds to the claim and why it has to. For the instances
of one run the invariants are conjunctions of `service = "..." =>` or `contract = "..." =>`,
and a step of one leaves the others alone (`OwnSteps`).

**Multisig.** `TypeCorrect` needs, beside the types, that a request adding a signature
knows its signer. `SubmittedCorrect` rests on `SubmittedInv`: a request that is about to
write or tell SUBMITTED has seen the transaction applied, and applied is never undone.
`CountCorrect` (`CountIsBacked`) and `ReadyCorrect` (`ReadyIsEarned`) rest on `EarnedInv`: every count a
request holds across an await is at most the number of signature rows, which only grows,
every threshold it holds is at least the lowest ever, which only falls, and a request
that holds READY, or is past the READY check, does so with enough signatures; that is
why stale values are harmless here although nothing is locked. `SerialCorrect` says that
with one request at a time no signature is lost (`SerialEnvelopeComplete`), as long as
nothing fails: from the read on, the envelope the request works on is the row's, and only
its own signature may be missing from it (`SerialInv`). That hypothesis is needed, finding
1 shows what happens without it. `WalletInv` adds that every signature in an envelope,
wherever it is held, was made by somebody (`Made`), and one that verifies by a signer who has
signed, so that what the network accepts has enough of those. `PromiseKept` is the
refinement: with these invariants every step maps to a
step of `MultisigPromise` or to a stutter.

**Batch payments.** `SubmitsAlone`: while nothing expires, a worker past the lock is the
one it is of (`HolderIsLocked`). `SuccessIsPaid`: a worker that is past a chunk, or holds
it for done, has paid it (`Behind`). `PaymentsAreExact`: while nothing fails, what was
paid is what was acknowledged, once each (`PaidExactly`, which must add that nothing is
pending and where a chunk may be done).

**Services.** `ProbesCorrect`: a half-open breaker has counted every probe since it was
opened, so a call that ends late cannot make room for one too many. `KycCorrect`: every
status that was written is accounted for by the request that tells of it, the mark, a waiting
job with an attempt left, or a recorded loss; the hard part is which request still holds
which transition. `QuotesCorrect`: what is claimed is claimed by one request and is
never free again. `DeadLettersCorrect` and half of `ReportsCorrect` rest on
`QueueSafe`: an outcome is final, and a processor about to report success has its
transaction on the ledger, whatever stalls and whatever the API's requests delete. `PaymentsCorrect` and the
other half rest on `RecurringSafe`, for any finite set of ticks: what is spent, that is
what is paid or may still be by a tick in progress, less one for each overlap, failure and deletion,
stays behind the occurrence that the clock, the schedule, and every tick in
progress are at (`PaidBefore`). It is strictly behind the schedule's unless some tick is
between its look and the recording of its result (`Live`): that tick is the one that the next
to begin will be counted as overlapping. `NothingLost`:
the indexer has stored all events up to its cursor, and while a batch is being stored, all up
to any event stored (`NoHoles`, which is what makes a restart safe); a document is in turn
and in one piece at every step of `writeFileAtomic`, and a rotation has still to do, or has done,
each document it was due to (`InRotation`). `ServicesTypesCorrect` is what all of them are
typed by.

**Contracts.** The escrow: `EscrowInv` adds to `TypeOK` and `OnePayee` that nothing was
paid before settlement and cancelled implies settled, that a pending change is the last
proposal of the current key, and that the key was set in the past; from it follow
`SinglePayee`, `Frozen` and `Waited`.

* `Authorised`: what is counted of a pending upgrade is what was approved of the request
  that is pending and not of an earlier one (`ProxySafe`), by different administrators whose
  marks still stand (`UpgradeableSafe`); a pending super admin was proposed last, by the
  super admin of now (`RegistrySafe`); nothing leaves the m-of-n escrow before it has a
  threshold (`MultisigSafe`, with `ListedOnce`: a list without duplicates is as long as its
  set); an approval of a token ends with the ownership it was given under (`NftSafe`).
* `Timelocked`: the mapping of `ProxyLocks` takes every step of the proxy to a step of
  `TimelockedChange` or to a stutter, twice.
* `InTime`: the unpause that can be executed is the one that was initiated last, and none
  is before there is an admin; what
  the bridge remembers of the relayer's messages is all of it.
* `Owed`: sums over addresses, grants and loans have no induction here. What replaces it is
  that the smallest counterexample would have a smaller one (`LeastNumber`,
  `SmallestSubset`): a sum does not depend on the order in which it is taken, a change
  at one point changes it by as much (`SumChanged`), and a linear function of the
  terms is one of the sum (`SumOfLinear`). With it the token's supply is the sum of its
  balances, through self transfers and burns (`TokenSafe`), the wrapper is backed as well
  (`WrapperSafe`), what the vesting contract holds is what its grants have left
  (`VestingSafe`), pool shares add up and no reserve runs dry (`PoolSafe`, with a root that
  is shown to exist and division that rounds down), what the pool books it holds unless its
  tokens take a fee of transfers (`PoolHeld`), a batch of flash loans earns the fees of
  each (`LoanSafe`), and the staking contract holds the stakes and what everybody has earned
  of every token, the stake's own included (`StakeSafe`, which needs that nobody has been
  settled beyond the rate reached, and that a token which is not listed has none).
* `NothingTaken`: a linear schedule only grows, whatever is revoked in between
  (`VestedGrows`), a decided proposal stays so, of the ids that
  the counter has given out (`GovernanceStep`), and a staker's reward falls
  by what is paid out only (`StakeStep`).
* `Fair` (`SharesAreFair`): for each contract that divides something, what was paid is
  compared with a history that the contract does not keep. A grant has claimed no more than has
  vested (`GrantsFair`). The last checkpoint of a snapshot stands for every epoch since, and the
  totals are the sums less what `initialize` forgot (`SnapshotSafe`). Before rounding, what a holder of yield has been
  settled and what has accrued since is no more than was gained, and the gains of
  everybody add up to no more than the reward that is held (`YieldSafe`). What the farm has emitted is
  what it shared and what is left over (`FarmSafe`), for which the loop over the decay
  periods is shown to emit what the periods are worth (`PeriodIsEmission`). A stake is locked
  until what was agreed, less what ledgers have gained on the seconds they were counted as
  (`StakingSafe`), and what is left of a revenue pass lies ahead of
  it (`RevenueSafe`).
* `Counted` (`CountedOnce`): an allowance is what is left of the last approval, and the nonce
  of a permit that was honoured is used up (`TokenAllowed`); a tally is the sum of the votes
  on record, or less for an id that was given out before `initialize`, and what a voter has and has paid is what he was ever given (`CountSafe`). The
  votes are the root of the credits because a step of the recursion from above the root
  falls, but never below it, and one from the root does not (`NewtonFinds`).
* `Kept` (`RoundingKeepsThePool`): each reserve of the AMM falls by no more than the part of
  the shares that is burnt, and a swap with its fee keeps the product (`WorthIsKept`,
  `ProductIsKept`), so what a share is worth does not fall (`PoolKeepsValue`); neither does a
  share of the farm's vault (`VaultKeepsValue`). For the concentrated pool the price that a
  swap reaches is rounded so that what has come in, less the fee, covers
  the move up to the price limit or short of it (`MoveDown`, `MoveUp`, `GrossCovers`), from
  liquidity, prices and the dynamic fee of any size (`SwapSafe`).
* `Unswayed` (`BlindAndRobust`): no round that is yet to come has commitments, and none whose
  secrets are not asked for yet has secrets (`RandomSafe`), so the participants of a seed had
  committed before any of its secrets was out. The sorted list's middle has as many prices on
  either side (`MedianIsMiddle`), and a majority that keeps to two bounds has the middle ranks
  between them (`MostAreAround`). While the oracles' dates do not go back, the prices are in the
  order of their dates and the record is the last (`FeedSafe`, through `ListKept`, which drops
  the first of a full list); the weights of the prices at a moment and at the next differ by
  one at the price then in force (`OneMoreSecond`), so that second by second the weighed sum is
  the sum of the prices in force (`LastingAddsUp`).

**Only model-checked.** In `contracts`: the part of `ContractsTypeOK` beyond the types of the
escrow, the draws and the oracles (`DrawsTyped`, `MediansTyped`, `FeedTyped`). All liveness
(`DriftIsRepaired`, `RequestEnds`, `Recovers`, `CatchesUp`, `QueuesDrain`,
`Reconciled`, `Converges`, `AlertsAreTrue`, `DueIsServed`), which needs fairness and
ENABLED and is out of the prover's reach.

## 6. What the models leave out

Cryptography, XDR, addresses and amounts of the backend (an envelope is a set of
signers, a payment an event); validation that ends before a state change; logging,
events, metrics and mail beyond the notification rows; the contents of schedules; more
than one transaction, schedule, cached key or wallet at a time, which share no state.
The minute lock of the batch id, which the code ignores when it cannot take it. Contract
calls are atomic. Read-only getters have no action.

## 7. Not modelled

* **Dashboard, demo server, infrastructure, load tests, deployment scripts.** User
  interface and operations; they keep no state that the system relies on. They are about
  a third of the lines.
* **HTTP routes, controllers, middleware, validation.** They check a request and call one
  of the services; those whose handlers have steps of their own (SEP-12 documents and
  status, the administrator's SEP-31 update) are part of that service's model.
* **SEP-10 and sessions.** What keeps them correct is cryptography and times to live.
* **SEP-24.** One unconditional write of a status and a notice of it, through the same store
  of delivered keys and the same retry queue as the KYC webhooks;
  finding 7 is about that store. `sendPaymentWithClaimableFallback`, which makes the
  claimable balances that its worker tells of, has no caller.
* **Administrative proposals** (`multisig.service.ts` 1011-1203) are an in-memory map without
  an await between look and change. **`updateTransactionStatusAndNotify`** has no caller but
  tests.
* **Relayer, fees, prices, notification, API keys, flags, metrics, tracing, retention.** Wire
  formats, arithmetic on one value, or single statements with nothing to interleave with.
  `HorizonEventMonitor` is used by an example only (its subscriptions share one cursor).
* **Contracts that do not compile** at this commit: `contracts/liquid_staking`,
  `src/liquidation`, `src/indexing`. Of the modelled ones, `src/amm` names an `AmmError` that is
  not defined (:338), for a panic that the model has as a guard, and a test of
  `contracts/staking` lacks its closing brace (:607), which leaves the contract itself alone.
* **Small contracts** (roles, KYC records, batch calls, event hub, a second commit-reveal,
  stubs): a map behind one authorisation check, in which no two calls relate.

The map therefore covers under a fifth of the implementation's lines. What is left is,
beside the dashboard, mostly routes, schemas, wire formats, getters, events and error
texts, which have no state to model; the protocols of the backend and the contracts that
hold tokens or decide who may do what are modelled.

## 8. Plan

1. Proofs: the types of the contracts that have none yet.
2. SEP-24 notices beside the worker, which must not tell of a claimable balance after the
   completion, with the delivery steps of `KycNotification` in a module that both extend.
3. Larger instances where TLC allows: two schedules in one tick, two keys of one cache
   under one tag.
