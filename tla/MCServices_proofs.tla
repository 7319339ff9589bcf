-------------------------- MODULE MCServices_proofs --------------------------
(* Theorems about the backend's services, for every value of the constants.  *)
EXTENDS MCServices, FiniteSetTheorems, WellFoundedInduction, TLAPS

------------------------------------------------------------------------------
(* A behaviour has one service: each service's steps are its own, and leave  *)
(* the service what it is.                                                   *)

Own(s) == service = s /\ service' = s

LEMMA BreakerOwn == Breaker!Next => Own("breaker")
  BY DEF Own, Breaker!Next, Breaker!Step, Breaker!Fail, Breaker!Execute,
     Breaker!OnSuccess, Breaker!OnFailure, Breaker!ForceOpen, Breaker!ForceClose,
     Breaker!TimePasses

LEMMA IndexerOwn == Indexer!Next => Own("indexer")
  BY DEF Own, Indexer!Next, Indexer!Step, Indexer!Fail, Indexer!Begin,
     Indexer!UpToDate, Indexer!Fetch, Indexer!RoundFails,
     Indexer!CommitLastIndexedLedger, Indexer!ProcessEvent,
     Indexer!ProcessEventFails, Indexer!Restart, Indexer!LedgerCloses

LEMMA KycOwn == Next => Own("kyc")
  BY ZenonT(60) DEF Own, Next, Step, Fail, Proceeds, Delivers, Works, Submitted, Update, Ask,
     MarkDelivered, Delivered, Refused, EnqueueWebhookRetry, PutCustomer,
     SubmissionFails, Lost, HandleWebhook, DeleteCustomer, ProcessJob, Expires,
     JobRemoved

LEMMA Sep31Own == Sep31!Next => Own("sep31")
  BY ZenonT(60) DEF Own, Sep31!Next, Sep31!Step, Sep31!Fail, Sep31!ReadQuote,
     Sep31!WithoutQuote, Sep31!Claim, Sep31!Persist, Sep31!CreationFails,
     Sep31!UpdateStatus, Sep31!LookUp, Sep31!RowFails, Sep31!Ages, Sep31!Applied,
     Sep31!ExpireStaleQuotes, Sep31!Reconcile, Sep31!WriteOutcome,
     Sep31!QuoteExpires

LEMMA CacheOwn == Cache!Next => Own("cache")
  BY ZenonT(60) DEF Own, Cache!Next, Cache!Step, Cache!Fail, Cache!Proceeds, Cache!CacheAside,
     Cache!GetL2, Cache!Fetch, Cache!Keep, Cache!SetL2, Cache!WriteLater,
     Cache!Invalidate, Cache!Publish, Cache!CallFails, Cache!WriteFails,
     Cache!AskInvalidate, Cache!HandleInvalidationMessage, Cache!WriteThrough,
     Cache!WriteBehind, Cache!L1Expires, Cache!L2Expires

LEMMA WalletOwn == Wallet!Next => Own("wallet")
  BY DEF Own, Wallet!Next, Wallet!Step, Wallet!Fail, Wallet!Proceeds,
     Wallet!CheckWallet, Wallet!AlreadyAlerted, Wallet!Send, Wallet!SetCooldown,
     Wallet!SetBreach, Wallet!InBreach, Wallet!AllClear, Wallet!Delete,
     Wallet!CheckFails, Wallet!SendFails, Wallet!CooldownExpires, Wallet!BalanceMoves

LEMMA StoreOwn == Store!Next => Own("documents")
  BY ZenonT(60) DEF Own, Store!Next, Store!Step, Store!Fail, Store!Receive, Store!Received,
     Store!Read, Store!Written, Store!Rename, Store!EncryptionFails,
     Store!UploadAborts, Store!ApiDies, Store!Validate, Store!Wrap,
     Store!RotateEncryptionKey, Store!Reencrypt, Store!Decrypt, Store!WrittenAgain,
     Store!RenameAgain, Store!Finish, Store!RotationFails, Store!ReadStored,
     Store!Unreadable, Store!WrapAgain

LEMMA OwnSteps ==
    [ServicesNext]_servicesVars =>
        /\ service' = service
        /\ service = "breaker" => [Breaker!Next]_vars
        /\ service = "indexer" => [Indexer!Next]_vars
        /\ service = "kyc" => [Next]_vars
        /\ service = "sep31" => [Sep31!Next]_vars
        /\ service = "cache" => [Cache!Next]_vars
        /\ service = "wallet" => [Wallet!Next]_vars
        /\ service = "documents" => [Store!Next]_vars
        /\ service = "queue" => [Queue!Next]_<<queueVars, failures>>
        /\ service = "recurring" => [Recurring!Next]_<<recurringVars, failures>>
        /\ service # "queue" => UNCHANGED queueVars
        /\ service # "recurring" => UNCHANGED recurringVars
  BY BreakerOwn, IndexerOwn, KycOwn, Sep31Own, CacheOwn, WalletOwn, StoreOwn
  DEF ServicesNext, servicesVars, QueueNext, RecurringNext, Own, vars

------------------------------------------------------------------------------
(* The call breaker *)

\* Since it was opened, a half-open breaker has counted every probe it let through.
ProbesAreCounted == db.state = "HALF_OPEN" => history = db.halfOpenCalls

BreakerInv == service = "breaker" => Breaker!TypeOK /\ ProbesAreCounted

\* What the breaker stores.
BreakerDb == [state : {"CLOSED", "OPEN", "HALF_OPEN"}, failures : Nat,
              successes : Nat, halfOpenCalls : 0 .. HalfOpenMaxCalls]

LEMMA BreakerNext == Breaker!TypeOK /\ ProbesAreCounted /\ [Breaker!Next]_vars
                         => Breaker!TypeOK' /\ ProbesAreCounted'
<1> SUFFICES ASSUME Breaker!TypeOK, ProbesAreCounted, [Breaker!Next]_vars
             PROVE  Breaker!TypeOK' /\ ProbesAreCounted'
  OBVIOUS
<1> USE BreakerAssumption
<1>a. /\ db \in BreakerDb /\ calls \in [BreakerCalls -> {"idle", "running"}]
      /\ outside \in 0 .. ResetTimeout + 1 /\ history \in Nat
      /\ failures \in 0 .. BreakerFailures
  BY DEF Breaker!TypeOK, Breaker!Idle, BreakerDb
<1>b. /\ db.state \in {"CLOSED", "OPEN", "HALF_OPEN"} /\ db.failures \in Nat
      /\ db.successes \in Nat /\ db.halfOpenCalls \in 0 .. HalfOpenMaxCalls
  BY <1>a DEF BreakerDb
<1>c. /\ db' \in BreakerDb /\ calls' \in [BreakerCalls -> {"idle", "running"}]
      /\ outside' \in 0 .. ResetTimeout + 1 /\ history' \in Nat
      /\ failures' \in 0 .. BreakerFailures
      /\ db'.state = "HALF_OPEN" => history' = db'.halfOpenCalls
      => Breaker!TypeOK' /\ ProbesAreCounted'
  BY DEF Breaker!TypeOK, ProbesAreCounted, Breaker!Idle, BreakerDb
<1>1. ASSUME NEW r \in BreakerCalls, Breaker!Execute(r)
      PROVE  Breaker!TypeOK' /\ ProbesAreCounted'
  <2>1. /\ calls' \in [BreakerCalls -> {"idle", "running"}] /\ outside' = outside
        /\ failures' = failures
    BY <1>1, <1>a DEF Breaker!Execute, Breaker!Step, Breaker!Goes
  <2>2. CASE db.state = "OPEN"
    <3> DEFINE half == [db EXCEPT !.state = "HALF_OPEN", !.halfOpenCalls = 0,
                                  !.successes = 0]
    <3>1. /\ half \in BreakerDb /\ half.state = "HALF_OPEN" /\ half.halfOpenCalls = 0
          /\ Breaker!Probing = half
      <4> DEFINE open == [db EXCEPT !.state = "HALF_OPEN"]
                 none == [open EXCEPT !.halfOpenCalls = 0]
      <4>1. open \in BreakerDb /\ open.state = "HALF_OPEN"
        BY <1>a, <1>b DEF BreakerDb
      <4>2. none \in BreakerDb /\ none.state = "HALF_OPEN" /\ none.halfOpenCalls = 0
        <5> HIDE DEF open
        <5> QED BY <4>1 DEF BreakerDb
      <4>3. half = [none EXCEPT !.successes = 0]
        BY Zenon
      <4>4. half \in BreakerDb /\ half.state = "HALF_OPEN" /\ half.halfOpenCalls = 0
        <5> HIDE DEF none, half
        <5> QED BY <4>2, <4>3 DEF BreakerDb
      <4> QED BY <2>2, <4>4 DEF Breaker!Probing
    <3>2. 0 < HalfOpenMaxCalls /\ db' = [half EXCEPT !.halfOpenCalls = @ + 1]
      <4> HIDE DEF half
      <4> QED BY <1>1, <3>1 DEF Breaker!Execute, Breaker!Admitted
    <3>3. db' \in BreakerDb /\ db'.state = "HALF_OPEN" /\ db'.halfOpenCalls = 1
      <4> HIDE DEF half
      <4> QED BY <3>1, <3>2 DEF BreakerDb
    <3>4. history' = 1
      BY <1>1, <2>2, <3>3 DEF Breaker!Execute
    <3> QED BY <1>a, <1>c, <2>1, <3>3, <3>4
  <2>3. CASE db.state = "HALF_OPEN"
    <3>1. Breaker!Probing = db
      BY <2>3 DEF Breaker!Probing
    <3>2. /\ db.halfOpenCalls < HalfOpenMaxCalls
          /\ db' = [db EXCEPT !.halfOpenCalls = @ + 1]
      BY <1>1, <2>3, <3>1 DEF Breaker!Execute, Breaker!Admitted
    <3>3. /\ db' \in BreakerDb /\ db'.state = "HALF_OPEN"
          /\ db'.halfOpenCalls = db.halfOpenCalls + 1
      BY <1>a, <1>b, <2>3, <3>2 DEF BreakerDb
    <3>4. history' = history + 1 /\ history = db.halfOpenCalls
      BY <1>1, <2>3, <3>3 DEF Breaker!Execute, ProbesAreCounted
    <3> QED BY <1>a, <1>b, <1>c, <2>1, <3>3, <3>4
  <2>4. CASE db.state = "CLOSED"
    <3>1. db' = db
      BY <1>1, <2>4 DEF Breaker!Execute, Breaker!Probing, Breaker!Admitted
    <3>2. history' = 0
      BY <1>1, <2>4, <3>1 DEF Breaker!Execute
    <3> QED BY <1>a, <1>c, <2>1, <2>4, <3>1, <3>2
  <2> QED BY <1>b, <2>2, <2>3, <2>4
<1>2. ASSUME NEW r \in BreakerCalls, Breaker!OnSuccess(r)
      PROVE  Breaker!TypeOK' /\ ProbesAreCounted'
  <2>1. /\ calls' \in [BreakerCalls -> {"idle", "running"}]
        /\ outside' = outside /\ history' = history /\ failures' = failures
    BY <1>2, <1>a DEF Breaker!OnSuccess, Breaker!Step, Breaker!Goes, Breaker!Idle
  <2>2. \/ /\ db' = [db EXCEPT !.failures = 0]
           /\ db.state # "HALF_OPEN"
        \/ db' = [db EXCEPT !.failures = 0, !.successes = @ + 1]
        \/ db' = [state |-> "CLOSED", failures |-> 0, successes |-> 0,
                  halfOpenCalls |-> 0]
    BY <1>2 DEF Breaker!OnSuccess
  <2>a. CASE db' = [db EXCEPT !.failures = 0] /\ db.state # "HALF_OPEN"
    <3>1. db' \in BreakerDb /\ db'.state # "HALF_OPEN"
      BY <1>a, <1>b, <2>a DEF BreakerDb
    <3> QED BY <1>a, <1>c, <2>1, <3>1
  <2>b. CASE db' = [db EXCEPT !.failures = 0, !.successes = @ + 1]
    <3>1. db' = [state |-> db.state, failures |-> 0, successes |-> db.successes + 1,
                 halfOpenCalls |-> db.halfOpenCalls]
      BY <1>a, <2>b DEF BreakerDb
    <3>2. db' \in BreakerDb
      BY <1>b, <3>1 DEF BreakerDb
    <3> QED BY <1>a, <1>c, <2>1, <3>1, <3>2 DEF ProbesAreCounted
  <2>c. CASE db' = [state |-> "CLOSED", failures |-> 0, successes |-> 0,
                    halfOpenCalls |-> 0]
    <3>1. db' \in BreakerDb /\ db'.state # "HALF_OPEN"
      BY <2>c DEF BreakerDb
    <3> QED BY <1>a, <1>c, <2>1, <3>1
  <2> QED BY <2>2, <2>a, <2>b, <2>c
<1>3. ASSUME NEW r \in BreakerCalls, Breaker!OnFailure(r)
      PROVE  Breaker!TypeOK' /\ ProbesAreCounted'
  <2>1. /\ calls' \in [BreakerCalls -> {"idle", "running"}]
        /\ outside' = 0 /\ history' = history /\ failures' \in 0 .. BreakerFailures
    BY <1>3, <1>a DEF Breaker!OnFailure, Breaker!Fail, Breaker!Goes, Breaker!Idle
  <2>2. /\ db' \in BreakerDb
        /\ db'.state = "HALF_OPEN" => FALSE
    <3>1. PICK s \in {"CLOSED", "OPEN"} :
              db' = [db EXCEPT !.failures = @ + 1, !.state = s]
      BY <1>3, <1>b DEF Breaker!OnFailure
    <3>2. db' = [state |-> s, failures |-> db.failures + 1, successes |-> db.successes,
                 halfOpenCalls |-> db.halfOpenCalls]
      BY <1>a, <3>1 DEF BreakerDb
    <3> QED BY <1>b, <3>2 DEF BreakerDb
  <2> QED BY <1>a, <1>c, <2>1, <2>2
<1>4. CASE Breaker!ForceOpen
  BY <1>4, <1>a, <1>c DEF Breaker!ForceOpen, Breaker!Fail, BreakerDb
<1>5. CASE Breaker!ForceClose
  BY <1>5, <1>a, <1>c DEF Breaker!ForceClose, Breaker!Step, BreakerDb
<1>6. CASE Breaker!TimePasses
  BY <1>6, <1>a, <1>c DEF Breaker!TimePasses, Breaker!Step, ProbesAreCounted
<1>7. CASE UNCHANGED vars
  BY <1>7, <1>a, <1>c DEF vars, ProbesAreCounted
<1> QED BY <1>1, <1>2, <1>3, <1>4, <1>5, <1>6, <1>7 DEF Breaker!Next

LEMMA BreakerInitInv == ServicesInit => BreakerInv
  BY BreakerAssumption DEF ServicesInit, Start, BreakerInv, Breaker!Init, Breaker!TypeOK, ProbesAreCounted,
     Breaker!Idle, Breaker!Running, Indexer!Init, Indexer!Running, Init, Running,
     Sep31!Init, Sep31!Running, Cache!Init, Cache!Running, Wallet!Init,
     Wallet!Running, Store!Init, Store!Running

LEMMA BreakerInvSteps == BreakerInv /\ [ServicesNext]_servicesVars => BreakerInv'
  BY OwnSteps, BreakerNext DEF BreakerInv

\* Whatever the limits, no half-open breaker lets more probes through than it may.
THEOREM ProbesCorrect == ServicesSpec => []ProbesAreFew
<1>1. BreakerInv => ProbesAreFew
  BY BreakerAssumption DEF BreakerInv, ProbesAreFew, Breaker!ProbesAreFew, Breaker!TypeOK, ProbesAreCounted
<1> QED BY BreakerInitInv, BreakerInvSteps, <1>1, PTL DEF ServicesSpec

------------------------------------------------------------------------------
(* The KYC webhooks *)

Delivering(c) == c.at \in {"ask", "post", "mark", "enqueue"}
Queued(k) == db.jobs[k].state \in {"waiting", "failed"}
Settled(k) == k \in outside.received \cup history.lost
AccountedFor(k) ==
    \/ Settled(k) \/ Queued(k)
    \/ \E r \in Requests : Delivering(calls[r]) /\ calls[r].key = k

\* A call tells of a transition from its update on; what a call, the store of keys or
\* the queue takes for delivered, the partner has.
KeysAreTransitions ==
    \A r \in Requests : calls[r].at = "update" \/ Delivering(calls[r]) => calls[r].key \in Keys
MarkedIsReceived ==
    /\ \A r \in Requests : calls[r].at = "mark" => calls[r].key \in outside.received
    /\ db.delivered \subseteq outside.received
    /\ \A k \in Keys : db.jobs[k].state = "completed" => k \in outside.received
AllAccounted == \A k \in history.written : AccountedFor(k)
\* A job that waits has an attempt left.
AttemptsAreLeft ==
    \A k \in Keys : /\ db.jobs[k].state = "none" => db.jobs[k].made = 0
                    /\ db.jobs[k].state = "waiting" => db.jobs[k].made < JobAttempts

KycSafe ==
    TypeOK /\ KeysAreTransitions /\ MarkedIsReceived /\ AllAccounted /\ AttemptsAreLeft
KycInv == service = "kyc" => KycSafe

KycJob == [state : {"none", "waiting", "completed", "failed"}, made : 0 .. JobAttempts]
KycDb == [status : Statuses, deleted : BOOLEAN, delivered : SUBSET Keys,
          jobs : [Keys -> KycJob]]
KycOutside == [received : SUBSET Keys, told : Statuses]
KycHistory == [written : SUBSET Keys, lost : SUBSET Keys, requests : 0 .. MaxRequests]

\* When r goes on with c, all stays accounted for if what r told of does.
LEMMA Kept ==
  ASSUME NEW r \in Requests, NEW here \in Call, NEW c \in Call,
         calls \in [Requests -> Call], calls[r] = here,
         calls' = [calls EXCEPT ![r] = c],
         outside.received \subseteq outside'.received,
         history.lost \subseteq history'.lost,
         \A k \in history.written : Queued(k) => Queued(k)' \/ Settled(k)',
         Delivering(here) =>
             \/ Delivering(c) /\ c.key = here.key
             \/ Settled(here.key)' \/ Queued(here.key)',
         \A k \in history'.written : k \in history.written \/ (Delivering(c) /\ c.key = k),
         AllAccounted
  PROVE  AllAccounted'
<1> SUFFICES ASSUME NEW k \in history'.written PROVE AccountedFor(k)'
  BY DEF AllAccounted
<1>1. /\ calls'[r] = c
      /\ \A q \in Requests : q # r => calls'[q] = calls[q]
  OBVIOUS
<1>2. CASE Delivering(c) /\ c.key = k
  BY <1>1, <1>2 DEF AccountedFor, Delivering
<1>3. CASE k \in history.written
  <2>1. AccountedFor(k)
    BY <1>3 DEF AllAccounted
  <2>2. CASE Settled(k) \/ Queued(k)
    BY <1>3, <2>2 DEF AccountedFor, Settled
  <2>3. CASE \E q \in Requests : Delivering(calls[q]) /\ calls[q].key = k
    <3>1. PICK q \in Requests : Delivering(calls[q]) /\ calls[q].key = k
      BY <2>3
    <3>2. CASE q = r
      BY <1>1, <3>1, <3>2 DEF AccountedFor, Delivering
    <3>3. CASE q # r
      BY <1>1, <3>1, <3>3 DEF AccountedFor, Delivering
    <3> QED BY <3>2, <3>3
  <2> QED BY <2>1, <2>2, <2>3 DEF AccountedFor
<1> QED BY <1>2, <1>3

KycTyped ==
    /\ db \in KycDb /\ outside \in KycOutside /\ history \in KycHistory
    /\ failures \in 0 .. MaxFailures /\ AttemptsAreLeft

\* What r's going on with c keeps of the accounts.
GoesOn(r, here, c) ==
    /\ calls[r] = here /\ calls' = [calls EXCEPT ![r] = c]
    /\ outside.received \subseteq outside'.received
    /\ history.lost \subseteq history'.lost
    /\ \A k \in Keys : Queued(k) => Queued(k)'
    /\ \A k \in Keys : db'.jobs[k].state = "completed" => k \in outside'.received
    /\ db'.delivered \subseteq outside'.received
    /\ c.at = "update" \/ Delivering(c) => c.key \in Keys
    /\ c.at = "mark" => c.key \in outside'.received
    /\ Delivering(here) => \/ Delivering(c) /\ c.key = here.key
                           \/ Settled(here.key)' \/ Queued(here.key)'
    /\ \A k \in history'.written : k \in history.written \/ (Delivering(c) /\ c.key = k)

LEMMA KycGoes ==
  ASSUME NEW r \in Requests, NEW here \in Call, NEW c \in Call, KycSafe, KycTyped',
         GoesOn(r, here, c)
  PROVE  KycSafe'
<1> USE DEF GoesOn
<1>1. calls \in [Requests -> Call] /\ history.written \subseteq Keys
  BY DEF KycSafe, TypeOK
<1>2. TypeOK'
  BY <1>1 DEF KycTyped, TypeOK, KycDb, KycOutside, KycHistory, KycJob
<1>3. /\ calls'[r] = c
      /\ \A q \in Requests : q # r => calls'[q] = calls[q]
  BY <1>1
<1>4. KeysAreTransitions'
  BY <1>3 DEF KycSafe, KeysAreTransitions, Delivering
<1>5. MarkedIsReceived'
  BY <1>3 DEF KycSafe, MarkedIsReceived
<1>6. AllAccounted'
  <2>1. \A k \in history.written : Queued(k) => Queued(k)' \/ Settled(k)'
    BY <1>1
  <2> QED BY <1>1, <2>1, Kept DEF KycSafe
<1> QED BY <1>2, <1>4, <1>5, <1>6 DEF KycSafe, KycTyped

LEMMA KycStays ==
  ASSUME KycSafe, KycTyped', calls' = calls, history'.written = history.written,
         outside.received \subseteq outside'.received,
         history.lost \subseteq history'.lost,
         \A k \in Keys : Queued(k) => Queued(k)' \/ Settled(k)',
         \A k \in Keys : db'.jobs[k].state = "completed" => k \in outside'.received,
         db'.delivered \subseteq outside'.received
  PROVE  KycSafe'
<1>1. calls \in [Requests -> Call] /\ history.written \subseteq Keys
  BY DEF KycSafe, TypeOK
<1>2. TypeOK'
  BY <1>1 DEF KycTyped, TypeOK, KycDb, KycOutside, KycHistory, KycJob
<1>4. KeysAreTransitions'
  BY DEF KycSafe, KeysAreTransitions
<1>5. MarkedIsReceived'
  BY DEF KycSafe, MarkedIsReceived
<1>6. AllAccounted'
  <2> SUFFICES ASSUME NEW k \in history.written PROVE AccountedFor(k)'
    BY DEF AllAccounted
  <2>1. AccountedFor(k)
    BY DEF KycSafe, AllAccounted
  <2> QED BY <1>1, <2>1 DEF AccountedFor, Settled
<1> QED BY <1>2, <1>4, <1>5, <1>6 DEF KycSafe, KycTyped

LEMMA KycTypes ==
  ASSUME KycSafe
  PROVE  /\ KycTyped /\ calls \in [Requests -> Call]
         /\ \A r \in Requests :
                /\ calls[r] \in Call
                /\ calls[r].key \in Statuses \X Statuses
                /\ calls[r].attempt \in 0 .. MaxRetries + 1
         /\ db.jobs \in [Keys -> KycJob] /\ db.delivered \subseteq Keys
         /\ outside.received \subseteq Keys
         /\ history.written \subseteq Keys /\ history.lost \subseteq Keys
         /\ history.requests \in 0 .. MaxRequests
<1>1. KycTyped /\ calls \in [Requests -> Call]
  BY DEF KycSafe, TypeOK, KycTyped, KycDb, KycOutside, KycHistory, KycJob
<1>2. \A c \in Call : c.key \in Statuses \X Statuses /\ c.attempt \in 0 .. MaxRetries + 1
  BY DEF Call
<1>3. \A r \in Requests : calls[r] \in Call
  BY <1>1
<1>4. db.jobs \in [Keys -> KycJob] /\ db.delivered \subseteq Keys
  BY <1>1 DEF KycTyped, KycDb
<1>5. /\ outside.received \subseteq Keys
      /\ history.written \subseteq Keys /\ history.lost \subseteq Keys
      /\ history.requests \in 0 .. MaxRequests
  BY <1>1 DEF KycTyped, KycOutside, KycHistory
<1> QED BY <1>1, <1>2, <1>3, <1>4, <1>5

LEMMA KycInit == Init => KycSafe
  <1> SUFFICES ASSUME Init PROVE KycSafe
    OBVIOUS
  <1>1. Idle \in Call /\ NoJob \in KycJob
    BY KycAssumption DEF Idle, Call, NoJob, KycJob, Statuses
  <1>2. TypeOK
    <2>1. db \in KycDb
      BY <1>1 DEF Init, KycDb, Statuses
    <2>2. calls \in [Requests -> Call]
      BY <1>1 DEF Init
    <2>3. outside \in KycOutside /\ history \in KycHistory
      BY KycAssumption DEF Init, KycOutside, KycHistory, Statuses
    <2> QED BY <2>1, <2>2, <2>3, BackendAssumption
        DEF Init, Running, TypeOK, KycDb, KycOutside, KycHistory, KycJob
  <1>3. KeysAreTransitions /\ MarkedIsReceived /\ AllAccounted /\ AttemptsAreLeft
    BY DEF Init, KeysAreTransitions, MarkedIsReceived, AllAccounted, AttemptsAreLeft,
       Delivering, Idle, NoJob
  <1> QED BY <1>2, <1>3 DEF KycSafe

LEMMA KycCallSteps ==
  ASSUME KycSafe, NEW r \in Requests,
         \/ \E st \in Statuses : Submitted(r, st) \/ HandleWebhook(r, st)
         \/ Update(r) \/ PutCustomer(r) \/ SubmissionFails(r) \/ Lost(r)
         \/ EnqueueWebhookRetry(r)
  PROVE  KycSafe'
<1>0. PICK here \in Call : calls[r] = here
  BY KycTypes
<1>a. /\ KycTyped /\ calls \in [Requests -> Call] /\ calls[r] = here
      /\ here.key \in Statuses \X Statuses /\ here.attempt \in 0 .. MaxRetries + 1
      /\ db.jobs \in [Keys -> KycJob] /\ db.delivered \subseteq Keys
      /\ outside.received \subseteq Keys
      /\ history.written \subseteq Keys /\ history.lost \subseteq Keys
      /\ history.requests \in 0 .. MaxRequests
  BY <1>0, KycTypes
<1>b. /\ here.at = "update" \/ Delivering(here) => here.key \in Keys
      /\ here.at = "mark" => here.key \in outside.received
      /\ db.delivered \subseteq outside.received
      /\ \A k \in Keys : db.jobs[k].state = "completed" => k \in outside.received
  BY <1>0 DEF KycSafe, KeysAreTransitions, MarkedIsReceived
<1>c. Idle \in Call /\ Idle.at = "idle" /\ ~Delivering(Idle)
  BY KycAssumption DEF Idle, Call, Statuses, Delivering
<1>d. \A l \in {"idle", "submit", "update", "ask", "post", "mark", "enqueue"} :
          LET c == [here EXCEPT !.at = l]
          IN  c \in Call /\ c.at = l /\ c.key = here.key
  BY <1>a DEF Call
<1>e. \A st \in Statuses, to \in Statuses, l \in {"update", "ask"}, n \in {0, 1} :
          LET c == [at |-> l, key |-> <<st, to>>, attempt |-> n]
          IN  c \in Call
  BY KycAssumption DEF Call
<1>1. ASSUME NEW st \in Statuses, Submitted(r, st) PROVE KycSafe'
  <2>1. ~Delivering(here) /\ db' = [db EXCEPT !.status = st] /\ outside' = outside
        /\ failures' = failures
    BY <1>0, <1>1 DEF Submitted, Step, At, Delivering
  <2>2. db' \in KycDb /\ db'.jobs = db.jobs /\ db'.delivered = db.delivered
    BY <1>a, <2>1 DEF KycTyped, KycDb
  <2>3. CASE st = "PENDING"
    <3>1. calls' = [calls EXCEPT ![r] = Idle] /\ history' = history
      BY <1>0, <1>1, <2>3 DEF Submitted, Ends, Goes
    <3>8. KycTyped'
      BY <1>0, <1>a, <1>b, <1>c, <2>1, <2>2, <3>1 DEF KycTyped, AttemptsAreLeft
    <3>9. GoesOn(r, here, Idle)
      BY <1>0, <1>a, <1>b, <1>c, <2>1, <2>2, <3>1 DEF GoesOn, Queued
    <3> QED BY <1>0, <1>c, <2>1, <2>2, <3>1, <3>8, <3>9, KycGoes
  <2>4. CASE st # "PENDING"
    <3> DEFINE c == [at |-> "ask", key |-> <<"PENDING", st>>, attempt |-> 1]
    <3>1. /\ calls' = [calls EXCEPT ![r] = c]
          /\ history' = [history EXCEPT !.written = @ \cup {<<"PENDING", st>>}]
      BY <1>0, <1>1, <2>4 DEF Submitted, Notifies, Goes
    <3>2. c \in Call /\ c.key \in Keys /\ c.at = "ask" /\ Delivering(c)
          /\ c.key = <<"PENDING", st>>
      BY <1>e, <2>4 DEF Keys, Statuses, Delivering
    <3>3. /\ history' \in KycHistory /\ history'.lost = history.lost
          /\ history'.written = history.written \cup {<<"PENDING", st>>}
      BY <1>a, <3>1, <3>2 DEF KycTyped, KycHistory
    <3> HIDE DEF c
    <3>8. KycTyped'
      BY <1>0, <1>a, <1>b, <2>1, <2>2, <3>1, <3>2, <3>3 DEF KycTyped, AttemptsAreLeft
    <3>9. GoesOn(r, here, c)
      BY <1>0, <1>a, <1>b, <2>1, <2>2, <3>1, <3>2, <3>3 DEF GoesOn, Queued
    <3> QED BY <1>0, <1>c, <2>1, <2>2, <3>1, <3>2, <3>3, <3>8, <3>9, KycGoes
  <2> QED BY <2>3, <2>4
<1>2. ASSUME NEW st \in Statuses, HandleWebhook(r, st) PROVE KycSafe'
  <2> DEFINE c == [at |-> "update", key |-> <<db.status, st>>, attempt |-> 0]
  <2>1. /\ ~Delivering(here) /\ db' = db /\ outside' = outside /\ failures' = failures
        /\ calls' = [calls EXCEPT ![r] = c]
        /\ history' = [history EXCEPT !.requests = @ + 1]
        /\ history.requests < MaxRequests /\ db.status # st
    BY <1>0, <1>2 DEF HandleWebhook, Step, At, Delivering, Goes, Arrives
  <2>2. db.status \in Statuses
    BY <1>a DEF KycTyped, KycDb
  <2>3. c \in Call /\ c.key \in Keys /\ c.at = "update" /\ ~Delivering(c)
    BY <1>e, <2>1, <2>2 DEF Keys, Delivering
  <2>4. /\ history' \in KycHistory /\ history'.lost = history.lost
        /\ history'.written = history.written
    BY <1>a, <2>1, KycAssumption DEF KycTyped, KycHistory
  <2> HIDE DEF c
  <2>8. KycTyped'
    BY <1>0, <1>a, <1>b, <2>1, <2>3, <2>4 DEF KycTyped, AttemptsAreLeft
  <2>9. GoesOn(r, here, c)
    BY <1>0, <1>a, <1>b, <2>1, <2>3, <2>4 DEF GoesOn, Queued
  <2> QED BY <1>0, <1>c, <2>1, <2>3, <2>4, <2>8, <2>9, KycGoes
<1>3. CASE Update(r)
  <2> DEFINE c == [at |-> "ask", key |-> <<here.key[1], here.key[2]>>, attempt |-> 1]
  <2>1. /\ here.at = "update" /\ ~Delivering(here)
        /\ db' = [db EXCEPT !.status = here.key[2]]
        /\ outside' = outside /\ failures' = failures
        /\ calls' = [calls EXCEPT ![r] = c]
        /\ history' = [history EXCEPT !.written = @ \cup {<<here.key[1], here.key[2]>>}]
    BY <1>0, <1>3 DEF Update, Step, At, Delivering, Goes, Notifies
  <2>2. /\ here.key \in Keys /\ here.key = <<here.key[1], here.key[2]>>
        /\ here.key[1] \in Statuses /\ here.key[2] \in Statuses
    BY <1>a, <1>b, <2>1 DEF Keys
  <2>3. c \in Call /\ c.key = here.key /\ c.at = "ask" /\ Delivering(c)
    BY <1>e, <2>2 DEF Delivering
  <2>4. db' \in KycDb /\ db'.jobs = db.jobs /\ db'.delivered = db.delivered
    BY <1>a, <2>1, <2>2 DEF KycTyped, KycDb
  <2>5. /\ history' \in KycHistory /\ history'.lost = history.lost
        /\ history'.written = history.written \cup {here.key}
    BY <1>a, <2>1, <2>2 DEF KycTyped, KycHistory
  <2> HIDE DEF c
  <2>8. KycTyped'
    BY <1>0, <1>a, <1>b, <2>1, <2>2, <2>3, <2>4, <2>5 DEF KycTyped, AttemptsAreLeft
  <2>9. GoesOn(r, here, c)
    BY <1>0, <1>a, <1>b, <2>1, <2>2, <2>3, <2>4, <2>5 DEF GoesOn, Queued
  <2> QED BY <1>0, <1>c, <2>1, <2>2, <2>3, <2>4, <2>5, <2>8, <2>9, KycGoes
<1>4. CASE PutCustomer(r)
  <2> DEFINE c == [here EXCEPT !.at = "submit"]
  <2>1. /\ ~Delivering(here) /\ outside' = outside /\ failures' = failures
        /\ db' = [db EXCEPT !.status = "PENDING", !.deleted = FALSE]
        /\ calls' = [calls EXCEPT ![r] = c]
        /\ history' = [history EXCEPT !.requests = @ + 1]
        /\ history.requests < MaxRequests
    BY <1>0, <1>4 DEF PutCustomer, Step, At, Delivering, Goes, Goto, Arrives
  <2>2. db' \in KycDb /\ db'.jobs = db.jobs /\ db'.delivered = db.delivered
    BY <1>a, <2>1 DEF KycTyped, KycDb, Statuses
  <2>3. c \in Call /\ c.at = "submit" /\ ~Delivering(c)
    BY <1>d DEF Delivering
  <2>4. /\ history' \in KycHistory /\ history'.lost = history.lost
        /\ history'.written = history.written
    BY <1>a, <2>1, KycAssumption DEF KycTyped, KycHistory
  <2> HIDE DEF c
  <2>8. KycTyped'
    BY <1>0, <1>a, <1>b, <2>1, <2>2, <2>3, <2>4 DEF KycTyped, AttemptsAreLeft
  <2>9. GoesOn(r, here, c)
    BY <1>0, <1>a, <1>b, <2>1, <2>2, <2>3, <2>4 DEF GoesOn, Queued
  <2> QED BY <1>0, <1>c, <2>1, <2>2, <2>3, <2>4, <2>8, <2>9, KycGoes
<1>5. CASE SubmissionFails(r)
  <2>1. /\ ~Delivering(here) /\ db' = db /\ outside' = outside /\ history' = history
        /\ failures < MaxFailures /\ failures' = failures + 1
        /\ calls' = [calls EXCEPT ![r] = Idle]
    BY <1>0, <1>5 DEF SubmissionFails, Fail, Delivering, Goes, Ends
  <2>2. KycTyped'
    BY <1>a, <2>1, BackendAssumption DEF KycTyped, AttemptsAreLeft
  <2>8. KycTyped'
    BY <1>0, <1>a, <1>b, <1>c, <2>1, <2>2 DEF KycTyped, AttemptsAreLeft
  <2>9. GoesOn(r, here, Idle)
    BY <1>0, <1>a, <1>b, <1>c, <2>1, <2>2 DEF GoesOn, Queued
  <2> QED BY <1>0, <1>c, <2>1, <2>2, <2>8, <2>9, KycGoes
<1>6. CASE Lost(r)
  <2>1. /\ Delivering(here) /\ db' = db /\ outside' = outside
        /\ failures < MaxFailures /\ failures' = failures + 1
        /\ calls' = [calls EXCEPT ![r] = Idle]
        /\ history' = [history EXCEPT !.lost = @ \cup {here.key}]
    BY <1>0, <1>6 DEF Lost, Fail, Delivering, Goes, Ends
  <2>2. /\ history' \in KycHistory /\ history'.lost = history.lost \cup {here.key}
        /\ history'.written = history.written
    BY <1>a, <1>b, <2>1 DEF KycTyped, KycHistory
  <2>3. KycTyped'
    BY <1>a, <2>1, <2>2, BackendAssumption DEF KycTyped, AttemptsAreLeft
  <2>4. Settled(here.key)'
    BY <2>1, <2>2 DEF Settled
  <2>8. KycTyped'
    BY <1>0, <1>a, <1>b, <1>c, <2>1, <2>2, <2>3, <2>4 DEF KycTyped, AttemptsAreLeft
  <2>9. GoesOn(r, here, Idle)
    BY <1>0, <1>a, <1>b, <1>c, <2>1, <2>2, <2>3, <2>4 DEF GoesOn, Queued
  <2> QED BY <1>0, <1>c, <2>1, <2>2, <2>3, <2>4, <2>8, <2>9, KycGoes
<1>7. CASE EnqueueWebhookRetry(r)
  <2>1. /\ Delivering(here) /\ outside' = outside /\ history' = history
        /\ failures' = failures
        /\ calls' = [calls EXCEPT ![r] = Idle]
        /\ db' = IF db.jobs[here.key].state # "none" THEN db
                 ELSE [db EXCEPT !.jobs[here.key].state = "waiting"]
    BY <1>0, <1>7 DEF EnqueueWebhookRetry, Step, At, Delivering, Goes, Ends
  <2>2. here.key \in Keys
    BY <1>b, <2>1
  <2>3. CASE db.jobs[here.key].state # "none"
    <3>1. db' = db
      BY <2>1, <2>3
    <3>2. Settled(here.key) \/ Queued(here.key)
      BY <1>a, <1>b, <2>2, <2>3 DEF Settled, Queued, KycJob
    <3>3. Settled(here.key)' \/ Queued(here.key)'
      BY <2>1, <3>1, <3>2 DEF Settled, Queued
    <3>4. KycTyped'
      BY <1>a, <2>1, <3>1 DEF KycTyped, AttemptsAreLeft
    <3>8. KycTyped'
      BY <1>0, <1>a, <1>b, <1>c, <2>1, <3>1, <3>3, <3>4 DEF KycTyped, AttemptsAreLeft
    <3>9. GoesOn(r, here, Idle)
      BY <1>0, <1>a, <1>b, <1>c, <2>1, <3>1, <3>3, <3>4 DEF GoesOn, Queued
    <3> QED BY <1>0, <1>c, <2>1, <3>1, <3>3, <3>4, <3>8, <3>9, KycGoes
  <2>4. CASE db.jobs[here.key].state = "none"
    <3> DEFINE job1 == [db.jobs[here.key] EXCEPT !.state = "waiting"]
    <3>1. db' = [db EXCEPT !.jobs = [@ EXCEPT ![here.key] = job1]]
      BY <2>1, <2>4
    <3>2. job1 \in KycJob /\ job1.state = "waiting" /\ job1.made < JobAttempts
      BY <1>a, <2>2, <2>4, KycAssumption DEF KycJob, KycTyped, AttemptsAreLeft
    <3> HIDE DEF job1
    <3>3. /\ db' \in KycDb /\ db'.delivered = db.delivered
          /\ db'.jobs = [db.jobs EXCEPT ![here.key] = job1]
      BY <1>a, <2>2, <3>1, <3>2 DEF KycTyped, KycDb
    <3>4. /\ db'.jobs[here.key] = job1
          /\ \A k \in Keys : k # here.key => db'.jobs[k] = db.jobs[k]
      BY <1>a, <2>2, <3>3
    <3>5. /\ Queued(here.key)'
          /\ \A k \in Keys : Queued(k) => Queued(k)'
          /\ \A k \in Keys : db'.jobs[k].state = "completed" => k \in outside.received
      BY <1>b, <3>2, <3>4 DEF Queued
    <3>6. KycTyped'
      <4>1. ASSUME NEW k \in Keys
            PROVE  /\ db'.jobs[k].state = "none" => db'.jobs[k].made = 0
                   /\ db'.jobs[k].state = "waiting" => db'.jobs[k].made < JobAttempts
        <5>1. CASE k = here.key
          BY <3>2, <3>4, <5>1
        <5>2. CASE k # here.key
          BY <1>a, <3>4, <5>2 DEF KycTyped, AttemptsAreLeft
        <5> QED BY <5>1, <5>2
      <4>2. AttemptsAreLeft'
        BY <4>1 DEF AttemptsAreLeft
      <4> QED BY <1>a, <2>1, <3>3, <4>2 DEF KycTyped
    <3>8. KycTyped'
      BY <1>0, <1>a, <1>b, <1>c, <2>1, <3>3, <3>5, <3>6 DEF KycTyped, AttemptsAreLeft
    <3>9. GoesOn(r, here, Idle)
      BY <1>0, <1>a, <1>b, <1>c, <2>1, <3>3, <3>5, <3>6 DEF GoesOn, Queued
    <3> QED BY <1>0, <1>c, <2>1, <3>3, <3>5, <3>6, <3>8, <3>9, KycGoes
  <2> QED BY <2>3, <2>4
<1> QED BY <1>1, <1>2, <1>3, <1>4, <1>5, <1>6, <1>7

LEMMA KycDeliverySteps ==
  ASSUME KycSafe, NEW r \in Requests, Delivers(r)
  PROVE  KycSafe'
<1>0. PICK here \in Call : calls[r] = here
  BY KycTypes
<1>a. /\ KycTyped /\ calls \in [Requests -> Call] /\ calls[r] = here
      /\ here.key \in Statuses \X Statuses /\ here.attempt \in 0 .. MaxRetries + 1
      /\ db.jobs \in [Keys -> KycJob] /\ db.delivered \subseteq Keys
      /\ outside.received \subseteq Keys
      /\ history.written \subseteq Keys /\ history.lost \subseteq Keys
      /\ history.requests \in 0 .. MaxRequests
  BY <1>0, KycTypes
<1>b. /\ here.at = "update" \/ Delivering(here) => here.key \in Keys
      /\ here.at = "mark" => here.key \in outside.received
      /\ db.delivered \subseteq outside.received
      /\ \A k \in Keys : db.jobs[k].state = "completed" => k \in outside.received
  BY <1>0 DEF KycSafe, KeysAreTransitions, MarkedIsReceived
<1>c. Idle \in Call /\ Idle.at = "idle" /\ ~Delivering(Idle)
  BY KycAssumption DEF Idle, Call, Statuses, Delivering
<1>d. \A l \in {"post", "mark", "enqueue"} :
          LET c == [here EXCEPT !.at = l]
          IN  c \in Call /\ c.at = l /\ c.key = here.key
  BY <1>a DEF Call
<1>1. ASSUME NEW b \in BOOLEAN, Ask(r, b) PROVE KycSafe'
  <2>1. /\ Delivering(here) /\ db' = db /\ outside' = outside /\ history' = history
        /\ failures' = failures \/ (failures < MaxFailures /\ failures' = failures + 1)
        /\ \/ here.key \in db.delivered /\ calls' = [calls EXCEPT ![r] = Idle]
           \/ calls' = [calls EXCEPT ![r] = [here EXCEPT !.at = "post"]]
    BY <1>0, <1>1 DEF Ask, Step, Fail, At, Delivering, Ends, Goto, Goes, HasBeenDelivered
  <2>2. KycTyped'
    BY <1>a, <2>1, BackendAssumption DEF KycTyped, AttemptsAreLeft
  <2>3. CASE here.key \in db.delivered /\ calls' = [calls EXCEPT ![r] = Idle]
    <3>1. Settled(here.key)'
      BY <1>b, <2>1, <2>3 DEF Settled
    <3>2. GoesOn(r, here, Idle)
      BY <1>a, <1>b, <1>c, <2>1, <2>3, <3>1 DEF GoesOn, Queued
    <3> QED BY <1>0, <1>c, <2>2, <3>2, KycGoes
  <2>4. CASE calls' = [calls EXCEPT ![r] = [here EXCEPT !.at = "post"]]
    <3> DEFINE c == [here EXCEPT !.at = "post"]
    <3>1. c \in Call /\ c.at = "post" /\ c.key = here.key /\ Delivering(c)
      BY <1>d DEF Delivering
    <3>2. calls' = [calls EXCEPT ![r] = c]
      BY <2>4
    <3> HIDE DEF c
    <3>3. GoesOn(r, here, c)
      BY <1>a, <1>b, <2>1, <3>1, <3>2 DEF GoesOn, Queued
    <3> QED BY <1>0, <2>2, <3>1, <3>3, KycGoes
  <2> QED BY <2>1, <2>3, <2>4
<1>2. ASSUME NEW b \in BOOLEAN, MarkDelivered(r, b) PROVE KycSafe'
  <2>1. /\ here.at = "mark" /\ outside' = outside /\ history' = history
        /\ failures' = failures \/ (failures < MaxFailures /\ failures' = failures + 1)
        /\ calls' = [calls EXCEPT ![r] = Idle]
        /\ db' = IF b THEN [db EXCEPT !.delivered = @ \cup {here.key}] ELSE db
    BY <1>0, <1>2 DEF MarkDelivered, Step, Fail, At, Ends, Goes
  <2>2. Delivering(here) /\ here.key \in Keys /\ here.key \in outside.received
    BY <1>b, <2>1 DEF Delivering
  <2>3. /\ db' \in KycDb /\ db'.jobs = db.jobs
        /\ db'.delivered \subseteq db.delivered \cup {here.key}
    BY <1>a, <2>1, <2>2 DEF KycTyped, KycDb
  <2>4. KycTyped'
    BY <1>a, <2>1, <2>3, BackendAssumption DEF KycTyped, AttemptsAreLeft
  <2>5. Settled(here.key)'
    BY <2>1, <2>2 DEF Settled
  <2>6. GoesOn(r, here, Idle)
    BY <1>a, <1>b, <1>c, <2>1, <2>2, <2>3, <2>5 DEF GoesOn, Queued
  <2> QED BY <1>0, <1>c, <2>4, <2>6, KycGoes
<1>3. CASE Delivered(r)
  <2> DEFINE c == [here EXCEPT !.at = "mark"]
  <2>1. /\ Delivering(here) /\ db' = db /\ history' = history /\ failures' = failures
        /\ outside' = [received |-> outside.received \cup {here.key}, told |-> here.key[2]]
        /\ calls' = [calls EXCEPT ![r] = c]
    BY <1>0, <1>3 DEF Delivered, Step, At, Delivering, Receives, Goto, Goes
  <2>2. here.key \in Keys /\ here.key[2] \in Statuses
    BY <1>a, <1>b, <2>1
  <2>3. /\ outside' \in KycOutside
        /\ outside'.received = outside.received \cup {here.key}
    BY <1>a, <2>1, <2>2 DEF KycOutside
  <2>4. KycTyped'
    BY <1>a, <2>1, <2>3 DEF KycTyped, AttemptsAreLeft
  <2>5. c \in Call /\ c.at = "mark" /\ c.key = here.key /\ Delivering(c)
    BY <1>d DEF Delivering
  <2> HIDE DEF c
  <2>6. GoesOn(r, here, c)
    BY <1>a, <1>b, <2>1, <2>2, <2>3, <2>5 DEF GoesOn, Queued
  <2> QED BY <1>0, <2>4, <2>5, <2>6, KycGoes
<1>4. ASSUME NEW b \in BOOLEAN, NEW received \in BOOLEAN, Refused(r, b, received)
      PROVE  KycSafe'
  <2>1. /\ here.at = "post" /\ db' = db /\ history' = history /\ failures' = failures
        /\ \/ outside' = [received |-> outside.received \cup {here.key},
                          told |-> here.key[2]]
           \/ outside' = outside
    BY <1>0, <1>4 DEF Refused, Step, At, Receives
  <2>2. Delivering(here) /\ here.key \in Keys /\ here.key[2] \in Statuses
    BY <1>a, <1>b, <2>1 DEF Delivering
  <2>3. /\ outside' \in KycOutside /\ outside.received \subseteq outside'.received
    BY <1>a, <2>1, <2>2 DEF KycTyped, KycOutside
  <2>4. KycTyped'
    BY <1>a, <2>1, <2>3 DEF KycTyped, AttemptsAreLeft
  <2>5. PICK c \in Call : /\ calls' = [calls EXCEPT ![r] = c] /\ c.key = here.key
                          /\ c.at \in {"post", "enqueue"}
    <3>1. CASE b /\ here.attempt <= MaxRetries
      <4> DEFINE c == [here EXCEPT !.attempt = @ + 1]
      <4>1. calls' = [calls EXCEPT ![r] = c]
        BY <1>0, <1>4, <3>1 DEF Refused, Goes, NextAttempt
      <4>2. c \in Call /\ c.key = here.key /\ c.at = "post"
        BY <1>a, <2>1, <3>1, KycAssumption DEF Call
      <4> QED BY <4>1, <4>2
    <3>2. CASE ~(b /\ here.attempt <= MaxRetries)
      <4> DEFINE c == [here EXCEPT !.at = "enqueue"]
      <4>1. calls' = [calls EXCEPT ![r] = c]
        BY <1>0, <1>4, <3>2 DEF Refused, Goes, Goto
      <4>2. c \in Call /\ c.key = here.key /\ c.at = "enqueue"
        BY <1>d
      <4> QED BY <4>1, <4>2
    <3> QED BY <3>1, <3>2
  <2>6. Delivering(c)
    BY <2>5 DEF Delivering
  <2>7. GoesOn(r, here, c)
    BY <1>a, <1>b, <2>1, <2>2, <2>3, <2>5, <2>6 DEF GoesOn, Queued
  <2> QED BY <1>0, <2>4, <2>5, <2>7, KycGoes
<1>5. CASE EnqueueWebhookRetry(r)
  BY <1>5, KycCallSteps
<1> QED BY <1>1, <1>2, <1>3, <1>4, <1>5 DEF Delivers

LEMMA KycOtherSteps ==
  ASSUME KycSafe,
         \/ DeleteCustomer \/ UNCHANGED vars
         \/ \E k \in Keys : Works(k) \/ Expires(k) \/ JobRemoved(k)
  PROVE  KycSafe'
<1>a. /\ KycTyped /\ calls \in [Requests -> Call]
      /\ db.jobs \in [Keys -> KycJob] /\ db.delivered \subseteq Keys
      /\ outside.received \subseteq Keys
      /\ history.written \subseteq Keys /\ history.lost \subseteq Keys
      /\ history.requests \in 0 .. MaxRequests
  BY KycTypes
<1>b. /\ db.delivered \subseteq outside.received
      /\ \A k \in Keys : db.jobs[k].state = "completed" => k \in outside.received
  BY DEF KycSafe, MarkedIsReceived
<1>1. CASE DeleteCustomer
  <2>1. /\ calls' = calls /\ outside' = outside /\ failures' = failures
        /\ db' = [db EXCEPT !.deleted = TRUE]
        /\ history' = [history EXCEPT !.requests = @ + 1]
        /\ history.requests < MaxRequests
    BY <1>1 DEF DeleteCustomer, Step, Arrives
  <2>2. db' \in KycDb /\ db'.jobs = db.jobs /\ db'.delivered = db.delivered
    BY <1>a, <2>1 DEF KycTyped, KycDb
  <2>3. /\ history' \in KycHistory /\ history'.lost = history.lost
        /\ history'.written = history.written
    BY <1>a, <2>1, KycAssumption DEF KycTyped, KycHistory
  <2>4. KycTyped'
    BY <1>a, <2>1, <2>2, <2>3 DEF KycTyped, AttemptsAreLeft
  <2> QED BY <1>b, <2>1, <2>2, <2>3, <2>4, KycStays DEF Queued
<1>2. CASE UNCHANGED vars
  <2>1. /\ db' = db /\ calls' = calls /\ outside' = outside /\ history' = history
        /\ failures' = failures
    BY <1>2 DEF vars
  <2>2. KycTyped'
    BY <1>a, <2>1 DEF KycTyped, AttemptsAreLeft
  <2> QED BY <1>b, <2>1, <2>2, KycStays DEF Queued
<1>3. ASSUME NEW k \in Keys, Works(k) PROVE KycSafe'
  <2>1. PICK ok \in BOOLEAN, received \in BOOLEAN : ProcessJob(k, ok, received)
    BY <1>3 DEF Works
  <2> DEFINE made == IF ok THEN [db.jobs[k] EXCEPT !.state = "completed"]
                     ELSE AttemptFails(db.jobs[k])
  <2>2. /\ db.jobs[k].state = "waiting" /\ calls' = calls /\ history' = history
        /\ failures' = failures /\ (ok => received)
        /\ db' = [db EXCEPT !.jobs = [@ EXCEPT ![k] = made]]
        /\ outside' = IF received THEN [received |-> outside.received \cup {k}, told |-> k[2]]
                      ELSE outside
    BY <2>1 DEF ProcessJob, Step, Receives
  <2>3. db.jobs[k] \in KycJob /\ k[2] \in Statuses
    BY <1>a DEF Keys
  <2>4. /\ made \in KycJob /\ (made.state = "completed" => received)
        /\ made.state # "completed" => made.state \in {"waiting", "failed"}
        /\ made.state # "none" /\ (made.state = "waiting" => made.made < JobAttempts)
    <3>1. CASE ok
      BY <2>2, <2>3, <3>1 DEF KycJob
    <3>2. CASE ~ok
      <4> DEFINE j == db.jobs[k]
      <4>1. j.made \in Nat /\ j.made + 1 \in 0 .. JobAttempts
        BY <1>a, <2>2, <2>3, KycAssumption DEF KycJob, KycTyped, AttemptsAreLeft
      <4>2. made = [state |-> IF j.made + 1 < JobAttempts THEN "waiting" ELSE "failed",
                    made |-> j.made + 1]
        BY <3>2 DEF AttemptFails
      <4> QED BY <4>1, <4>2 DEF KycJob
    <3> QED BY <3>1, <3>2
  <2>l. PICK next \in KycJob :
            /\ next = made /\ (next.state = "completed" => received)
            /\ next.state # "completed" => next.state \in {"waiting", "failed"}
            /\ next.state # "none" /\ (next.state = "waiting" => next.made < JobAttempts)
    BY <2>4, Zenon
  <2> HIDE DEF made
  <2>5. /\ db' \in KycDb /\ db'.delivered = db.delivered
        /\ db'.jobs = [db.jobs EXCEPT ![k] = next]
    BY <1>a, <2>2, <2>l DEF KycTyped, KycDb
  <2>6. /\ outside' \in KycOutside /\ outside.received \subseteq outside'.received
        /\ received => k \in outside'.received
    BY <1>a, <2>2, <2>3 DEF KycTyped, KycOutside
  <2>8. db'.jobs[k] = next /\ \A q \in Keys : q # k => db'.jobs[q] = db.jobs[q]
    BY <1>a, <2>5
  <2>7. KycTyped'
    BY <1>a, <2>2, <2>l, <2>5, <2>6, <2>8 DEF KycTyped, AttemptsAreLeft
  <2>9. /\ \A q \in Keys : Queued(q) => Queued(q)' \/ Settled(q)'
        /\ \A q \in Keys : db'.jobs[q].state = "completed" => q \in outside'.received
    BY <1>b, <2>l, <2>6, <2>8 DEF Queued, Settled
  <2> QED BY <1>b, <2>2, <2>5, <2>6, <2>7, <2>9, KycStays
<1>4. ASSUME NEW k \in Keys, Expires(k) PROVE KycSafe'
  <2>1. /\ calls' = calls /\ outside' = outside /\ failures' = failures
        /\ history' = history
        /\ db' = [db EXCEPT !.delivered = @ \ {k}]
    BY <1>4 DEF Expires, Step
  <2>2. db' \in KycDb /\ db'.jobs = db.jobs /\ db'.delivered \subseteq db.delivered
    BY <1>a, <2>1 DEF KycTyped, KycDb
  <2>3. KycTyped'
    BY <1>a, <2>1, <2>2 DEF KycTyped, AttemptsAreLeft
  <2> QED BY <1>b, <2>1, <2>2, <2>3, KycStays DEF Queued
<1>5. ASSUME NEW k \in Keys, JobRemoved(k) PROVE KycSafe'
  <2>1. /\ db.jobs[k].state \in {"completed", "failed"}
        /\ calls' = calls /\ outside' = outside /\ failures' = failures
        /\ db' = [db EXCEPT !.jobs = [@ EXCEPT ![k] = NoJob]]
        /\ history' = [history EXCEPT !.lost =
                          IF db.jobs[k].state = "failed" THEN @ \cup {k} ELSE @]
    BY <1>5 DEF JobRemoved, Step
  <2>2. NoJob \in KycJob /\ NoJob.state = "none" /\ NoJob.made = 0
    BY KycAssumption DEF NoJob, KycJob
  <2>3. /\ db' \in KycDb /\ db'.delivered = db.delivered
        /\ db'.jobs = [db.jobs EXCEPT ![k] = NoJob]
    BY <1>a, <2>1, <2>2 DEF KycTyped, KycDb
  <2>4. /\ history' \in KycHistory /\ history.lost \subseteq history'.lost
        /\ history'.written = history.written
        /\ db.jobs[k].state = "failed" => k \in history'.lost
    BY <1>a, <2>1 DEF KycTyped, KycHistory
  <2>6. db'.jobs[k] = NoJob /\ \A q \in Keys : q # k => db'.jobs[q] = db.jobs[q]
    BY <1>a, <2>3
  <2>5. KycTyped'
    BY <1>a, <2>1, <2>2, <2>3, <2>4, <2>6 DEF KycTyped, AttemptsAreLeft
  <2>7. /\ \A q \in Keys : Queued(q) => Queued(q)' \/ Settled(q)'
        /\ \A q \in Keys : db'.jobs[q].state = "completed" => q \in outside.received
    BY <1>b, <2>1, <2>2, <2>4, <2>6 DEF Queued, Settled
  <2> QED BY <1>b, <2>1, <2>3, <2>4, <2>5, <2>7, KycStays
<1> QED BY <1>1, <1>2, <1>3, <1>4, <1>5

LEMMA KycNext == KycSafe /\ [Next]_vars => KycSafe'
<1> SUFFICES ASSUME KycSafe, [Next]_vars PROVE KycSafe'
  OBVIOUS
<1>1. ASSUME NEW r \in Requests,
             \/ Proceeds(r) \/ PutCustomer(r) \/ SubmissionFails(r) \/ Lost(r)
             \/ \E st \in Statuses : HandleWebhook(r, st)
      PROVE  KycSafe'
  BY <1>1, KycCallSteps, KycDeliverySteps DEF Proceeds
<1> QED BY <1>1, KycOtherSteps DEF Next

LEMMA KycInitInv == ServicesInit => KycInv
  BY KycInit DEF ServicesInit, Start, KycInv, Breaker!Init, Breaker!Running,
     Indexer!Init, Indexer!Running, Sep31!Init, Sep31!Running, Cache!Init,
     Cache!Running, Wallet!Init, Wallet!Running, Store!Init, Store!Running

LEMMA KycInvSteps == KycInv /\ [ServicesNext]_servicesVars => KycInv'
  BY OwnSteps, KycNext DEF KycInv

\* No transition of a customer's status that was written goes unaccounted for.
THEOREM KycCorrect == ServicesSpec => []Accounted
<1>1. KycInv => Accounted
  BY DEF KycInv, KycSafe, AllAccounted, AccountedFor, Settled, Queued, Delivering, Accounted
<1> QED BY KycInitInv, KycInvSteps, <1>1, PTL DEF ServicesSpec

------------------------------------------------------------------------------
(* The SEP-31 payments *)

PaymentTx == [status : Sep31!Statuses \cup {"none"}, submitted : BOOLEAN,
              stale : BOOLEAN, quoted : BOOLEAN]
PaymentDb == [quote : {"PENDING", "EXECUTED", "EXPIRED"}, tx : [Requests -> PaymentTx]]
PaymentCalls == [create : [Requests -> {"idle", "claim", "quoted", "plain", "ended"}],
                 pending : SUBSET Requests,
                 writing : {Sep31!Nothing} \cup [tx : Requests, status : Sep31!Statuses]]
PaymentOutside == [past : BOOLEAN,
                   ledger : [Requests -> {"absent", "successful", "failed"}]]

\* r has claimed the quote, or its payment has it.
HasQuote(r) == calls.create[r] = "quoted" \/ db.tx[r].quoted

\* What is claimed is claimed by one request, and is never free again.
OneHasQuote ==
    /\ \A r \in Requests : HasQuote(r) => db.quote = "EXECUTED"
    /\ \A p, q \in Requests : HasQuote(p) /\ HasQuote(q) => p = q

QuoteSafe == Sep31!TypeOK /\ OneHasQuote
QuoteInv == service = "sep31" => QuoteSafe

LEMMA QuoteTypes ==
  Sep31!TypeOK <=> /\ db \in PaymentDb /\ calls \in PaymentCalls
                   /\ outside \in PaymentOutside /\ history \in 0 .. MaxUpdates
                   /\ failures \in 0 .. MaxFailures
  BY DEF Sep31!TypeOK, PaymentDb, PaymentTx, PaymentCalls, PaymentOutside

\* A step after which nobody has the quote who had it not keeps it with one.
LEMMA QuoteKept ==
  ASSUME OneHasQuote, \A r \in Requests : HasQuote(r)' => HasQuote(r),
         db.quote = "EXECUTED" => db'.quote = "EXECUTED"
  PROVE  OneHasQuote'
  BY DEF OneHasQuote

LEMMA QuoteInit == Sep31!Init => QuoteSafe
<1> SUFFICES ASSUME Sep31!Init PROVE QuoteSafe
  OBVIOUS
<1>1. Sep31!NoTransaction \in PaymentTx /\ ~Sep31!NoTransaction.quoted
  BY DEF Sep31!NoTransaction, PaymentTx
<1>2. db \in PaymentDb /\ \A r \in Requests : db.tx[r] = Sep31!NoTransaction
  BY <1>1 DEF Sep31!Init, PaymentDb
<1>3. calls \in PaymentCalls /\ \A r \in Requests : calls.create[r] = "idle"
  BY DEF Sep31!Init, PaymentCalls, Sep31!Nothing
<1>4. outside \in PaymentOutside
  BY DEF Sep31!Init, PaymentOutside
<1> QED BY <1>1, <1>2, <1>3, <1>4, QuoteTypes, BackendAssumption, Sep31Assumption
    DEF QuoteSafe, OneHasQuote, HasQuote, Sep31!Init, Sep31!Running

\* A request that goes on, and a row that is written.
LEMMA PaymentGoes ==
  ASSUME calls \in PaymentCalls, NEW r \in Requests,
         NEW l \in {"idle", "claim", "quoted", "plain", "ended"}, Sep31!Goto(r, l)
  PROVE  /\ calls' \in PaymentCalls /\ calls'.create[r] = l
         /\ \A q \in Requests : q # r => calls'.create[q] = calls.create[q]
<1>1. calls' = [calls EXCEPT !.create = [@ EXCEPT ![r] = l]]
  BY DEF Sep31!Goto
<1>2. calls.create \in [Requests -> {"idle", "claim", "quoted", "plain", "ended"}]
  BY DEF PaymentCalls
<1>3. calls'.create = [calls.create EXCEPT ![r] = l] /\ calls' \in PaymentCalls
  BY <1>1, <1>2 DEF PaymentCalls
<1> QED BY <1>2, <1>3

LEMMA PaymentWritten ==
  ASSUME db \in PaymentDb, NEW r \in Requests, NEW t \in PaymentTx,
         db' = [db EXCEPT !.tx = [@ EXCEPT ![r] = t]]
  PROVE  /\ db' \in PaymentDb /\ db'.quote = db.quote /\ db'.tx[r] = t
         /\ \A q \in Requests : q # r => db'.tx[q] = db.tx[q]
<1>1. db.tx \in [Requests -> PaymentTx]
  BY DEF PaymentDb
<1>2. db'.tx = [db.tx EXCEPT ![r] = t] /\ db' \in PaymentDb /\ db'.quote = db.quote
  BY <1>1 DEF PaymentDb
<1> QED BY <1>1, <1>2

\* The three ways a payment's row is edited, none of which touches what it was sold.
Revised(x, st, b) == [x EXCEPT !.status = st, !.stale = b]
Resent(x, st, f) == [x EXCEPT !.status = st, !.stale = FALSE, !.submitted = f]
Persisted(x, f) == [x EXCEPT !.status = "pending_sender", !.quoted = f]

LEMMA PaymentRevised ==
  ASSUME NEW x \in PaymentTx, NEW st \in Sep31!Statuses, NEW b \in BOOLEAN
  PROVE  Revised(x, st, b) \in PaymentTx /\ Revised(x, st, b).quoted = x.quoted
  BY DEF PaymentTx, Revised

LEMMA PaymentResent ==
  ASSUME NEW x \in PaymentTx, NEW st \in Sep31!Statuses, NEW f \in BOOLEAN
  PROVE  Resent(x, st, f) \in PaymentTx /\ Resent(x, st, f).quoted = x.quoted
<1> DEFINE u == [x EXCEPT !.status = st, !.stale = FALSE]
           t == [u EXCEPT !.submitted = f]
<1>1. u \in PaymentTx /\ u.quoted = x.quoted
  BY DEF PaymentTx
<1>2. t \in PaymentTx /\ t.quoted = x.quoted
  <2> HIDE DEF u
  <2> QED BY <1>1 DEF PaymentTx
<1>3. Resent(x, st, f) = t
  BY Zenon DEF Resent
<1> HIDE DEF t
<1> QED BY <1>2, <1>3

LEMMA PaymentPersisted ==
  ASSUME NEW x \in PaymentTx, NEW f \in BOOLEAN
  PROVE  Persisted(x, f) \in PaymentTx /\ Persisted(x, f).quoted = f
  BY DEF PaymentTx, Persisted, Sep31!Statuses

LEMMA QuoteNext == QuoteSafe /\ [Sep31!Next]_vars => QuoteSafe'
<1> SUFFICES ASSUME QuoteSafe, [Sep31!Next]_vars PROVE QuoteSafe'
  OBVIOUS
<1>a. /\ db \in PaymentDb /\ calls \in PaymentCalls /\ outside \in PaymentOutside
      /\ history \in 0 .. MaxUpdates /\ failures \in 0 .. MaxFailures
      /\ OneHasQuote
  BY QuoteTypes DEF QuoteSafe
<1>b. /\ \A r \in Requests : db.tx[r] \in PaymentTx
      /\ calls.pending \subseteq Requests
      /\ outside.ledger \in [Requests -> {"absent", "successful", "failed"}]
  BY <1>a DEF PaymentDb, PaymentCalls, PaymentOutside
<1>c. /\ db' \in PaymentDb /\ calls' \in PaymentCalls /\ outside' \in PaymentOutside
      /\ history' \in 0 .. MaxUpdates /\ failures' \in 0 .. MaxFailures
      /\ OneHasQuote'
      => QuoteSafe'
  <2>1. Sep31!TypeOK' <=> /\ db' \in PaymentDb /\ calls' \in PaymentCalls
                          /\ outside' \in PaymentOutside /\ history' \in 0 .. MaxUpdates
                          /\ failures' \in 0 .. MaxFailures
    BY DEF Sep31!TypeOK, PaymentDb, PaymentTx, PaymentCalls, PaymentOutside
  <2> QED BY <2>1 DEF QuoteSafe
<1>1. ASSUME NEW r \in Requests, Sep31!ReadQuote(r) PROVE QuoteSafe'
  <2>1. PICK l \in {"claim", "ended"} : Sep31!Goto(r, l)
    BY <1>1 DEF Sep31!ReadQuote
  <2>2. /\ db' = db /\ outside' = outside /\ history' = history /\ failures' = failures
    BY <1>1 DEF Sep31!ReadQuote, Sep31!Step
  <2>3. \A q \in Requests : HasQuote(q)' => HasQuote(q)
    BY <1>a, <2>1, <2>2, PaymentGoes DEF HasQuote
  <2> QED BY <1>a, <1>c, <2>1, <2>2, <2>3, PaymentGoes, QuoteKept
<1>2. ASSUME NEW r \in Requests, Sep31!WithoutQuote(r) PROVE QuoteSafe'
  <2>1. Sep31!Goto(r, "plain")
    BY <1>2 DEF Sep31!WithoutQuote
  <2>2. /\ db' = db /\ outside' = outside /\ history' = history /\ failures' = failures
    BY <1>2 DEF Sep31!WithoutQuote, Sep31!Step
  <2>3. \A q \in Requests : HasQuote(q)' => HasQuote(q)
    BY <1>a, <2>1, <2>2, PaymentGoes DEF HasQuote
  <2> QED BY <1>a, <1>c, <2>1, <2>2, <2>3, PaymentGoes, QuoteKept
<1>3. ASSUME NEW r \in Requests, Sep31!Claim(r) PROVE QuoteSafe'
  <2>1. outside' = outside /\ history' = history /\ failures' = failures
    BY <1>3 DEF Sep31!Claim, Sep31!Step
  <2>2. CASE db.quote = "PENDING"
    <3>1. db' = [db EXCEPT !.quote = "EXECUTED"] /\ Sep31!Goto(r, "quoted")
      BY <1>3, <2>2 DEF Sep31!Claim, Sep31!Claimable
    <3>2. db' \in PaymentDb /\ db'.quote = "EXECUTED" /\ db'.tx = db.tx
      BY <1>a, <3>1 DEF PaymentDb
    <3>3. \A q \in Requests : ~HasQuote(q)
      BY <1>a, <2>2 DEF OneHasQuote
    <3>4. \A q \in Requests : HasQuote(q)' => q = r
      BY <1>a, <3>1, <3>2, <3>3, PaymentGoes DEF HasQuote
    <3>5. OneHasQuote'
      BY <3>2, <3>4 DEF OneHasQuote
    <3> QED BY <1>a, <1>c, <2>1, <3>1, <3>2, <3>5, PaymentGoes
  <2>3. CASE db.quote # "PENDING"
    <3>1. db' = db /\ Sep31!Goto(r, "ended")
      BY <1>3, <2>3 DEF Sep31!Claim, Sep31!Claimable
    <3>2. \A q \in Requests : HasQuote(q)' => HasQuote(q)
      BY <1>a, <3>1, PaymentGoes DEF HasQuote
    <3> QED BY <1>a, <1>c, <2>1, <3>1, <3>2, PaymentGoes, QuoteKept
  <2> QED BY <2>2, <2>3
<1>4. ASSUME NEW r \in Requests, Sep31!Persist(r) PROVE QuoteSafe'
  <2> DEFINE f == calls.create[r] = "quoted"
             t == Persisted(db.tx[r], f)
  <2>1. /\ outside' = outside /\ history' = history /\ failures' = failures
        /\ Sep31!Goto(r, "ended") /\ db' = [db EXCEPT !.tx = [@ EXCEPT ![r] = t]]
    BY <1>4, Zenon DEF Sep31!Persist, Sep31!Step, Sep31!At, Persisted
  <2>2. f \in BOOLEAN /\ (f => HasQuote(r))
    BY DEF HasQuote
  <2>3. t \in PaymentTx /\ t.quoted = f
    <3> HIDE DEF f
    <3> QED BY <1>b, <2>2, PaymentPersisted
  <2>4. PICK u \in PaymentTx : u = t
    BY <2>3
  <2>5. /\ db' \in PaymentDb /\ db'.quote = db.quote /\ db'.tx[r] = u
        /\ \A q \in Requests : q # r => db'.tx[q] = db.tx[q]
    <3> HIDE DEF t
    <3> QED BY <1>a, <2>1, <2>4, PaymentWritten
  <2>6. u.quoted => HasQuote(r)
    <3> HIDE DEF t, f
    <3> QED BY <2>2, <2>3, <2>4
  <2>7. \A q \in Requests : HasQuote(q)' => HasQuote(q)
    <3>1. /\ calls'.create[r] = "ended"
          /\ \A q \in Requests : q # r => calls'.create[q] = calls.create[q]
      BY <1>a, <2>1, PaymentGoes
    <3> HIDE DEF t, f
    <3> QED BY <2>5, <2>6, <3>1 DEF HasQuote
  <2> QED BY <1>a, <1>c, <2>1, <2>5, <2>7, PaymentGoes, QuoteKept
<1>5. ASSUME NEW r \in Requests, Sep31!CreationFails(r) PROVE QuoteSafe'
  <2>1. /\ db' = db /\ outside' = outside /\ history' = history
        /\ failures < MaxFailures /\ failures' = failures + 1 /\ Sep31!Goto(r, "ended")
    BY <1>5 DEF Sep31!CreationFails, Sep31!Fail
  <2>2. \A q \in Requests : HasQuote(q)' => HasQuote(q)
    BY <1>a, <2>1, PaymentGoes DEF HasQuote
  <2> QED BY <1>a, <1>c, <2>1, <2>2, PaymentGoes, QuoteKept, BackendAssumption
<1>6. ASSUME NEW r \in Requests, NEW t \in PaymentTx, calls.create' = calls.create,
             calls' \in PaymentCalls, db' = [db EXCEPT !.tx = [@ EXCEPT ![r] = t]],
             t.quoted = db.tx[r].quoted, outside' = outside,
             history' \in 0 .. MaxUpdates, failures' = failures
      PROVE  QuoteSafe'
  <2>1. \A q \in Requests : HasQuote(q)' => HasQuote(q)
    BY <1>a, <1>6, PaymentWritten DEF HasQuote
  <2> QED BY <1>a, <1>c, <1>6, <2>1, PaymentWritten, QuoteKept
<1>7. ASSUME calls.create' = calls.create, calls' \in PaymentCalls, db' = db,
             outside' \in PaymentOutside, history' = history,
             failures' \in 0 .. MaxFailures
      PROVE  QuoteSafe'
  <2>1. \A q \in Requests : HasQuote(q)' => HasQuote(q)
    BY <1>7 DEF HasQuote
  <2> QED BY <1>a, <1>c, <1>7, <2>1, QuoteKept
<1>8. ASSUME NEW r \in Requests, NEW st \in Sep31!Statuses \ {"error"}, NEW b \in BOOLEAN,
             Sep31!UpdateStatus(r, st, b)
      PROVE  QuoteSafe'
  <2> DEFINE f == db.tx[r].submitted \/ b
             t == Resent(db.tx[r], st, f)
  <2>1. /\ db' = [db EXCEPT !.tx = [@ EXCEPT ![r] = t]] /\ calls' = calls
        /\ outside' = outside /\ failures' = failures
        /\ history < MaxUpdates /\ history' = history + 1
    BY <1>8, Zenon DEF Sep31!UpdateStatus, Sep31!Step, Resent
  <2>2. t \in PaymentTx /\ t.quoted = db.tx[r].quoted
    <3>1. f \in BOOLEAN
      OBVIOUS
    <3> HIDE DEF f
    <3> QED BY <1>b, <3>1, PaymentResent
  <2> HIDE DEF t
  <2> QED BY <1>a, <1>6, <2>1, <2>2, Sep31Assumption
<1>9. ASSUME NEW r \in Requests, Sep31!Ages(r) PROVE QuoteSafe'
  <2> DEFINE t == [db.tx[r] EXCEPT !.stale = TRUE]
  <2>1. /\ db' = [db EXCEPT !.tx = [@ EXCEPT ![r] = t]] /\ calls' = calls
        /\ outside' = outside /\ failures' = failures /\ history' = history
    BY <1>9 DEF Sep31!Ages, Sep31!Step
  <2>2. t \in PaymentTx /\ t.quoted = db.tx[r].quoted
    BY <1>b DEF PaymentTx
  <2> HIDE DEF t
  <2> QED BY <1>a, <1>6, <2>1, <2>2
<1>10. CASE Sep31!WriteOutcome
  <2>1. PICK r \in Requests, st \in Sep31!Statuses : calls.writing = [tx |-> r, status |-> st]
    BY <1>a, <1>10 DEF Sep31!WriteOutcome, PaymentCalls
  <2> DEFINE t == Revised(db.tx[r], st, FALSE)
  <2>2. /\ db' = [db EXCEPT !.tx = [@ EXCEPT ![r] = t]]
        /\ calls' = [calls EXCEPT !.writing = Sep31!Nothing]
        /\ outside' = outside /\ failures' = failures /\ history' = history
    BY <1>10, <2>1 DEF Sep31!WriteOutcome, Sep31!Step, Revised
  <2>3. calls' \in PaymentCalls /\ calls'.create = calls.create
    BY <1>a, <2>2 DEF PaymentCalls
  <2>4. t \in PaymentTx /\ t.quoted = db.tx[r].quoted
    BY <1>b, PaymentRevised
  <2> HIDE DEF t
  <2> QED BY <1>a, <1>6, <2>2, <2>3, <2>4
<1>11. CASE Sep31!Reconcile
  <2>1. PICK pending \in SUBSET Requests : calls' = [calls EXCEPT !.pending = pending]
    BY <1>11 DEF Sep31!Reconcile
  <2>2. calls' \in PaymentCalls /\ calls'.create = calls.create
    BY <1>a, <2>1 DEF PaymentCalls
  <2> QED BY <1>a, <1>7, <1>11, <2>2 DEF Sep31!Reconcile, Sep31!Step
<1>12. ASSUME NEW r \in Requests, Sep31!LookUp(r) PROVE QuoteSafe'
  <2>1. PICK pending \in SUBSET Requests,
             writing \in {Sep31!Nothing} \cup [tx : Requests, status : Sep31!Statuses] :
            calls' = [calls EXCEPT !.pending = pending, !.writing = writing]
    <3>1. CASE outside.ledger[r] = "absent"
      <4>1. calls' = [calls EXCEPT !.pending = @ \ {r}] /\ calls.writing = Sep31!Nothing
        BY <1>12, <3>1 DEF Sep31!LookUp, Sep31!NotFound
      <4>2. calls' = [calls EXCEPT !.pending = calls.pending \ {r},
                                   !.writing = Sep31!Nothing]
        BY <1>a, <4>1 DEF PaymentCalls
      <4> QED BY <1>b, <4>2
    <3>2. CASE outside.ledger[r] # "absent"
      BY <1>12, <1>b, <3>2 DEF Sep31!LookUp, Sep31!Statuses
    <3> QED BY <3>1, <3>2
  <2>2. calls' \in PaymentCalls /\ calls'.create = calls.create
    BY <1>a, <2>1 DEF PaymentCalls
  <2> QED BY <1>a, <1>7, <1>12, <2>2 DEF Sep31!LookUp, Sep31!Step
<1>13. ASSUME NEW r \in Requests, Sep31!RowFails(r) PROVE QuoteSafe'
  <2>1. \/ calls' = [calls EXCEPT !.pending = @ \ {r}]
        \/ calls' = [calls EXCEPT !.writing = Sep31!Nothing]
    BY <1>13 DEF Sep31!RowFails
  <2>2. calls' \in PaymentCalls /\ calls'.create = calls.create
    BY <1>a, <2>1 DEF PaymentCalls
  <2> QED BY <1>a, <1>7, <1>13, <2>2, BackendAssumption DEF Sep31!RowFails, Sep31!Fail
<1>14. ASSUME NEW r \in Requests, NEW o \in {"successful", "failed"}, Sep31!Applied(r, o)
       PROVE  QuoteSafe'
  <2>1. outside' = [outside EXCEPT !.ledger = [@ EXCEPT ![r] = o]]
    BY <1>14 DEF Sep31!Applied
  <2>2. outside' \in PaymentOutside
    BY <1>a, <2>1 DEF PaymentOutside
  <2> QED BY <1>a, <1>7, <1>14, <2>2 DEF Sep31!Applied, Sep31!Step
<1>15. CASE Sep31!QuoteExpires
  <2>1. outside' = [outside EXCEPT !.past = TRUE]
    BY <1>15 DEF Sep31!QuoteExpires
  <2>2. outside' \in PaymentOutside
    BY <1>a, <2>1 DEF PaymentOutside
  <2> QED BY <1>a, <1>7, <1>15, <2>2 DEF Sep31!QuoteExpires, Sep31!Step
<1>16. CASE Sep31!ExpireStaleQuotes
  <2>1. /\ db' = [db EXCEPT !.quote = "EXPIRED"] /\ db.quote = "PENDING"
        /\ calls' = calls /\ outside' = outside /\ history' = history
        /\ failures' = failures
    BY <1>16 DEF Sep31!ExpireStaleQuotes, Sep31!Expiring, Sep31!Step
  <2>2. db' \in PaymentDb /\ db'.tx = db.tx
    BY <1>a, <2>1 DEF PaymentDb
  <2>3. \A q \in Requests : HasQuote(q)' => HasQuote(q)
    BY <2>1, <2>2 DEF HasQuote
  <2> QED BY <1>a, <1>c, <2>1, <2>2, <2>3, QuoteKept
<1>17. CASE UNCHANGED vars
  BY <1>a, <1>7, <1>17 DEF vars
<1> QED BY <1>1, <1>2, <1>3, <1>4, <1>5, <1>8, <1>9, <1>10, <1>11, <1>12, <1>13, <1>14,
           <1>15, <1>16, <1>17 DEF Sep31!Next

LEMMA QuoteInitInv == ServicesInit => QuoteInv
  BY QuoteInit DEF ServicesInit, Start, QuoteInv, Breaker!Init, Breaker!Running,
     Indexer!Init, Indexer!Running, Init, Running, Cache!Init, Cache!Running,
     Wallet!Init, Wallet!Running, Store!Init, Store!Running

LEMMA QuoteInvSteps == QuoteInv /\ [ServicesNext]_servicesVars => QuoteInv'
  BY OwnSteps, QuoteNext DEF QuoteInv

\* A quote prices one payment, however many requests, and is EXECUTED from then on.
THEOREM QuotesCorrect == ServicesSpec => []QuoteUsedOnce
<1>1. QuoteInv => QuoteUsedOnce
  <2> SUFFICES ASSUME QuoteInv, service = "sep31" PROVE Sep31!QuoteUsedOnce
    BY DEF QuoteUsedOnce
  <2> QED BY DEF QuoteInv, QuoteSafe, OneHasQuote, HasQuote, Sep31!QuoteUsedOnce
<1> QED BY QuoteInitInv, QuoteInvSteps, <1>1, PTL DEF ServicesSpec

------------------------------------------------------------------------------
(* The contract queue *)

QueueJob == [state : Queue!JobStates, made : Nat, stalls : 0 .. MaxStalls,
             outcome : Queue!Outcomes]
QueueRow == [status : Queue!JobStatus, result : Queue!Outcomes, completedAt : BOOLEAN]

\* An outcome is there to stay: a job that has one is never run again, and an update
\* to COMPLETED is on its way of no other.
OutcomeIsFinal ==
    /\ job.outcome # "none" => job.state \in {"completed", "removed"}
    /\ updates["COMPLETED"] > 0 => job.outcome # "none"

\* A processor that is about to report success has its transaction on the ledger.
ReportsApplied == job.state = "return" => applied

QueueSafe ==
    /\ Queue!TypeOK /\ OutcomeIsFinal /\ ReportsApplied
    /\ Queue!CompletedIsTrue /\ Queue!SuccessIsApplied /\ Queue!DeadLettered

LEMMA QueueInit == Queue!Init => QueueSafe
<1> SUFFICES ASSUME Queue!Init PROVE QueueSafe
  OBVIOUS
<1>1. Queue!TypeOK
  <2>1. job \in QueueJob /\ row = Queue!NoRow
    BY QueueAssumption DEF Queue!Init, QueueJob, Queue!JobStates, Queue!Outcomes
  <2>2. /\ updates \in [Queue!Listened -> Nat]
        /\ pc \in [Requests -> {"idle", "createRow", "markRetrying",
                                "markCancelled", "deleteRows"}]
    BY DEF Queue!Init
  <2>3. /\ burying \in Nat /\ deadLetters \in Nat /\ applied \in BOOLEAN
        /\ requests = 0 /\ failures = 0
    BY DEF Queue!Init
  <2>4. requests \in 0 .. MaxRequests /\ failures \in 0 .. QueueFailures
    BY <2>3, QueueAssumption, KycAssumption
  <2> QED BY <2>1, <2>2, <2>3, <2>4 DEF Queue!TypeOK, QueueJob
<1>2. /\ job.state = "absent" /\ job.outcome = "none" /\ job.made = 0
      /\ row.status = "NONE" /\ row.result = "none" /\ burying = 0 /\ deadLetters = 0
      /\ updates["COMPLETED"] = 0
  BY DEF Queue!Init, Queue!NoRow, Queue!Listened
<1> QED BY <1>1, <1>2, QueueAssumption
    DEF QueueSafe, OutcomeIsFinal, ReportsApplied, Queue!CompletedIsTrue,
        Queue!SuccessIsApplied, Queue!DeadLettered

QueueTyped ==
    /\ job \in QueueJob /\ row \in QueueRow \cup {Queue!NoRow}
    /\ updates \in [Queue!Listened -> Nat] /\ burying \in Nat
    /\ deadLetters \in Nat /\ applied \in BOOLEAN /\ failures \in 0 .. QueueFailures
    /\ pc \in [Requests -> {"idle", "createRow", "markRetrying",
                            "markCancelled", "deleteRows"}]
    /\ requests \in 0 .. MaxRequests
    /\ job.state \in Queue!JobStates /\ job.made \in Nat
    /\ job.stalls \in 0 .. MaxStalls /\ job.outcome \in Queue!Outcomes

LEMMA QueueTypes ==
  ASSUME QueueSafe
  PROVE  QueueTyped
<1>1. job \in QueueJob
  BY DEF QueueSafe, Queue!TypeOK, QueueJob
<1> QED BY <1>1 DEF QueueSafe, Queue!TypeOK, QueueJob, QueueRow, QueueTyped

\* The job of a step: it goes on, after one more attempt or one more stall, or has
\* its first outcome.
LEMMA QueueJobGoes ==
  ASSUME job \in QueueJob, NEW st \in Queue!JobStates, job' = [job EXCEPT !.state = st]
  PROVE  /\ job' \in QueueJob /\ job'.state = st /\ job'.made = job.made
         /\ job'.stalls = job.stalls /\ job'.outcome = job.outcome
  BY DEF QueueJob

JobThrows(st, made) == job' = [job EXCEPT !.state = st, !.made = made]
JobEnds(st, o) == job' = [job EXCEPT !.state = st, !.outcome = o]

LEMMA QueueJobThrows ==
  ASSUME job \in QueueJob, NEW st \in Queue!JobStates, NEW made \in Nat,
         JobThrows(st, made)
  PROVE  /\ job' \in QueueJob /\ job'.state = st /\ job'.made = made
         /\ job'.stalls = job.stalls /\ job'.outcome = job.outcome
  BY DEF QueueJob, JobThrows

LEMMA QueueJobEnds ==
  ASSUME job \in QueueJob, NEW st \in Queue!JobStates, NEW o \in Queue!Outcomes,
         JobEnds(st, o)
  PROVE  /\ job' \in QueueJob /\ job'.state = st /\ job'.made = job.made
         /\ job'.stalls = job.stalls /\ job'.outcome = o
  BY DEF QueueJob, JobEnds

\* What a step may do to keep the rows true and the dead letters exact.
RowKept ==
    \/ row' = row
    \/ row'.status # "COMPLETED" /\ row'.result \in {row.result, "none"}
    \/ job.outcome # "none" /\ row'.result = job.outcome

OutcomeKept ==
    \/ /\ job'.outcome = job.outcome
       /\ job.state \in {"completed", "removed"} => job'.state \in {"completed", "removed"}
       /\ updates'["COMPLETED"] <= updates["COMPLETED"]
    \/ /\ job.outcome = "none" /\ job'.outcome # "none" /\ job'.state = "completed"
       /\ job'.outcome = "success" => applied'

Buried ==
    \/ failures' > 0
    \/ /\ failures' = failures /\ job'.made = job.made
       /\ deadLetters' + burying' = deadLetters + burying
    \/ /\ failures' = failures /\ job'.made = job.made + 1
       /\ deadLetters' + burying' = deadLetters + burying +
              (IF job'.made < MaxAttempts THEN 0 ELSE 1)

LEMMA QueueKept ==
  ASSUME QueueSafe, QueueTyped', RowKept, OutcomeKept, Buried,
         applied => applied', job'.state = "return" => applied'
  PROVE  QueueSafe'
<1>1. Queue!TypeOK'
  BY DEF QueueTyped, Queue!TypeOK, QueueJob, QueueRow
<1>2. OutcomeIsFinal'
  BY QueueTypes DEF QueueSafe, QueueTyped, OutcomeIsFinal, OutcomeKept, Queue!Listened
<1>3. ReportsApplied'
  BY DEF ReportsApplied
<1>4. Queue!CompletedIsTrue'
  BY DEF QueueSafe, Queue!CompletedIsTrue, RowKept, OutcomeKept
<1>5. Queue!SuccessIsApplied'
  BY DEF QueueSafe, Queue!SuccessIsApplied, RowKept, OutcomeKept
<1>6. Queue!DeadLettered'
  BY QueueTypes, QueueAssumption DEF QueueSafe, QueueTyped, Queue!DeadLettered, Buried
<1> QED BY <1>1, <1>2, <1>3, <1>4, <1>5, <1>6 DEF QueueSafe

\* Steps of the API that leave the job, the worker and the updates alone.
LEMMA QueueRowSteps ==
  ASSUME QueueSafe, NEW r \in Requests,
         \/ Queue!CreateRow(r) \/ Queue!MarkRetrying(r) \/ Queue!MarkCancelled(r)
         \/ Queue!DeleteRows(r)
  PROVE  QueueSafe'
<1>a. QueueTyped
  BY QueueTypes
<1>1. /\ job' = job /\ updates' = updates /\ burying' = burying
      /\ deadLetters' = deadLetters /\ applied' = applied /\ requests' = requests
      /\ failures' = failures /\ pc' = [pc EXCEPT ![r] = "idle"]
  BY DEF Queue!CreateRow, Queue!MarkRetrying, Queue!MarkCancelled, Queue!DeleteRows,
     Queue!worker, Queue!counters, Queue!Goto
<1>2. row' \in QueueRow \cup {Queue!NoRow} /\ RowKept
  <2>1. CASE Queue!CreateRow(r)
    <3>1. row' = [status |-> "PENDING", result |-> "none", completedAt |-> FALSE]
      BY <2>1 DEF Queue!CreateRow, Queue!NoRow
    <3> QED BY <3>1 DEF RowKept, QueueRow, Queue!JobStatus, Queue!Outcomes
  <2>2. ASSUME NEW st \in {"RETRYING", "FAILED"}, Queue!UpdateMany(st)
        PROVE  row' \in QueueRow \cup {Queue!NoRow} /\ RowKept
    <3>1. CASE row = Queue!NoRow
      BY <2>2, <3>1 DEF Queue!UpdateMany, RowKept
    <3>2. CASE row # Queue!NoRow
      <4>1. row \in QueueRow /\ row' = [row EXCEPT !.status = st]
        BY <1>a, <2>2, <3>2 DEF QueueTyped, Queue!UpdateMany
      <4>2. row' \in QueueRow /\ row'.status = st /\ row'.result = row.result
        BY <4>1 DEF QueueRow, Queue!JobStatus
      <4> QED BY <4>2 DEF RowKept
    <3> QED BY <3>1, <3>2
  <2>3. CASE Queue!DeleteRows(r)
    <3>1. row' = row \/ row' = Queue!NoRow
      BY <2>3 DEF Queue!DeleteRows
    <3> QED BY <1>a, <3>1 DEF RowKept, Queue!NoRow, QueueTyped
  <2> QED BY <2>1, <2>2, <2>3 DEF Queue!MarkRetrying, Queue!MarkCancelled
<1>3. QueueTyped'
  BY <1>a, <1>1, <1>2 DEF QueueTyped
<1>4. OutcomeKept /\ Buried
  BY <1>a, <1>1 DEF OutcomeKept, Buried, QueueTyped, Queue!Listened
<1> QED BY <1>1, <1>2, <1>3, <1>4, QueueKept DEF QueueSafe, ReportsApplied

\* Steps of the API that ask BullMQ for something.
LEMMA QueueAskSteps ==
  ASSUME QueueSafe, NEW r \in Requests,
         \/ Queue!AddJob(r) \/ Queue!RetryJob(r) \/ Queue!CancelJob(r) \/ Queue!CleanQueue(r)
  PROVE  QueueSafe'
<1>a. QueueTyped
  BY QueueTypes
<1>1. /\ row' = row /\ updates' = updates /\ burying' = burying
      /\ deadLetters' = deadLetters /\ applied' = applied /\ failures' = failures
  BY DEF Queue!AddJob, Queue!RetryJob, Queue!CancelJob, Queue!CleanQueue,
     Queue!worker, Queue!counters
<1>2. requests' \in 0 .. MaxRequests
  BY <1>a, KycAssumption DEF QueueTyped, Queue!AddJob, Queue!RetryJob, Queue!CancelJob,
     Queue!CleanQueue, Queue!counters, Queue!Ask
<1>3. PICK l \in {"createRow", "markRetrying", "markCancelled", "deleteRows"} :
          pc' = [pc EXCEPT ![r] = l]
  BY DEF Queue!AddJob, Queue!RetryJob, Queue!CancelJob, Queue!CleanQueue, Queue!Goto
<1>4. PICK st \in Queue!JobStates :
          /\ job' = [job EXCEPT !.state = st] /\ (st # "return" \/ st = job.state)
          /\ job.state \in {"completed", "removed"} => st \in {"completed", "removed"}
  <2>1. CASE Queue!AddJob(r) \/ Queue!RetryJob(r)
    BY <2>1 DEF Queue!AddJob, Queue!RetryJob, Queue!JobStates
  <2>2. CASE Queue!CancelJob(r)
    BY <2>2 DEF Queue!CancelJob, Queue!JobStates
  <2>3. CASE Queue!CleanQueue(r)
    <3> DEFINE st == IF job.state \in {"completed", "failed"} THEN "removed"
                     ELSE job.state
    <3>1. job' = [job EXCEPT !.state = st]
      BY <2>3 DEF Queue!CleanQueue
    <3>2. st \in Queue!JobStates /\ (st # "return" \/ st = job.state)
          /\ (job.state \in {"completed", "removed"} => st \in {"completed", "removed"})
      BY <1>a DEF QueueTyped, Queue!JobStates
    <3> HIDE DEF st
    <3> QED BY <3>1, <3>2
  <2> QED BY <2>1, <2>2, <2>3
<1>5. /\ job' \in QueueJob /\ job'.state = st /\ job'.made = job.made
      /\ job'.stalls = job.stalls /\ job'.outcome = job.outcome
  BY <1>a, <1>4, QueueJobGoes DEF QueueTyped
<1>6. QueueTyped'
  BY <1>a, <1>1, <1>2, <1>3, <1>5 DEF QueueTyped
<1>7. OutcomeKept /\ Buried /\ RowKept
  BY <1>a, <1>1, <1>4, <1>5 DEF OutcomeKept, Buried, RowKept, QueueTyped, Queue!Listened
<1>8. job'.state = "return" => applied'
  BY <1>1, <1>4, <1>5 DEF QueueSafe, ReportsApplied
<1> QED BY <1>1, <1>6, <1>7, <1>8, QueueKept

LEMMA QueueListenerSteps ==
  ASSUME QueueSafe,
         \/ \E st \in Queue!Listened : Queue!UpdateJobInDatabase(st)
         \/ Queue!ApiDies \/ UNCHANGED <<queueVars, failures>>
  PROVE  QueueSafe'
<1>a. QueueTyped
  BY QueueTypes
<1>1. ASSUME NEW st \in Queue!Listened, Queue!UpdateJobInDatabase(st) PROVE QueueSafe'
  <2>1. /\ job' = job /\ burying' = burying /\ deadLetters' = deadLetters
        /\ applied' = applied /\ requests' = requests /\ failures' = failures
        /\ pc' = pc /\ updates' = [updates EXCEPT ![st] = @ - 1] /\ updates[st] > 0
    BY <1>1 DEF Queue!UpdateJobInDatabase, Queue!worker, Queue!counters
  <2>2. /\ updates' \in [Queue!Listened -> Nat]
        /\ updates'["COMPLETED"] <= updates["COMPLETED"]
    BY <1>a, <2>1 DEF QueueTyped, Queue!Listened
  <2>3. row' \in QueueRow \cup {Queue!NoRow} /\ RowKept
    <3>1. CASE row = Queue!NoRow
      BY <1>1, <3>1 DEF Queue!UpdateJobInDatabase, RowKept
    <3>2. CASE row # Queue!NoRow /\ st = "COMPLETED"
      <4>1. row \in QueueRow /\ job.outcome # "none" /\ job.outcome \in Queue!Outcomes
        BY <1>a, <2>1, <3>2 DEF QueueTyped, QueueSafe, OutcomeIsFinal
      <4>2. row' = [row EXCEPT !.status = st, !.result = job.outcome, !.completedAt = TRUE]
        BY <1>1, <3>2 DEF Queue!UpdateJobInDatabase
      <4>3. row' = [status |-> st, result |-> job.outcome, completedAt |-> TRUE]
        <5> PICK x \in QueueRow : x = row
          BY <4>1
        <5> DEFINE y == [x EXCEPT !.status = st]
                   z == [y EXCEPT !.result = job.outcome]
        <5>1. y \in [status : {st}, result : Queue!Outcomes, completedAt : BOOLEAN]
          BY DEF QueueRow
        <5>2. z \in [status : {st}, result : {job.outcome}, completedAt : BOOLEAN]
          <6> HIDE DEF y
          <6> QED BY <5>1
        <5>3. row' = [z EXCEPT !.completedAt = TRUE]
          BY <4>2, Zenon
        <5> HIDE DEF z
        <5> QED BY <5>2, <5>3
      <4> QED BY <3>2, <4>1, <4>3 DEF RowKept, QueueRow, Queue!JobStatus
    <3>3. CASE row # Queue!NoRow /\ st # "COMPLETED"
      <4>1. row \in QueueRow /\ row' = [row EXCEPT !.status = st]
        BY <1>a, <1>1, <3>3 DEF QueueTyped, Queue!UpdateJobInDatabase
      <4>2. row' \in QueueRow /\ row'.status = st /\ row'.result = row.result
        BY <4>1 DEF QueueRow, Queue!JobStatus, Queue!Listened
      <4> QED BY <3>3, <4>2 DEF RowKept
    <3> QED BY <3>1, <3>2, <3>3
  <2>4. QueueTyped'
    BY <1>a, <2>1, <2>2, <2>3 DEF QueueTyped
  <2>5. OutcomeKept /\ Buried
    BY <2>1, <2>2 DEF OutcomeKept, Buried
  <2> QED BY <2>1, <2>3, <2>4, <2>5, QueueKept DEF QueueSafe, ReportsApplied
<1>2. CASE Queue!ApiDies
  <2>1. /\ job' = job /\ burying' = burying /\ deadLetters' = deadLetters
        /\ applied' = applied /\ requests' = requests /\ row' = row
        /\ failures < QueueFailures /\ failures' = failures + 1
        /\ pc' = [r \in Requests |-> "idle"] /\ updates' = [st \in Queue!Listened |-> 0]
    BY <1>2 DEF Queue!ApiDies, Queue!Fail, Queue!worker
  <2>2. QueueTyped'
    BY <1>a, <2>1, QueueAssumption DEF QueueTyped
  <2>3. OutcomeKept /\ Buried /\ RowKept
    BY <1>a, <2>1 DEF OutcomeKept, Buried, RowKept, QueueTyped, Queue!Listened
  <2> QED BY <2>1, <2>2, <2>3, QueueKept DEF QueueSafe, ReportsApplied
<1>3. CASE UNCHANGED <<queueVars, failures>>
  <2>1. /\ job' = job /\ burying' = burying /\ deadLetters' = deadLetters
        /\ applied' = applied /\ requests' = requests /\ row' = row
        /\ failures' = failures /\ pc' = pc /\ updates' = updates
    BY <1>3 DEF queueVars
  <2>2. QueueTyped'
    BY <1>a, <2>1 DEF QueueTyped
  <2>3. OutcomeKept /\ Buried /\ RowKept
    BY <1>a, <2>1 DEF OutcomeKept, Buried, RowKept, QueueTyped, Queue!Listened
  <2> QED BY <2>1, <2>2, <2>3, QueueKept DEF QueueSafe, ReportsApplied
<1> QED BY <1>1, <1>2, <1>3

LEMMA QueueWorkerSteps ==
  ASSUME QueueSafe, Queue!Process \/ Queue!Bury \/ Queue!WorkerDies
  PROVE  QueueSafe'
<1>a. QueueTyped
  BY QueueTypes
<1>b. /\ OutcomeIsFinal /\ ReportsApplied
      /\ job.state \in {"waiting", "submit", "return", "delayed"} => job.outcome = "none"
  BY DEF QueueSafe, OutcomeIsFinal
<1>c. ASSUME NEW st \in Queue!Listened, Queue!Emit(st)
      PROVE  /\ updates' \in [Queue!Listened -> Nat]
             /\ st # "COMPLETED" => updates'["COMPLETED"] = updates["COMPLETED"]
  <2>1. updates' = [updates EXCEPT ![st] = @ + 1]
    BY <1>c DEF Queue!Emit
  <2> QED BY <1>a, <2>1 DEF QueueTyped, Queue!Listened
<1>1. CASE Queue!TakeJob \/ Queue!Promote
  <2>1. PICK st \in {"submit", "waiting"} :
            /\ job' = [job EXCEPT !.state = st] /\ job.state \in {"waiting", "delayed"}
            /\ Queue!Emit("ACTIVE") \/ updates' = updates
    BY <1>1 DEF Queue!TakeJob, Queue!Promote
  <2>2. /\ row' = row /\ burying' = burying /\ deadLetters' = deadLetters
        /\ applied' = applied /\ requests' = requests /\ failures' = failures /\ pc' = pc
    BY <1>1 DEF Queue!TakeJob, Queue!Promote, Queue!worker, Queue!counters
  <2>3. /\ job' \in QueueJob /\ job'.state = st /\ job'.made = job.made
        /\ job'.stalls = job.stalls /\ job'.outcome = job.outcome /\ st \in Queue!JobStates
    <3>1. st \in Queue!JobStates
      BY DEF Queue!JobStates
    <3> QED BY <1>a, <2>1, <3>1, QueueJobGoes DEF QueueTyped
  <2>4. /\ updates' \in [Queue!Listened -> Nat]
        /\ updates'["COMPLETED"] = updates["COMPLETED"] /\ updates["COMPLETED"] \in Nat
    BY <1>a, <1>c, <2>1 DEF QueueTyped, Queue!Listened
  <2>5. QueueTyped'
    BY <1>a, <2>2, <2>3, <2>4 DEF QueueTyped
  <2>6. OutcomeKept /\ Buried /\ RowKept
    BY <1>a, <2>1, <2>2, <2>3, <2>4 DEF OutcomeKept, Buried, RowKept, QueueTyped
  <2> QED BY <2>1, <2>2, <2>3, <2>5, <2>6, QueueKept
<1>2. CASE Queue!Submit
  <2>1. /\ job' = [job EXCEPT !.state = "return"] /\ job.state = "submit"
        /\ applied' = TRUE /\ row' = row /\ updates' = updates /\ burying' = burying
        /\ deadLetters' = deadLetters /\ pc' = pc /\ requests' = requests
        /\ failures' = failures
    BY <1>2 DEF Queue!Submit, Queue!counters
  <2>2. /\ job' \in QueueJob /\ job'.state = "return" /\ job'.made = job.made
        /\ job'.stalls = job.stalls /\ job'.outcome = job.outcome
        /\ "return" \in Queue!JobStates
    <3>1. "return" \in Queue!JobStates
      BY DEF Queue!JobStates
    <3> QED BY <1>a, <2>1, <3>1, QueueJobGoes DEF QueueTyped
  <2>3. QueueTyped'
    BY <1>a, <2>1, <2>2 DEF QueueTyped
  <2>4. OutcomeKept /\ Buried /\ RowKept
    BY <1>a, <2>1, <2>2 DEF OutcomeKept, Buried, RowKept, QueueTyped, Queue!Listened
  <2> QED BY <2>1, <2>3, <2>4, QueueKept
<1>3. ASSUME NEW o \in {"success", "failure"}, Queue!Complete(o),
             job.state \in {"submit", "return"}, applied' \in BOOLEAN, applied => applied',
             o = "success" => applied', row' = row, deadLetters' = deadLetters,
             pc' = pc, requests' = requests, failures' = failures
      PROVE  QueueSafe'
  <2>1. /\ JobEnds("completed", o)
        /\ Queue!Emit("COMPLETED") /\ burying' = burying
    BY <1>3 DEF Queue!Complete, JobEnds
  <2>2. "completed" \in Queue!JobStates /\ o \in Queue!Outcomes
    BY DEF Queue!JobStates, Queue!Outcomes
  <2>3. /\ job' \in QueueJob /\ job'.state = "completed" /\ job'.made = job.made
        /\ job'.stalls = job.stalls /\ job'.outcome = o
    BY <1>a, <2>1, <2>2, QueueJobEnds DEF QueueTyped
  <2>4. updates' \in [Queue!Listened -> Nat]
    BY <1>c, <2>1 DEF Queue!Listened
  <2>5. QueueTyped'
    BY <1>3, <1>a, <2>1, <2>2, <2>3, <2>4 DEF QueueTyped
  <2>6. OutcomeKept /\ Buried /\ RowKept
    BY <1>3, <1>a, <1>b, <2>1, <2>3 DEF OutcomeKept, Buried, RowKept, QueueTyped
  <2> QED BY <1>3, <2>3, <2>5, <2>6, QueueKept
<1>4. CASE Queue!Return
  BY <1>3, <1>4, <1>a, <1>b DEF Queue!Return, Queue!counters, ReportsApplied, QueueTyped
<1>5. CASE Queue!AttemptFails
  <2>1. /\ job.state \in {"submit", "return"} /\ applied' \in BOOLEAN
        /\ (applied => applied') /\ row' = row /\ deadLetters' = deadLetters
        /\ pc' = pc /\ requests' = requests /\ failures' = failures
        /\ Queue!Throw \/ Queue!Complete("failure")
    <3>1. PICK late \in BOOLEAN : applied' = (applied \/ late)
      BY <1>5 DEF Queue!AttemptFails
    <3>2. applied' \in BOOLEAN /\ (applied => applied')
      BY <1>a, <3>1 DEF QueueTyped
    <3> QED BY <1>5, <3>2 DEF Queue!AttemptFails, Queue!Active, Queue!counters
  <2>2. CASE Queue!Complete("failure")
    BY <1>3, <2>1, <2>2
  <2>3. CASE Queue!Throw
    <3>1. PICK st \in {"delayed", "failed"} :
              /\ JobThrows(st, job.made + 1)
              /\ \/ /\ job.made + 1 < MaxAttempts /\ updates' = updates
                    /\ burying' = burying
                 \/ /\ ~(job.made + 1 < MaxAttempts) /\ Queue!Emit("FAILED")
                    /\ burying' = burying + 1
      BY <2>3 DEF Queue!Throw, JobThrows
    <3>2. st \in Queue!JobStates /\ job.made + 1 \in Nat
      BY <1>a DEF QueueTyped, Queue!JobStates
    <3>3. /\ job' \in QueueJob /\ job'.state = st /\ job'.made = job.made + 1
          /\ job'.stalls = job.stalls /\ job'.outcome = job.outcome
      BY <1>a, <3>1, <3>2, QueueJobThrows DEF QueueTyped
    <3>4. /\ updates' \in [Queue!Listened -> Nat]
          /\ updates'["COMPLETED"] = updates["COMPLETED"] /\ updates["COMPLETED"] \in Nat
      BY <1>a, <1>c, <3>1 DEF QueueTyped, Queue!Listened
    <3>5. burying' \in Nat
      BY <1>a, <3>1 DEF QueueTyped
    <3>6. QueueTyped'
      BY <1>a, <2>1, <3>2, <3>3, <3>4, <3>5 DEF QueueTyped
    <3>7. OutcomeKept /\ RowKept
      BY <2>1, <3>3, <3>4 DEF OutcomeKept, RowKept
    <3>8. Buried
      BY <1>a, <2>1, <3>1, <3>3 DEF Buried, QueueTyped
    <3> QED BY <2>1, <3>3, <3>6, <3>7, <3>8, QueueKept
  <2> QED BY <2>1, <2>2, <2>3
<1>6. CASE Queue!Bury
  <2>1. /\ burying > 0 /\ burying' = burying - 1
        /\ \/ deadLetters' = deadLetters + 1 /\ failures' = failures
           \/ /\ failures < QueueFailures /\ failures' = failures + 1
              /\ deadLetters' = deadLetters
        /\ job' = job /\ row' = row /\ updates' = updates /\ applied' = applied
        /\ pc' = pc /\ requests' = requests
    BY <1>6 DEF Queue!Bury, Queue!Fail
  <2>2. /\ burying' \in Nat /\ deadLetters' \in Nat /\ failures' \in 0 .. QueueFailures
        /\ \/ failures' > 0
           \/ failures' = failures /\ deadLetters' + burying' = deadLetters + burying
    BY <1>a, <2>1, QueueAssumption DEF QueueTyped
  <2>3. QueueTyped'
    BY <1>a, <2>1, <2>2 DEF QueueTyped
  <2>4. OutcomeKept /\ RowKept
    BY <1>a, <2>1 DEF OutcomeKept, RowKept, QueueTyped, Queue!Listened
  <2>5. Buried
    BY <2>1, <2>2 DEF Buried
  <2> QED BY <1>b, <2>1, <2>3, <2>4, <2>5, QueueKept DEF ReportsApplied
<1>7. CASE Queue!WorkerDies
  <2>1. /\ row' = row /\ deadLetters' = deadLetters /\ applied' = applied /\ pc' = pc
        /\ requests' = requests /\ failures < QueueFailures /\ failures' = failures + 1
        /\ burying' \in {0, 1}
    BY <1>7 DEF Queue!WorkerDies, Queue!Fail
  <2>2. failures' \in 0 .. QueueFailures /\ failures' > 0 /\ burying' \in Nat
    BY <1>a, <2>1, QueueAssumption DEF QueueTyped
  <2>3. /\ job' \in QueueJob /\ job'.state \in Queue!JobStates /\ job'.made = job.made
        /\ job'.stalls \in 0 .. MaxStalls /\ job'.outcome = job.outcome
        /\ job'.state \in {"waiting", "failed"} \/ job' = job
        /\ job.state \in {"completed", "removed"} => job' = job
        /\ updates' = updates \/ Queue!Emit("FAILED")
    <3>1. CASE job.state \notin Queue!Active
      BY <1>a, <1>7, <3>1 DEF QueueTyped, Queue!WorkerDies
    <3>2. CASE job.state \in Queue!Active /\ job.stalls < MaxStalls
      <4>1. job' = [job EXCEPT !.state = "waiting", !.stalls = job.stalls + 1]
            /\ updates' = updates
        BY <1>a, <1>7, <3>2 DEF QueueTyped, Queue!WorkerDies
      <4>2. job.stalls + 1 \in 0 .. MaxStalls /\ "waiting" \in Queue!JobStates
        BY <1>a, <3>2, QueueAssumption DEF QueueTyped, Queue!JobStates
      <4>3. /\ job' \in QueueJob /\ job'.state = "waiting" /\ job'.made = job.made
            /\ job'.stalls = job.stalls + 1 /\ job'.outcome = job.outcome
        BY <1>a, <4>1, <4>2 DEF QueueTyped, QueueJob
      <4> QED BY <3>2, <4>1, <4>2, <4>3 DEF Queue!Active
    <3>3. CASE job.state \in Queue!Active /\ ~(job.stalls < MaxStalls)
      <4>1. job' = [job EXCEPT !.state = "failed"] /\ Queue!Emit("FAILED")
        BY <1>7, <3>3 DEF Queue!WorkerDies
      <4>2. "failed" \in Queue!JobStates
        BY DEF Queue!JobStates
      <4>3. /\ job' \in QueueJob /\ job'.state = "failed" /\ job'.made = job.made
            /\ job'.stalls = job.stalls /\ job'.outcome = job.outcome
        BY <1>a, <4>1, <4>2, QueueJobGoes DEF QueueTyped
      <4> QED BY <1>a, <3>3, <4>1, <4>2, <4>3 DEF QueueTyped, Queue!Active
    <3> QED BY <3>1, <3>2, <3>3
  <2>4. /\ updates' \in [Queue!Listened -> Nat]
        /\ updates'["COMPLETED"] = updates["COMPLETED"] /\ updates["COMPLETED"] \in Nat
    BY <1>a, <1>c, <2>3 DEF QueueTyped, Queue!Listened
  <2>5. QueueTyped'
    BY <1>a, <2>1, <2>2, <2>3, <2>4 DEF QueueTyped
  <2>6. OutcomeKept /\ Buried /\ RowKept
    BY <2>1, <2>2, <2>3, <2>4 DEF OutcomeKept, Buried, RowKept
  <2> QED BY <1>b, <2>1, <2>3, <2>5, <2>6, QueueKept DEF ReportsApplied
<1> QED BY <1>1, <1>2, <1>4, <1>5, <1>6, <1>7 DEF Queue!Process

LEMMA QueueSteps == QueueSafe /\ [Queue!Next]_<<queueVars, failures>> => QueueSafe'
  BY QueueRowSteps, QueueAskSteps, QueueListenerSteps, QueueWorkerSteps
  DEF Queue!Next, Queue!Request

\* Where another service runs, the queue stays empty.
QueueInv ==
    /\ service = "queue" => QueueSafe
    /\ service # "queue" =>
           /\ row = Queue!NoRow /\ job.outcome = "none" /\ job.made = 0
           /\ burying = 0 /\ deadLetters = 0

LEMMA QueueInitInv == ServicesInit => QueueInv
  BY QueueInit DEF ServicesInit, QueueInv, Queue!Init

LEMMA QueueInvSteps == QueueInv /\ [ServicesNext]_servicesVars => QueueInv'
  BY OwnSteps, QueueSteps DEF QueueInv, queueVars

\* While nothing dies, each failure from the last configured attempt on is buried once.
THEOREM DeadLettersCorrect == ServicesSpec => []DeadLettered
<1>1. QueueInv => DeadLettered
  BY QueueAssumption DEF QueueInv, QueueSafe, DeadLettered, Queue!DeadLettered
<1> QED BY QueueInitInv, QueueInvSteps, <1>1, PTL DEF ServicesSpec

------------------------------------------------------------------------------
(* The recurring payments: the occurrences of the cron *)

LEMMA LeastNatural ==
  ASSUME NEW S, S \subseteq Nat, S # {}
  PROVE  \E x \in S : \A y \in S : x <= y
<1>1. PICK x \in S : \A y \in S : ~ (<<y, x>> \in OpToRel(<, Nat))
  BY NatLessThanWellFounded, WFMin
<1>2. \A y \in S : ~(y < x)
  BY <1>1 DEF OpToRel
<1> QED BY <1>2

Occurrence(t) == t \div CronPeriod

LEMMA OccurrenceBounds ==
  ASSUME NEW t \in Nat
  PROVE  /\ Occurrence(t) \in Nat /\ CronPeriod * Occurrence(t) <= t
         /\ t < CronPeriod * Occurrence(t) + CronPeriod
  BY RecurringAssumption DEF Occurrence

LEMMA LaterByAPeriod ==
  ASSUME NEW m \in Int, NEW n \in Int, m < n
  PROVE  CronPeriod * m + CronPeriod <= CronPeriod * n
<1>1. CronPeriod * (n - m - 1) >= 0
  BY RecurringAssumption
<1>2. CronPeriod * (n - m - 1) = CronPeriod * n - CronPeriod * m - CronPeriod
  BY RecurringAssumption
<1>3. CronPeriod * m \in Int /\ CronPeriod * n \in Int /\ CronPeriod \in Int
  BY RecurringAssumption
<1> QED BY <1>1, <1>2, <1>3

\* Later times are of no earlier occurrence.
LEMMA OccurrencesInOrder ==
  ASSUME NEW s \in Nat, NEW t \in Nat, s <= t
  PROVE  Occurrence(s) <= Occurrence(t)
<1>1. SUFFICES ASSUME Occurrence(t) < Occurrence(s) PROVE FALSE
  BY OccurrenceBounds
<1>2. CronPeriod * Occurrence(t) + CronPeriod <= CronPeriod * Occurrence(s)
  BY <1>1, OccurrenceBounds, LaterByAPeriod
<1>3. t < s
  <2> DEFINE x == CronPeriod * Occurrence(t)  y == CronPeriod * Occurrence(s)
  <2>1. x \in Int /\ y \in Int /\ CronPeriod \in Int
    BY OccurrenceBounds, RecurringAssumption
  <2>2. t < x + CronPeriod /\ y <= s /\ x + CronPeriod <= y
    BY <1>2, OccurrenceBounds
  <2> HIDE DEF x, y
  <2> QED BY <2>1, <2>2
<1> QED BY <1>3

\* NextRunAt is the beginning of the next occurrence.
LEMMA NextOccurrence ==
  ASSUME NEW t \in Nat
  PROVE  /\ Recurring!NextRunAt(t) \in Nat
         /\ Occurrence(Recurring!NextRunAt(t)) = Occurrence(t) + 1
<1> DEFINE k == Occurrence(t) + 1
           n == CronPeriod * k
           q == Occurrence(n)
<1>1. k \in Nat /\ n \in Nat /\ Recurring!NextRunAt(t) = n
  BY OccurrenceBounds, RecurringAssumption DEF Recurring!NextRunAt, Occurrence
<1>2. q \in Nat /\ CronPeriod * q <= n /\ n < CronPeriod * q + CronPeriod
  <2> HIDE DEF n
  <2> QED BY <1>1, OccurrenceBounds
<1>3. CronPeriod \in Nat /\ CronPeriod > 0 /\ CronPeriod * q \in Int
  BY <1>2, RecurringAssumption
<1> HIDE DEF k, q
<1>4. ~(q < k)
  <2> SUFFICES ASSUME q < k PROVE FALSE
    OBVIOUS
  <2>1. CronPeriod * q + CronPeriod <= CronPeriod * k
    BY <1>1, <1>2, LaterByAPeriod
  <2> QED BY <1>1, <1>2, <1>3, <2>1
<1>5. ~(k < q)
  <2> SUFFICES ASSUME k < q PROVE FALSE
    OBVIOUS
  <2>1. CronPeriod * k + CronPeriod <= CronPeriod * q
    BY <1>1, <1>2, LaterByAPeriod
  <2> QED BY <1>1, <1>2, <1>3, <2>1
<1>6. q = k
  BY <1>1, <1>2, <1>4, <1>5
<1> QED BY <1>1, <1>6 DEF k, q

------------------------------------------------------------------------------
(* The recurring payments: the rows and the ticks that hold them *)

Positions == {"idle", "claim", "pay", "settle", "record", "notify"}
TickRecord == [at : Nat, run : 0 .. MaxRuns, attempt : Nat, kind : Recurring!Kinds]
RunRecord == [status : Recurring!RunStatuses, attempt : Nat]
ScheduleRecord == [status : Recurring!ScheduleStatuses, nextRunAt : Nat, retryCount : Nat]
RunIds == 1 .. MaxRuns
Succeeded == {r \in RunIds : runs[r].status = "SUCCEEDED"}

RecurringTyped ==
    /\ schedule \in ScheduleRecord /\ runs \in [RunIds -> RunRecord]
    /\ lastRun \in 0 .. MaxRuns /\ position \in [Ticks -> Positions]
    /\ tick \in [Ticks -> TickRecord] /\ deleting \in BOOLEAN
    /\ deletions \in Nat /\ now \in 0 .. MaxTime /\ paid \in Nat /\ overlaps \in Nat
    /\ paidRuns \subseteq RunIds /\ notified \in BOOLEAN /\ failures \in Nat

Holding(w) == position[w] \in {"pay", "settle", "record"}
HasRow(w) == schedule.status # "DELETED" /\ runs[tick[w].run].status # "ABSENT"

\* The run that a tick holds is being processed, unless it was deleted, and no other
\* tick holds it; while its success is being recorded, it is paid.
HeldRuns ==
    \A w \in Ticks : Holding(w) =>
        /\ tick[w].run \in RunIds /\ tick[w].run <= lastRun
        /\ runs[tick[w].run].status \in {"PROCESSING", "ABSENT"}
        /\ runs[tick[w].run].status = "PROCESSING" =>
               runs[tick[w].run].attempt = tick[w].attempt
        /\ position[w] = "settle" => tick[w].run \in paidRuns
        /\ \A v \in Ticks : Holding(v) /\ v # w => tick[v].run # tick[w].run

RowsFit ==
    \A r \in RunIds :
        /\ r > lastRun => runs[r].status = "ABSENT"
        /\ runs[r].status = "PENDING" => runs[r].attempt <= RecurringRetries
        /\ runs[r].status = "SUCCEEDED" => r \in paidRuns
        /\ schedule.status = "DELETED" => runs[r].status = "ABSENT"

\* What is paid and what ticks may still pay, but for what overlaps, failures and
\* deletions excuse, is of occurrences up to now, up to the start of any tick in
\* progress, and before the next one unless a tick is about to move that on.
InProgress(w) == position[w] \in {"claim", "pay", "settle", "record"}
MayPay(w) == position[w] \in {"claim", "pay"} \/ (position[w] = "record" /\ HasRow(w))
Live(w) == position[w] = "claim" \/ (Holding(w) /\ HasRow(w))
MayPayTicks == {w \in Ticks : MayPay(w)}
Spent == paid + Cardinality(MayPayTicks) - overlaps - failures - deletions

PaidBefore ==
    /\ Spent <= Occurrence(now)
    /\ Spent <= Occurrence(schedule.nextRunAt)
    /\ (\E w \in Ticks : Live(w)) \/ Spent + 1 <= Occurrence(schedule.nextRunAt)
    /\ \A w \in Ticks : InProgress(w) =>
           tick[w].at <= now /\ Spent <= Occurrence(tick[w].at)

RecurringSafe == RecurringTyped /\ HeldRuns /\ RowsFit /\ PaidBefore

LEMMA RecurringTypes ==
  /\ RecurringTyped <=> Recurring!TypeOK
  /\ RecurringTyped =>
         /\ schedule.status \in Recurring!ScheduleStatuses /\ schedule.nextRunAt \in Nat
         /\ schedule.retryCount \in Nat /\ now \in Nat /\ lastRun \in Nat
         /\ \A r \in RunIds : /\ runs[r] \in RunRecord
                              /\ runs[r].status \in Recurring!RunStatuses
                              /\ runs[r].attempt \in Nat
         /\ \A w \in Ticks : /\ position[w] \in Positions /\ tick[w] \in TickRecord
                             /\ tick[w].at \in Nat /\ tick[w].run \in 0 .. MaxRuns
                             /\ tick[w].attempt \in Nat
<1>1. RecurringTyped <=> Recurring!TypeOK
  BY DEF RecurringTyped, Recurring!TypeOK, Positions, TickRecord, RunRecord,
     ScheduleRecord, RunIds, Recurring!RunIds
<1>2. ASSUME RecurringTyped
      PROVE  /\ schedule \in ScheduleRecord /\ \A r \in RunIds : runs[r] \in RunRecord
             /\ \A w \in Ticks : position[w] \in Positions /\ tick[w] \in TickRecord
             /\ now \in Nat /\ lastRun \in Nat
  BY <1>2, RecurringAssumption DEF RecurringTyped
<1>3. \A x \in TickRecord : x.at \in Nat /\ x.run \in 0 .. MaxRuns /\ x.attempt \in Nat
  BY DEF TickRecord
<1>4. \A x \in ScheduleRecord : /\ x.status \in Recurring!ScheduleStatuses
                                /\ x.nextRunAt \in Nat /\ x.retryCount \in Nat
  BY DEF ScheduleRecord
<1>5. \A x \in RunRecord : x.status \in Recurring!RunStatuses /\ x.attempt \in Nat
  BY DEF RunRecord
<1> QED BY <1>1, <1>2, <1>3, <1>4, <1>5

\* Where a tick goes, and with what; the others stay.
LEMMA RecurringGoes ==
  ASSUME RecurringTyped, NEW w \in Ticks, NEW l \in Positions, NEW x \in TickRecord,
         Recurring!At(w, l, x)
  PROVE  /\ position' \in [Ticks -> Positions] /\ tick' \in [Ticks -> TickRecord]
         /\ position'[w] = l /\ tick'[w] = x
         /\ \A v \in Ticks \ {w} : position'[v] = position[v] /\ tick'[v] = tick[v]
  BY DEF RecurringTyped, Recurring!At

LEMMA NoTickFits ==
  /\ Recurring!NoTick \in TickRecord
  /\ \A p \in {"idle", "claim", "pay", "settle", "record", "notify"} : p \in Positions
  BY RecurringAssumption DEF Recurring!NoTick, TickRecord, Recurring!Kinds, Positions

\* A tick with one field changed.
LEMMA TickChanges ==
  ASSUME NEW x \in TickRecord
  PROVE  /\ \A kind \in Recurring!Kinds : LET y == [x EXCEPT !.kind = kind] IN
                /\ y \in TickRecord /\ y.at = x.at /\ y.run = x.run
                /\ y.attempt = x.attempt
         /\ \A t \in Nat : LET y == [x EXCEPT !.at = t] IN y \in TickRecord /\ y.at = t
  BY DEF TickRecord

\* One run changes.
LEMMA RunChanges ==
  ASSUME RecurringTyped, NEW r \in RunIds, NEW x \in RunRecord,
         runs' = [runs EXCEPT ![r] = x]
  PROVE  /\ runs' \in [RunIds -> RunRecord] /\ runs'[r] = x
         /\ \A q \in RunIds : q # r => runs'[q] = runs[q]
  BY DEF RecurringTyped

\* The schedule as a tick leaves it.
LEMMA ScheduleChanges ==
  ASSUME schedule \in ScheduleRecord, NEW n \in Nat, NEW m \in Nat,
         schedule' = [schedule EXCEPT !.status = "ACTIVE", !.retryCount = n,
                                      !.nextRunAt = m]
  PROVE  /\ schedule' \in ScheduleRecord /\ schedule'.status = "ACTIVE"
         /\ schedule'.nextRunAt = m
<1> DEFINE a == [schedule EXCEPT !.status = "ACTIVE"]
           b == [a EXCEPT !.retryCount = n]
           c == [b EXCEPT !.nextRunAt = m]
<1>1. schedule' = c
  OBVIOUS
<1>2. a \in ScheduleRecord /\ a.status = "ACTIVE"
  BY DEF ScheduleRecord, Recurring!ScheduleStatuses
<1> HIDE DEF a
<1>3. b \in ScheduleRecord /\ b.status = "ACTIVE"
  BY <1>2 DEF ScheduleRecord
<1> HIDE DEF b
<1>4. c \in ScheduleRecord /\ c.status = "ACTIVE" /\ c.nextRunAt = m
  BY <1>3 DEF ScheduleRecord
<1> QED BY <1>1, <1>4

\* The newest of some runs is one of them.
LEMMA LatestOf ==
  ASSUME NEW ids, ids \subseteq RunIds, ids # {}
  PROVE  Recurring!Latest(ids) \in ids
<1> DEFINE T == {n \in Nat : MaxRuns - n \in ids}
<1>1. T # {}
  <2>1. PICK s \in ids : s \in 1 .. MaxRuns
    BY DEF RunIds
  <2>2. MaxRuns - s \in Nat /\ MaxRuns - (MaxRuns - s) \in ids
    BY <2>1, RecurringAssumption
  <2> QED BY <2>2
<1>2. PICK t \in T : \A u \in T : t <= u
  BY <1>1, LeastNatural
<1>3. \A q \in ids : q <= MaxRuns - t
  <2> SUFFICES ASSUME NEW q \in ids PROVE q <= MaxRuns - t
    OBVIOUS
  <2>1. q \in 1 .. MaxRuns
    BY DEF RunIds
  <2>2. MaxRuns - q \in Nat /\ MaxRuns - (MaxRuns - q) = q
    BY <2>1, RecurringAssumption
  <2>3. MaxRuns - q \in T
    BY <2>2
  <2>4. t <= MaxRuns - q /\ t \in Nat
    BY <1>2, <2>3
  <2> HIDE DEF T
  <2> QED BY <2>1, <2>4, RecurringAssumption
<1>4. \E r \in ids : \A q \in ids : q <= r
  BY <1>2, <1>3
<1> QED BY <1>4 DEF Recurring!Latest

------------------------------------------------------------------------------
(* The recurring payments: what ticks may still pay *)

\* Where one tick changes, so does their number.
LEMMA MayPayCounts ==
  /\ Cardinality(MayPayTicks) \in Nat /\ Cardinality(MayPayTicks') \in Nat
  /\ Cardinality(MayPayTicks)' = Cardinality(MayPayTicks')
  /\ (\A v \in Ticks : MayPay(v)' <=> MayPay(v)) =>
         Cardinality(MayPayTicks') = Cardinality(MayPayTicks)
  /\ (\A v \in Ticks : MayPay(v)' => MayPay(v)) =>
         Cardinality(MayPayTicks') <= Cardinality(MayPayTicks)
  /\ \A w \in Ticks :
         (\A v \in Ticks \ {w} : MayPay(v)' <=> MayPay(v)) =>
             /\ (MayPay(w) /\ ~MayPay(w)') =>
                    Cardinality(MayPayTicks') + 1 = Cardinality(MayPayTicks)
             /\ (~MayPay(w) /\ MayPay(w)') =>
                    Cardinality(MayPayTicks') = Cardinality(MayPayTicks) + 1
<1>1. IsFiniteSet(MayPayTicks) /\ IsFiniteSet(MayPayTicks')
  <2>1. MayPayTicks \subseteq Ticks /\ MayPayTicks' \subseteq Ticks
    BY DEF MayPayTicks
  <2> QED BY <2>1, FS_Subset, RecurringAssumption
<1>2. Cardinality(MayPayTicks) \in Nat /\ Cardinality(MayPayTicks') \in Nat
  BY <1>1, FS_CardinalityType
<1>3. Cardinality(MayPayTicks)' = Cardinality(MayPayTicks')
  OBVIOUS
<1>4. ASSUME \A v \in Ticks : MayPay(v)' <=> MayPay(v)
      PROVE  MayPayTicks' = MayPayTicks
  BY <1>4 DEF MayPayTicks
<1>5. ASSUME \A v \in Ticks : MayPay(v)' => MayPay(v)
      PROVE  Cardinality(MayPayTicks') <= Cardinality(MayPayTicks)
  <2>1. MayPayTicks' \subseteq MayPayTicks
    BY <1>5 DEF MayPayTicks
  <2> QED BY <1>1, <2>1, FS_Subset
<1>6. ASSUME NEW w \in Ticks, \A v \in Ticks \ {w} : MayPay(v)' <=> MayPay(v),
             MayPay(w), ~MayPay(w)'
      PROVE  Cardinality(MayPayTicks') + 1 = Cardinality(MayPayTicks)
  <2>1. MayPayTicks = MayPayTicks' \cup {w} /\ w \notin MayPayTicks'
    BY <1>6 DEF MayPayTicks
  <2> QED BY <1>1, <1>2, <2>1, FS_AddElement
<1>7. ASSUME NEW w \in Ticks, \A v \in Ticks \ {w} : MayPay(v)' <=> MayPay(v),
             ~MayPay(w), MayPay(w)'
      PROVE  Cardinality(MayPayTicks') = Cardinality(MayPayTicks) + 1
  <2>1. MayPayTicks' = MayPayTicks \cup {w} /\ w \notin MayPayTicks
    BY <1>7 DEF MayPayTicks
  <2> QED BY <1>1, <1>2, <2>1, FS_AddElement
<1> QED BY <1>2, <1>3, <1>4, <1>5, <1>6, <1>7

LEMMA SpentTypes ==
  /\ RecurringTyped => Spent \in Int
  /\ RecurringTyped' => Spent' \in Int
<1>1. RecurringTyped => Spent \in Int
  BY MayPayCounts DEF RecurringTyped, Spent
<1>2. ASSUME RecurringTyped' PROVE Spent' \in Int
  <2>1. Spent' = paid' + Cardinality(MayPayTicks') - overlaps' - failures' - deletions'
    BY MayPayCounts DEF Spent
  <2>2. paid' \in Nat /\ overlaps' \in Nat /\ failures' \in Nat /\ deletions' \in Nat
    BY <1>2 DEF RecurringTyped
  <2> QED BY <2>1, <2>2, MayPayCounts
<1> QED BY <1>1, <1>2

\* A step that does not raise what is spent keeps the bounds, unless it takes the last
\* live tick away and the next occurrence stays.
LEMMA PaidStays ==
  ASSUME RecurringTyped, RecurringTyped', PaidBefore, now <= now', Spent' <= Spent,
         \A w \in Ticks : InProgress(w)' =>
             \/ InProgress(w) /\ tick'[w].at = tick[w].at
             \/ tick'[w].at = now,
         \/ /\ schedule'.nextRunAt = schedule.nextRunAt
            /\ (\A w \in Ticks : Live(w) => Live(w)') \/ Spent' + 1 <= Spent
         \/ Spent' + 1 <= Occurrence(schedule'.nextRunAt)
  PROVE  PaidBefore'
<1>1. Spent \in Int /\ Spent' \in Int
  BY SpentTypes
<1>2. /\ now \in Nat /\ schedule.nextRunAt \in Nat /\ \A w \in Ticks : tick[w].at \in Nat
      /\ now' \in Nat /\ schedule'.nextRunAt \in Nat
  <2>1. now' \in 0 .. MaxTime /\ schedule' \in ScheduleRecord
    BY DEF RecurringTyped
  <2>2. schedule'.nextRunAt \in Nat
    BY <2>1 DEF ScheduleRecord
  <2> QED BY <2>1, <2>2, RecurringTypes, RecurringAssumption
<1>3. /\ Occurrence(now)' = Occurrence(now')
      /\ Occurrence(schedule.nextRunAt)' = Occurrence(schedule'.nextRunAt)
      /\ \A w \in Ticks : Occurrence(tick[w].at)' = Occurrence(tick'[w].at)
  BY DEF Occurrence
<1>4. /\ Occurrence(now) \in Nat /\ Occurrence(now') \in Nat
      /\ Occurrence(now) <= Occurrence(now')
      /\ Occurrence(schedule.nextRunAt) \in Nat /\ Occurrence(schedule'.nextRunAt) \in Nat
      /\ \A w \in Ticks : Occurrence(tick[w].at) \in Nat
  BY <1>2, OccurrenceBounds, OccurrencesInOrder
<1>5. Spent' <= Occurrence(now')
  BY <1>1, <1>4 DEF PaidBefore
<1>6. ASSUME NEW w \in Ticks, InProgress(w)'
      PROVE  tick'[w].at <= now' /\ Spent' <= Occurrence(tick'[w].at)
  <2>1. CASE InProgress(w) /\ tick'[w].at = tick[w].at
    <3>1. tick[w].at <= now /\ Spent <= Occurrence(tick[w].at)
      BY <2>1 DEF PaidBefore
    <3> QED BY <1>1, <1>2, <1>4, <2>1, <3>1
  <2>2. CASE tick'[w].at = now
    BY <1>1, <1>2, <1>4, <2>2 DEF PaidBefore
  <2> QED BY <1>6, <2>1, <2>2
<1>7. /\ Spent' <= Occurrence(schedule'.nextRunAt)
      /\ \/ \E w \in Ticks : Live(w)'
         \/ Spent' + 1 <= Occurrence(schedule'.nextRunAt)
  <2>1. CASE Spent' + 1 <= Occurrence(schedule'.nextRunAt)
    BY <1>1, <1>4, <2>1
  <2>2. CASE /\ schedule'.nextRunAt = schedule.nextRunAt
             /\ Spent' + 1 <= Spent
    <3>1. PICK n, a, b \in Int :
              n = Occurrence(schedule'.nextRunAt) /\ a = Spent /\ b = Spent' /\ a <= n
      BY <1>1, <1>4, <2>2 DEF PaidBefore
    <3>2. b + 1 <= a
      BY <2>2, <3>1
    <3>3. \A i, j, k \in Int : i + 1 <= j /\ j <= k => i <= k /\ i + 1 <= k
      OBVIOUS
    <3>4. b <= n /\ b + 1 <= n
      BY <3>1, <3>2, <3>3
    <3> QED BY <3>1, <3>4
  <2>3. CASE /\ schedule'.nextRunAt = schedule.nextRunAt
             /\ \A w \in Ticks : Live(w) => Live(w)'
    <3>1. Spent' <= Occurrence(schedule'.nextRunAt)
      BY <1>1, <1>4, <2>3 DEF PaidBefore
    <3>2. CASE \E w \in Ticks : Live(w)
      BY <2>3, <3>1, <3>2
    <3>3. CASE Spent + 1 <= Occurrence(schedule.nextRunAt)
      BY <1>1, <1>4, <2>3, <3>1, <3>3
    <3> QED BY <3>2, <3>3 DEF PaidBefore
  <2> QED BY <2>1, <2>2, <2>3
<1> QED BY <1>3, <1>5, <1>6, <1>7 DEF PaidBefore

\* A step of one tick, which keeps or loses no other tick's run.
LEMMA OneTick ==
  ASSUME RecurringTyped, NEW w \in Ticks, NEW l \in Positions, NEW x \in TickRecord,
         Recurring!At(w, l, x),
         \A v \in Ticks \ {w} : Holding(v) => (HasRow(v)' <=> HasRow(v))
  PROVE  /\ position' \in [Ticks -> Positions] /\ tick' \in [Ticks -> TickRecord]
         /\ position'[w] = l /\ tick'[w] = x
         /\ \A v \in Ticks \ {w} :
                /\ position'[v] = position[v] /\ tick'[v] = tick[v]
                /\ MayPay(v)' <=> MayPay(v)
                /\ Live(v)' <=> Live(v)
                /\ InProgress(v)' <=> InProgress(v)
         /\ \E c, d \in Nat :
                /\ Spent = paid + c - overlaps - failures - deletions
                /\ Spent' = paid' + d - overlaps' - failures' - deletions'
                /\ MayPay(w) /\ ~MayPay(w)' => d + 1 = c
                /\ ~MayPay(w) /\ MayPay(w)' => d = c + 1
                /\ (MayPay(w) <=> MayPay(w)') => d = c
<1>1. /\ position' \in [Ticks -> Positions] /\ tick' \in [Ticks -> TickRecord]
      /\ position'[w] = l /\ tick'[w] = x
      /\ \A v \in Ticks \ {w} : position'[v] = position[v] /\ tick'[v] = tick[v]
  BY RecurringGoes
<1>2. ASSUME NEW v \in Ticks \ {w}
      PROVE  /\ MayPay(v)' <=> MayPay(v)
             /\ Live(v)' <=> Live(v)
             /\ InProgress(v)' <=> InProgress(v)
  BY <1>1 DEF MayPay, Live, InProgress, Holding
<1>3. PICK c, d \in Nat : c = Cardinality(MayPayTicks) /\ d = Cardinality(MayPayTicks')
  BY MayPayCounts
<1>4. /\ MayPay(w) /\ ~MayPay(w)' => d + 1 = c
      /\ ~MayPay(w) /\ MayPay(w)' => d = c + 1
      /\ (MayPay(w) <=> MayPay(w)') => d = c
  <2>1. \A v \in Ticks \ {w} : MayPay(v)' <=> MayPay(v)
    BY <1>2
  <2>2. (MayPay(w) <=> MayPay(w)') => d = c
    <3> SUFFICES ASSUME MayPay(w) <=> MayPay(w)' PROVE d = c
      OBVIOUS
    <3>1. \A v \in Ticks : MayPay(v)' <=> MayPay(v)
      BY <2>1
    <3> QED BY <1>3, <3>1, MayPayCounts
  <2> QED BY <1>3, <2>1, <2>2, MayPayCounts
<1>5. /\ Spent = paid + c - overlaps - failures - deletions
      /\ Spent' = paid' + d - overlaps' - failures' - deletions'
  BY <1>3, MayPayCounts DEF Spent
<1> QED BY <1>1, <1>2, <1>4, <1>5

\* A step of one tick that leaves the rows alone.
LEMMA TickMoves ==
  ASSUME RecurringSafe, NEW w \in Ticks, NEW l \in {"idle", "settle", "record"},
         NEW x \in TickRecord, Recurring!At(w, l, x),
         UNCHANGED <<schedule, runs, lastRun, deleting, deletions, now, overlaps>>,
         notified' \in BOOLEAN, failures' \in Nat, paid' \in Nat,
         paidRuns \subseteq paidRuns', paidRuns' \subseteq RunIds,
         l # "idle" =>
             /\ Holding(w) /\ x.at = tick[w].at /\ x.run = tick[w].run
             /\ x.attempt = tick[w].attempt,
         l = "settle" => x.run \in paidRuns',
         Spent' <= Spent, Live(w) /\ l = "idle" => Spent' + 1 <= Spent
  PROVE  RecurringSafe'
<1>1. RecurringTyped /\ HeldRuns /\ RowsFit /\ PaidBefore
  BY DEF RecurringSafe
<1>2. l \in Positions
  BY DEF Positions
<1>3. \A v \in Ticks \ {w} : Holding(v) => (HasRow(v)' <=> HasRow(v))
  BY <1>1, <1>2, RecurringGoes DEF HasRow
<1>4. /\ position' \in [Ticks -> Positions] /\ tick' \in [Ticks -> TickRecord]
      /\ position'[w] = l /\ tick'[w] = x
      /\ \A v \in Ticks \ {w} :
             /\ position'[v] = position[v] /\ tick'[v] = tick[v]
             /\ Live(v)' <=> Live(v)
             /\ InProgress(v)' <=> InProgress(v)
  BY <1>1, <1>2, <1>3, OneTick
<1>5. RecurringTyped'
  BY <1>1, <1>4 DEF RecurringTyped
<1>6. \A v \in Ticks : Holding(v)' => Holding(v) /\ tick'[v].run = tick[v].run
                                      /\ tick'[v].attempt = tick[v].attempt
  BY <1>4 DEF Holding
<1>7. HeldRuns'
  <2> SUFFICES ASSUME NEW v \in Ticks, Holding(v)'
               PROVE  /\ tick'[v].run \in RunIds /\ tick'[v].run <= lastRun'
                      /\ runs'[tick'[v].run].status \in {"PROCESSING", "ABSENT"}
                      /\ runs'[tick'[v].run].status = "PROCESSING" =>
                             runs'[tick'[v].run].attempt = tick'[v].attempt
                      /\ position'[v] = "settle" => tick'[v].run \in paidRuns'
                      /\ \A u \in Ticks : Holding(u)' /\ u # v =>
                             tick'[u].run # tick'[v].run
    BY DEF HeldRuns
  <2>1. Holding(v) /\ tick'[v].run = tick[v].run /\ tick'[v].attempt = tick[v].attempt
    BY <1>6
  <2>2. position'[v] = "settle" => tick'[v].run \in paidRuns'
    BY <1>1, <1>4, <2>1 DEF HeldRuns
  <2>3. \A u \in Ticks : Holding(u)' /\ u # v => tick'[u].run # tick'[v].run
    BY <1>1, <1>6, <2>1 DEF HeldRuns
  <2> QED BY <1>1, <2>1, <2>2, <2>3 DEF HeldRuns
<1>8. RowsFit'
  BY <1>1 DEF RowsFit
<1>9. PaidBefore'
  <2>1. now <= now' /\ schedule'.nextRunAt = schedule.nextRunAt
    BY <1>1, RecurringTypes
  <2>2. \A v \in Ticks : InProgress(v)' => InProgress(v) /\ tick'[v].at = tick[v].at
    BY <1>4 DEF InProgress, Holding
  <2>3. (\A v \in Ticks : Live(v) => Live(v)') \/ Spent' + 1 <= Spent
    <3>1. CASE Live(w) /\ l = "idle"
      BY <3>1
    <3>2. CASE l # "idle" /\ Live(w)
      <4>1. HasRow(w) /\ tick'[w].run = tick[w].run
        BY <1>4, <3>2 DEF Live, Holding
      <4>2. HasRow(w)' /\ Holding(w)'
        BY <1>4, <3>2, <4>1 DEF HasRow, Holding
      <4> QED BY <1>4, <4>2 DEF Live
    <3>3. CASE ~Live(w)
      BY <1>4, <3>3
    <3> QED BY <3>1, <3>2, <3>3
  <2> QED BY <1>1, <1>5, <2>1, <2>2, <2>3, PaidStays
<1> QED BY <1>5, <1>7, <1>8, <1>9 DEF RecurringSafe

\* What every step finds.
LEMMA RecurringHere ==
  ASSUME RecurringSafe
  PROVE  /\ RecurringTyped /\ HeldRuns /\ RowsFit /\ PaidBefore
         /\ schedule \in ScheduleRecord /\ schedule.nextRunAt \in Nat
         /\ schedule.retryCount \in Nat
         /\ runs \in [RunIds -> RunRecord] /\ \A r \in RunIds : runs[r] \in RunRecord
         /\ \A w \in Ticks : /\ position[w] \in Positions /\ tick[w] \in TickRecord
                             /\ tick[w].at \in Nat /\ tick[w].attempt \in Nat
         /\ now \in Nat /\ paid \in Nat /\ overlaps \in Nat
         /\ failures \in Nat /\ deletions \in Nat /\ Spent \in Int
         /\ notified \in BOOLEAN /\ paidRuns \subseteq RunIds
  BY RecurringTypes, SpentTypes DEF RecurringSafe, RecurringTyped

LEMMA RecurringTick == \A w \in Ticks : RecurringSafe /\ Recurring!Tick(w) => RecurringSafe'
<1> SUFFICES ASSUME NEW w \in Ticks, RecurringSafe, Recurring!Tick(w) PROVE RecurringSafe'
  OBVIOUS
<1>a. /\ RecurringTyped /\ HeldRuns /\ RowsFit /\ PaidBefore
      /\ schedule.nextRunAt \in Nat /\ now \in Nat /\ paid \in Nat /\ overlaps \in Nat
      /\ failures \in Nat /\ deletions \in Nat /\ Spent \in Int
  BY RecurringHere
<1> DEFINE x == [Recurring!NoTick EXCEPT !.at = now]
<1>1. /\ position[w] = "idle" /\ schedule.nextRunAt <= now
      /\ Recurring!At(w, "claim", x)
      /\ UNCHANGED <<schedule, runs, lastRun, paid, paidRuns, failures, deleting, deletions,
                     now, notified>>
      /\ IF \E v \in Ticks : InProgress(v) THEN overlaps' = overlaps + 1
         ELSE overlaps' = overlaps
  BY DEF Recurring!Tick, Recurring!userVars, InProgress, Recurring!InProgress
<1>2. x \in TickRecord /\ x.at = now
  BY <1>a, NoTickFits, TickChanges
<1> HIDE DEF x
<1>3. \A v \in Ticks \ {w} : Holding(v) => (HasRow(v)' <=> HasRow(v))
  BY <1>a, <1>1, <1>2, NoTickFits, RecurringGoes DEF HasRow
<1>4. /\ position' \in [Ticks -> Positions] /\ tick' \in [Ticks -> TickRecord]
      /\ position'[w] = "claim" /\ tick'[w] = x
      /\ \A v \in Ticks \ {w} :
             /\ position'[v] = position[v] /\ tick'[v] = tick[v]
             /\ Live(v)' <=> Live(v)
             /\ InProgress(v)' <=> InProgress(v)
  BY <1>a, <1>1, <1>2, <1>3, NoTickFits, OneTick
<1>5. PICK c, d \in Nat :
          /\ Spent = paid + c - overlaps - failures - deletions
          /\ Spent' = paid' + d - overlaps' - failures' - deletions'
          /\ ~MayPay(w) /\ MayPay(w)' => d = c + 1
  BY <1>a, <1>1, <1>2, <1>3, NoTickFits, OneTick
<1>6. d = c + 1
  BY <1>1, <1>4, <1>5 DEF MayPay
<1>7. RecurringTyped'
  <2>1. overlaps' \in Nat
    BY <1>a, <1>1
  <2> QED BY <1>a, <1>1, <1>4, <2>1 DEF RecurringTyped
<1>8. HeldRuns'
  <2>1. \A v \in Ticks : Holding(v)' => v # w /\ Holding(v)
    BY <1>4 DEF Holding
  <2> QED BY <1>a, <1>1, <1>4, <2>1 DEF HeldRuns
<1>9. RowsFit'
  BY <1>a, <1>1 DEF RowsFit
<1>10. PaidBefore'
  <2>1. CASE \E v \in Ticks : InProgress(v)
    <3>1. Spent' <= Spent
      BY <1>a, <1>1, <1>5, <1>6, <2>1
    <3>2. \A v \in Ticks : \/ v = w /\ tick'[v].at = now
                           \/ InProgress(v)' => InProgress(v) /\ tick'[v].at = tick[v].at
      BY <1>2, <1>4
    <3>3. \A v \in Ticks : Live(v) => Live(v)'
      BY <1>1, <1>4 DEF Live, Holding
    <3>4. now <= now' /\ schedule'.nextRunAt = schedule.nextRunAt
      BY <1>a, <1>1
    <3> QED BY <1>a, <1>7, <3>1, <3>2, <3>3, <3>4, PaidStays
  <2>2. CASE ~ \E v \in Ticks : InProgress(v)
    <3>1. Spent' = Spent + 1
      BY <1>a, <1>1, <1>5, <1>6, <2>2
    <3>2. Spent + 1 <= Occurrence(schedule.nextRunAt)
      BY <1>a, <2>2 DEF PaidBefore, Live, InProgress, Holding
    <3>3. /\ Occurrence(schedule.nextRunAt) <= Occurrence(now)
          /\ Occurrence(schedule.nextRunAt) \in Nat /\ Occurrence(now) \in Nat
      BY <1>a, <1>1, OccurrencesInOrder, OccurrenceBounds
    <3>4. Spent' <= Occurrence(schedule.nextRunAt) /\ Spent' <= Occurrence(now)
      BY <1>a, <3>1, <3>2, <3>3
    <3>5. Live(w)' /\ \A v \in Ticks : InProgress(v)' => tick'[v].at = now
      BY <1>2, <1>4, <2>2 DEF Live
    <3>6. /\ Occurrence(now)' = Occurrence(now)
          /\ Occurrence(schedule.nextRunAt)' = Occurrence(schedule.nextRunAt)
          /\ \A v \in Ticks : Occurrence(tick[v].at)' = Occurrence(tick'[v].at)
          /\ now' = now
      BY <1>1 DEF Occurrence
    <3> QED BY <1>a, <3>4, <3>5, <3>6 DEF PaidBefore
  <2> QED BY <2>1, <2>2
<1> QED BY <1>7, <1>8, <1>9, <1>10 DEF RecurringSafe

LEMMA RecurringIdles ==
  \A w \in Ticks :
      /\ RecurringSafe
      /\ \/ Recurring!NotifyUser(w) \/ Recurring!SettleFails(w) \/ Recurring!WorkerDies(w)
      => RecurringSafe'
<1> SUFFICES ASSUME NEW w \in Ticks, RecurringSafe,
                    \/ Recurring!NotifyUser(w) \/ Recurring!SettleFails(w)
                    \/ Recurring!WorkerDies(w)
             PROVE  RecurringSafe'
  OBVIOUS
<1>a. /\ RecurringTyped /\ HeldRuns /\ tick[w] \in TickRecord
      /\ paid \in Nat /\ overlaps \in Nat /\ failures \in Nat /\ deletions \in Nat
      /\ Spent \in Int /\ notified \in BOOLEAN /\ paidRuns \subseteq RunIds
  BY RecurringHere
<1>b. /\ "idle" \in Positions /\ "record" \in Positions
      /\ Recurring!NoTick \in TickRecord
  BY NoTickFits
<1>1. CASE Recurring!NotifyUser(w)
  <2>1. /\ position[w] = "notify" /\ Recurring!At(w, "idle", Recurring!NoTick)
        /\ UNCHANGED <<schedule, runs, lastRun, deleting, deletions, now, overlaps, paid,
                       paidRuns, failures>>
        /\ notified' \in BOOLEAN
    BY <1>1 DEF Recurring!NotifyUser, Recurring!Finish, Recurring!ledgerVars
  <2>2. \A v \in Ticks \ {w} : Holding(v) => (HasRow(v)' <=> HasRow(v))
    BY <1>a, <1>b, <2>1, RecurringGoes DEF HasRow
  <2>3. position'[w] = "idle"
    BY <1>a, <1>b, <2>1, RecurringGoes
  <2>4. ~MayPay(w) /\ ~MayPay(w)' /\ ~Live(w)
    BY <2>1, <2>3 DEF MayPay, Live, Holding
  <2>5. PICK c, d \in Nat :
            /\ Spent = paid + c - overlaps - failures - deletions
            /\ Spent' = paid' + d - overlaps' - failures' - deletions'
            /\ d = c
    BY <1>a, <1>b, <2>1, <2>2, <2>4, OneTick
  <2>6. Spent' <= Spent
    BY <1>a, <2>1, <2>5
  <2> QED BY <1>a, <1>b, <2>1, <2>4, <2>6, TickMoves
<1>2. CASE Recurring!SettleFails(w)
  <2> DEFINE x == [tick[w] EXCEPT !.kind = "TRANSIENT"]
  <2>1. /\ position[w] = "settle" /\ Recurring!At(w, "record", x)
        /\ UNCHANGED <<schedule, runs, lastRun, deleting, deletions, now, overlaps, paid,
                       paidRuns, notified>>
        /\ failures' = failures + 1
    BY <1>2 DEF Recurring!SettleFails, Recurring!userVars, Recurring!ledgerVars,
       Recurring!Fail
  <2>2. /\ x \in TickRecord /\ x.at = tick[w].at /\ x.run = tick[w].run
        /\ x.attempt = tick[w].attempt
    BY <1>a, TickChanges DEF Recurring!Kinds
  <2> HIDE DEF x
  <2>3. \A v \in Ticks \ {w} : Holding(v) => (HasRow(v)' <=> HasRow(v))
    BY <1>a, <1>b, <2>1, <2>2, RecurringGoes DEF HasRow
  <2>4. ~MayPay(w) /\ Holding(w)
    BY <2>1 DEF MayPay, Holding
  <2>5. PICK c, d \in Nat :
            /\ Spent = paid + c - overlaps - failures - deletions
            /\ Spent' = paid' + d - overlaps' - failures' - deletions'
            /\ d = c \/ d = c + 1
    BY <1>a, <1>b, <2>1, <2>2, <2>3, <2>4, OneTick
  <2>6. Spent' <= Spent /\ failures' \in Nat
    BY <1>a, <2>1, <2>5
  <2> QED BY <1>a, <1>b, <2>1, <2>2, <2>4, <2>6, TickMoves
<1>3. CASE Recurring!WorkerDies(w)
  <2>1. /\ Recurring!At(w, "idle", Recurring!NoTick)
        /\ UNCHANGED <<schedule, runs, lastRun, deleting, deletions, now, overlaps, paid,
                       paidRuns, notified>>
        /\ failures' = failures + 1
    BY <1>3 DEF Recurring!WorkerDies, Recurring!Finish, Recurring!userVars,
       Recurring!ledgerVars, Recurring!Fail
  <2>2. \A v \in Ticks \ {w} : Holding(v) => (HasRow(v)' <=> HasRow(v))
    BY <1>a, <1>b, <2>1, RecurringGoes DEF HasRow
  <2>3. position'[w] = "idle"
    BY <1>a, <1>b, <2>1, RecurringGoes
  <2>4. ~MayPay(w)'
    BY <2>3 DEF MayPay
  <2>5. PICK c, d \in Nat :
            /\ Spent = paid + c - overlaps - failures - deletions
            /\ Spent' = paid' + d - overlaps' - failures' - deletions'
            /\ d = c \/ d + 1 = c
    BY <1>a, <1>b, <2>1, <2>2, <2>4, OneTick
  <2>6. Spent' + 1 <= Spent /\ Spent' <= Spent /\ failures' \in Nat
    BY <1>a, <2>1, <2>5
  <2> QED BY <1>a, <1>b, <2>1, <2>6, TickMoves
<1> QED BY <1>1, <1>2, <1>3

LEMMA RecurringPay == \A w \in Ticks : RecurringSafe /\ Recurring!Pay(w) => RecurringSafe'
<1> SUFFICES ASSUME NEW w \in Ticks, RecurringSafe, Recurring!Pay(w) PROVE RecurringSafe'
  OBVIOUS
<1>a. /\ RecurringTyped /\ HeldRuns /\ tick[w] \in TickRecord
      /\ paid \in Nat /\ overlaps \in Nat /\ failures \in Nat /\ deletions \in Nat
      /\ Spent \in Int /\ notified \in BOOLEAN /\ paidRuns \subseteq RunIds
  BY RecurringHere
<1>b. "settle" \in Positions /\ "record" \in Positions
  BY NoTickFits
<1>1. /\ position[w] = "pay" /\ Holding(w)
      /\ UNCHANGED <<schedule, runs, lastRun, deleting, deletions, now, overlaps, notified>>
  BY DEF Recurring!Pay, Recurring!Paid, Recurring!userVars, Recurring!ledgerVars, Holding
<1>2. PICK l \in {"settle", "record"}, x \in TickRecord :
          /\ Recurring!At(w, l, x)
          /\ x.at = tick[w].at /\ x.run = tick[w].run /\ x.attempt = tick[w].attempt
          /\ \/ paidRuns' = paidRuns /\ l = "record"
             \/ paidRuns' = paidRuns \cup {tick[w].run}
          /\ \/ l = "settle" /\ paid' = paid + 1 /\ failures' = failures
             \/ l = "record" /\ paid' = paid /\ failures' = failures
             \/ l = "record" /\ paid' = paid + 1 /\ failures' = failures + 1
  <2>1. CASE /\ Recurring!Paid(w) /\ Recurring!At(w, "settle", tick[w])
             /\ failures' = failures
    BY <1>a, <2>1 DEF Recurring!Paid
  <2>2. CASE /\ \E kind \in Recurring!Kinds \ {"none"} :
                    Recurring!At(w, "record", [tick[w] EXCEPT !.kind = kind])
             /\ UNCHANGED <<paid, paidRuns, failures>>
    <3>1. PICK kind \in Recurring!Kinds :
              Recurring!At(w, "record", [tick[w] EXCEPT !.kind = kind])
      BY <2>2
    <3> DEFINE x == [tick[w] EXCEPT !.kind = kind]
    <3>2. /\ x \in TickRecord /\ x.at = tick[w].at /\ x.run = tick[w].run
          /\ x.attempt = tick[w].attempt /\ Recurring!At(w, "record", x)
      BY <1>a, <3>1, TickChanges
    <3> HIDE DEF x
    <3> QED BY <2>2, <3>2
  <2>3. CASE /\ Recurring!Paid(w) /\ failures' = failures + 1
             /\ Recurring!At(w, "record", [tick[w] EXCEPT !.kind = "TRANSIENT"])
    <3> DEFINE x == [tick[w] EXCEPT !.kind = "TRANSIENT"]
    <3>1. /\ x \in TickRecord /\ x.at = tick[w].at /\ x.run = tick[w].run
          /\ x.attempt = tick[w].attempt /\ Recurring!At(w, "record", x)
      BY <1>a, <2>3, TickChanges DEF Recurring!Kinds
    <3> HIDE DEF x
    <3> QED BY <2>3, <3>1 DEF Recurring!Paid
  <2> QED BY <2>1, <2>2, <2>3 DEF Recurring!Pay, Recurring!Fail, Recurring!ledgerVars
<1>3. \A v \in Ticks \ {w} : Holding(v) => (HasRow(v)' <=> HasRow(v))
  BY <1>a, <1>b, <1>1, <1>2, RecurringGoes DEF HasRow
<1>4. position'[w] = l
  BY <1>a, <1>b, <1>2, RecurringGoes
<1>5. MayPay(w) /\ (l = "settle" => ~MayPay(w)')
  BY <1>1, <1>4 DEF MayPay
<1>6. PICK c, d \in Nat :
          /\ Spent = paid + c - overlaps - failures - deletions
          /\ Spent' = paid' + d - overlaps' - failures' - deletions'
          /\ d = c \/ d + 1 = c
          /\ l = "settle" => d + 1 = c
  BY <1>a, <1>b, <1>2, <1>3, <1>5, OneTick
<1>7. Spent' <= Spent /\ failures' \in Nat /\ paid' \in Nat
  BY <1>a, <1>1, <1>2, <1>6
<1>8. paidRuns \subseteq paidRuns' /\ paidRuns' \subseteq RunIds
      /\ (l = "settle" => x.run \in paidRuns')
  BY <1>a, <1>1, <1>2 DEF HeldRuns
<1> QED BY <1>a, <1>1, <1>2, <1>7, <1>8, TickMoves

LEMMA RecurringClaim == \A w \in Ticks : RecurringSafe /\ Recurring!Claim(w) => RecurringSafe'
<1> SUFFICES ASSUME NEW w \in Ticks, RecurringSafe, Recurring!Claim(w) PROVE RecurringSafe'
  OBVIOUS
<1>a. /\ RecurringTyped /\ HeldRuns /\ RowsFit /\ PaidBefore /\ tick[w] \in TickRecord
      /\ schedule.retryCount \in Nat /\ now \in Nat
      /\ paid \in Nat /\ overlaps \in Nat /\ failures \in Nat /\ deletions \in Nat
      /\ Spent \in Int /\ notified \in BOOLEAN /\ paidRuns \subseteq RunIds
  BY RecurringHere
<1>b. /\ "idle" \in Positions /\ "pay" \in Positions
      /\ Recurring!NoTick \in TickRecord
  BY NoTickFits
<1>1. /\ position[w] = "claim" /\ ~Holding(w) /\ MayPay(w)
      /\ UNCHANGED <<schedule, paid, paidRuns, overlaps, failures, deleting, deletions, now,
                     notified>>
  BY DEF Recurring!Claim, Recurring!userVars, Recurring!ledgerVars, Holding, MayPay
<1>2. CASE schedule.status # "ACTIVE"
  <2>1. /\ Recurring!At(w, "idle", Recurring!NoTick)
        /\ runs' = runs /\ lastRun' = lastRun
    BY <1>2 DEF Recurring!Claim, Recurring!Finish
  <2>2. \A v \in Ticks \ {w} : Holding(v) => (HasRow(v)' <=> HasRow(v))
    BY <1>a, <1>b, <1>1, <2>1, RecurringGoes DEF HasRow
  <2>3. position'[w] = "idle"
    BY <1>a, <1>b, <2>1, RecurringGoes
  <2>4. ~MayPay(w)'
    BY <2>3 DEF MayPay
  <2>5. PICK c, d \in Nat :
            /\ Spent = paid + c - overlaps - failures - deletions
            /\ Spent' = paid' + d - overlaps' - failures' - deletions'
            /\ d + 1 = c
    BY <1>a, <1>b, <1>1, <2>1, <2>2, <2>4, OneTick
  <2>6. Spent' + 1 <= Spent /\ Spent' <= Spent
    BY <1>a, <1>1, <2>5
  <2> QED BY <1>a, <1>b, <1>1, <2>1, <2>6, TickMoves
<1>3. CASE schedule.status = "ACTIVE"
  <2> DEFINE waiting == {r \in RunIds : runs[r].status \in {"PENDING"}}
             attempt == schedule.retryCount + 1
             run == IF waiting # {} THEN Recurring!Latest(waiting) ELSE lastRun + 1
             x == [tick[w] EXCEPT !.run = run, !.attempt = attempt]
             new == [status |-> "PROCESSING", attempt |-> attempt]
  <2>1. /\ run <= MaxRuns /\ lastRun' = IF waiting # {} THEN lastRun ELSE run
        /\ runs' = [runs EXCEPT ![run] = new]
        /\ Recurring!At(w, "pay", x)
    BY <1>3 DEF Recurring!Claim, Recurring!RunsWith, RunIds, Recurring!RunIds
  <2>2. /\ run \in RunIds /\ lastRun' \in 0 .. MaxRuns
        /\ lastRun <= lastRun' /\ run <= lastRun'
        /\ \A v \in Ticks : Holding(v) => tick[v].run # run
    <3>1. lastRun \in 0 .. MaxRuns /\ MaxRuns \in Nat
      BY <1>a, RecurringAssumption DEF RecurringTyped
    <3>2. CASE waiting # {}
      <4>1. run \in waiting
        BY <3>2, LatestOf
      <4>2. run \in RunIds /\ runs[run].status = "PENDING" /\ lastRun' = lastRun
        BY <2>1, <3>2, <4>1
      <4> HIDE DEF run, waiting
      <4>3. ~(run > lastRun)
        BY <1>a, <4>2 DEF RowsFit
      <4>4. run \in Int /\ run <= lastRun
        BY <3>1, <4>2, <4>3 DEF RunIds
      <4>5. \A v \in Ticks : Holding(v) => tick[v].run # run
        BY <1>a, <4>2 DEF HeldRuns
      <4> QED BY <3>1, <4>2, <4>4, <4>5
    <3>3. CASE waiting = {}
      <4>1. run = lastRun + 1 /\ lastRun' = run
        BY <2>1, <3>3
      <4> HIDE DEF run, waiting
      <4>2. run \in RunIds /\ lastRun' \in 0 .. MaxRuns /\ lastRun <= lastRun'
            /\ run <= lastRun'
        BY <2>1, <3>1, <4>1 DEF RunIds
      <4>3. \A v \in Ticks : Holding(v) => tick[v].run # run
        <5> SUFFICES ASSUME NEW v \in Ticks, Holding(v) PROVE tick[v].run # run
          OBVIOUS
        <5>1. tick[v].run \in 1 .. MaxRuns /\ tick[v].run <= lastRun
          BY <1>a DEF HeldRuns, RunIds
        <5> QED BY <3>1, <4>1, <5>1
      <4> QED BY <4>2, <4>3
    <3> QED BY <3>2, <3>3
  <2>3. new \in RunRecord /\ attempt \in Nat
    BY <1>a DEF RunRecord, Recurring!RunStatuses
  <2>4. new.status = "PROCESSING" /\ new.attempt = attempt
    OBVIOUS
  <2>5. x \in TickRecord /\ x.run = run /\ x.attempt = attempt /\ x.at = tick[w].at
    <3> DEFINE y == [tick[w] EXCEPT !.run = run]
    <3>1. x = [y EXCEPT !.attempt = attempt]
      OBVIOUS
    <3>2. run \in 0 .. MaxRuns
      <4> HIDE DEF run
      <4> QED BY <2>2, RecurringAssumption DEF RunIds
    <3>3. PICK r \in 0 .. MaxRuns, n \in Nat : r = run /\ n = attempt
      <4> HIDE DEF run, attempt
      <4> QED BY <2>3, <3>2
    <3>4. PICK h \in TickRecord : h = tick[w]
      BY <1>a
    <3>5. y \in TickRecord /\ y.run = r /\ y.at = h.at
      <4>1. y = [h EXCEPT !.run = r]
        <5> HIDE DEF run
        <5> QED BY <3>3, <3>4
      <4> HIDE DEF y
      <4> QED BY <3>3, <3>4, <4>1 DEF TickRecord
    <3>6. x = [y EXCEPT !.attempt = n]
      <4> HIDE DEF x, y, attempt
      <4> QED BY <3>1, <3>3
    <3> HIDE DEF x, y, run, attempt
    <3>7. x \in TickRecord /\ x.run = y.run /\ x.attempt = n /\ x.at = y.at
      BY <3>3, <3>5, <3>6 DEF TickRecord
    <3> QED BY <3>3, <3>4, <3>5, <3>7
  <2> HIDE DEF run, attempt, new, x, waiting
  <2>6. /\ runs' \in [RunIds -> RunRecord] /\ runs'[run] = new
        /\ \A q \in RunIds : q # run => runs'[q] = runs[q]
    BY <1>a, <2>1, <2>2, <2>3, RunChanges
  <2>7. \A v \in Ticks : Holding(v) => tick[v].run \in RunIds
                                       /\ runs'[tick[v].run] = runs[tick[v].run]
    BY <1>a, <2>2, <2>6 DEF HeldRuns
  <2>8. \A v \in Ticks \ {w} : Holding(v) => (HasRow(v)' <=> HasRow(v))
    <3>1. \A v \in Ticks \ {w} : tick'[v] = tick[v]
      BY <1>a, <1>b, <2>1, <2>5, RecurringGoes
    <3> QED BY <1>1, <2>7, <3>1 DEF HasRow
  <2>9. /\ position' \in [Ticks -> Positions] /\ tick' \in [Ticks -> TickRecord]
        /\ position'[w] = "pay" /\ tick'[w] = x
        /\ \A v \in Ticks \ {w} :
               /\ position'[v] = position[v] /\ tick'[v] = tick[v]
               /\ Live(v)' <=> Live(v)
               /\ InProgress(v)' <=> InProgress(v)
    BY <1>a, <1>b, <2>1, <2>5, <2>8, OneTick
  <2>10. MayPay(w)' /\ Live(w)'
    BY <1>1, <1>3, <2>4, <2>5, <2>6, <2>9 DEF MayPay, Live, Holding, HasRow
  <2>11. PICK c, d \in Nat :
            /\ Spent = paid + c - overlaps - failures - deletions
            /\ Spent' = paid' + d - overlaps' - failures' - deletions'
            /\ d = c
    BY <1>a, <1>b, <1>1, <2>1, <2>5, <2>8, <2>10, OneTick
  <2>12. Spent' <= Spent
    BY <1>a, <1>1, <2>11
  <2>13. RecurringTyped'
    BY <1>a, <1>1, <2>2, <2>6, <2>9 DEF RecurringTyped
  <2>14. HeldRuns'
    <3> SUFFICES ASSUME NEW v \in Ticks, Holding(v)'
                 PROVE  /\ tick'[v].run \in RunIds /\ tick'[v].run <= lastRun'
                        /\ runs'[tick'[v].run].status \in {"PROCESSING", "ABSENT"}
                        /\ runs'[tick'[v].run].status = "PROCESSING" =>
                               runs'[tick'[v].run].attempt = tick'[v].attempt
                        /\ position'[v] = "settle" => tick'[v].run \in paidRuns'
                        /\ \A u \in Ticks : Holding(u)' /\ u # v =>
                               tick'[u].run # tick'[v].run
      BY DEF HeldRuns
    <3>1. CASE v = w
      <4>1. \A u \in Ticks : Holding(u)' /\ u # v => Holding(u) /\ tick'[u] = tick[u]
        BY <2>9, <3>1 DEF Holding
      <4> QED BY <2>2, <2>4, <2>5, <2>6, <2>9, <3>1, <4>1
    <3>2. CASE v # w
      <4>1. Holding(v) /\ tick'[v] = tick[v] /\ position'[v] = position[v]
        BY <2>9, <3>2 DEF Holding
      <4>2. \A u \in Ticks : Holding(u)' /\ u # v => tick'[u].run # tick[v].run
        BY <1>a, <2>2, <2>5, <2>9, <4>1 DEF HeldRuns, Holding
      <4>3. tick[v].run <= lastRun'
        <5>1. tick[v].run \in 1 .. MaxRuns /\ tick[v].run <= lastRun
          BY <1>a, <4>1 DEF HeldRuns, RunIds
        <5> QED BY <1>a, <2>2, <5>1, RecurringAssumption DEF RecurringTyped
      <4> QED BY <1>a, <1>1, <2>7, <4>1, <4>2, <4>3 DEF HeldRuns
    <3> QED BY <3>1, <3>2
  <2>15. RowsFit'
    <3> SUFFICES ASSUME NEW r \in RunIds
                 PROVE  /\ r > lastRun' => runs'[r].status = "ABSENT"
                        /\ runs'[r].status = "PENDING" =>
                               runs'[r].attempt <= RecurringRetries
                        /\ runs'[r].status = "SUCCEEDED" => r \in paidRuns'
                        /\ schedule'.status = "DELETED" => runs'[r].status = "ABSENT"
      BY DEF RowsFit
    <3>1. schedule'.status # "DELETED"
      BY <1>1, <1>3
    <3>2. CASE r = run
      <4>1. r \in 1 .. MaxRuns /\ ~(r > lastRun')
        BY <2>2, <3>2, RecurringAssumption DEF RunIds
      <4> QED BY <2>4, <2>6, <3>1, <3>2, <4>1
    <3>3. CASE r # run
      <4>1. r > lastRun' => r > lastRun
        BY <1>a, <2>2, RecurringAssumption DEF RunIds, RecurringTyped
      <4> QED BY <1>a, <1>1, <2>6, <3>1, <3>3, <4>1 DEF RowsFit
    <3> QED BY <3>2, <3>3
  <2>16. PaidBefore'
    <3>1. \A v \in Ticks : InProgress(v)' => InProgress(v) /\ tick'[v].at = tick[v].at
      BY <1>1, <2>5, <2>9 DEF InProgress
    <3>2. (\A v \in Ticks : Live(v) => Live(v)') /\ now <= now'
          /\ schedule'.nextRunAt = schedule.nextRunAt
      BY <1>a, <1>1, <2>9, <2>10
    <3> QED BY <1>a, <2>12, <2>13, <3>1, <3>2, PaidStays
  <2> QED BY <2>13, <2>14, <2>15, <2>16 DEF RecurringSafe
<1> QED BY <1>2, <1>3

\* The steps that end a run: with a success, with a retry to come, or for good.
LEMMA RecurringEnds ==
  ASSUME RecurringSafe, NEW w \in Ticks, position[w] \in {"settle", "record"}, HasRow(w),
         NEW s \in {"SUCCEEDED", "PENDING", "FAILED", "INSUFFICIENT_FUNDS"},
         runs' = [runs EXCEPT ![tick[w].run].status = s],
         NEW n \in Nat, NEW m \in Nat,
         schedule' = [schedule EXCEPT !.status = "ACTIVE", !.retryCount = n,
                                      !.nextRunAt = m],
         NEW l \in {"idle", "notify"}, NEW x \in TickRecord, Recurring!At(w, l, x),
         s = "SUCCEEDED" => position[w] = "settle",
         s = "PENDING" => tick[w].attempt <= RecurringRetries,
         Occurrence(tick[w].at) <= Occurrence(m),
         position[w] = "settle" => Occurrence(tick[w].at) + 1 <= Occurrence(m),
         UNCHANGED <<lastRun, paid, paidRuns, overlaps, failures, deleting, deletions, now,
                     notified>>
  PROVE  RecurringSafe'
<1>a. /\ RecurringTyped /\ HeldRuns /\ RowsFit /\ PaidBefore
      /\ schedule \in ScheduleRecord /\ \A r \in RunIds : runs[r] \in RunRecord
      /\ now \in Nat /\ paid \in Nat /\ overlaps \in Nat /\ failures \in Nat
      /\ deletions \in Nat /\ Spent \in Int /\ tick[w].at \in Nat
  BY RecurringHere
<1>b. PICK id \in RunIds : /\ id = tick[w].run /\ runs[id].status = "PROCESSING"
                           /\ runs[id].attempt = tick[w].attempt
  BY <1>a DEF HeldRuns, Holding, HasRow
<1>c. Holding(w) /\ Live(w) /\ InProgress(w) /\ schedule.status # "DELETED"
      /\ (MayPay(w) <=> position[w] = "record")
  BY DEF Holding, Live, InProgress, MayPay, HasRow
<1> DEFINE new == [runs[id] EXCEPT !.status = s]
<1>1. /\ new \in RunRecord /\ new.status = s /\ new.attempt = tick[w].attempt
      /\ runs' = [runs EXCEPT ![id] = new]
  <2>1. runs' = [runs EXCEPT ![id] = new]
    BY <1>b
  <2>2. runs[id] \in RunRecord
    BY <1>a, <1>b
  <2>3. new \in RunRecord /\ new.status = s /\ new.attempt = runs[id].attempt
    BY <2>2 DEF RunRecord, Recurring!RunStatuses
  <2> QED BY <1>b, <2>1, <2>3
<1> HIDE DEF new
<1>2. /\ runs' \in [RunIds -> RunRecord] /\ runs'[id] = new
      /\ \A q \in RunIds : q # id => runs'[q] = runs[q]
  BY <1>a, <1>1, RunChanges
<1>3. /\ schedule' \in ScheduleRecord /\ schedule'.status = "ACTIVE"
      /\ schedule'.nextRunAt = m
  BY <1>a, ScheduleChanges
<1>4. l \in Positions
  BY DEF Positions
<1>5. \A v \in Ticks \ {w} : Holding(v) => (HasRow(v)' <=> HasRow(v))
  <2>1. \A v \in Ticks \ {w} : tick'[v] = tick[v]
    BY <1>a, <1>4, RecurringGoes
  <2>2. \A v \in Ticks \ {w} : Holding(v) => tick[v].run \in RunIds /\ tick[v].run # id
    BY <1>a, <1>b, <1>c DEF HeldRuns
  <2> QED BY <1>2, <1>3, <1>c, <2>1, <2>2 DEF HasRow
<1>6. /\ position' \in [Ticks -> Positions] /\ tick' \in [Ticks -> TickRecord]
      /\ position'[w] = l /\ tick'[w] = x
      /\ \A v \in Ticks \ {w} :
             /\ position'[v] = position[v] /\ tick'[v] = tick[v]
             /\ InProgress(v)' <=> InProgress(v)
  BY <1>a, <1>4, <1>5, OneTick
<1>7. ~MayPay(w)' /\ ~InProgress(w)' /\ ~Holding(w)'
  BY <1>6 DEF MayPay, InProgress, Holding
<1>8. PICK c, d \in Nat :
          /\ Spent = paid + c - overlaps - failures - deletions
          /\ Spent' = paid' + d - overlaps' - failures' - deletions'
          /\ position[w] = "record" => d + 1 = c
          /\ position[w] = "settle" => d = c
  BY <1>a, <1>c, <1>4, <1>5, <1>7, OneTick
<1>9. /\ Spent' <= Spent
      /\ position[w] = "record" => Spent' + 1 <= Spent
  BY <1>a, <1>8
<1>10. RecurringTyped'
  BY <1>a, <1>2, <1>3, <1>6 DEF RecurringTyped
<1>11. HeldRuns'
  <2> SUFFICES ASSUME NEW v \in Ticks, Holding(v)'
               PROVE  /\ tick'[v].run \in RunIds /\ tick'[v].run <= lastRun'
                      /\ runs'[tick'[v].run].status \in {"PROCESSING", "ABSENT"}
                      /\ runs'[tick'[v].run].status = "PROCESSING" =>
                             runs'[tick'[v].run].attempt = tick'[v].attempt
                      /\ position'[v] = "settle" => tick'[v].run \in paidRuns'
                      /\ \A u \in Ticks : Holding(u)' /\ u # v =>
                             tick'[u].run # tick'[v].run
    BY DEF HeldRuns
  <2>1. \A u \in Ticks : Holding(u)' => u # w /\ Holding(u) /\ tick'[u] = tick[u]
    BY <1>6, <1>7 DEF Holding
  <2>2. v # w /\ Holding(v) /\ tick'[v] = tick[v] /\ position'[v] = position[v]
    BY <1>6, <2>1
  <2>3. tick[v].run \in RunIds /\ tick[v].run # id
    BY <1>a, <1>b, <1>c, <2>2 DEF HeldRuns
  <2>4. \A u \in Ticks : Holding(u)' /\ u # v => tick'[u].run # tick'[v].run
    BY <1>a, <2>1, <2>2 DEF HeldRuns
  <2>5. runs'[tick[v].run] = runs[tick[v].run]
    BY <1>2, <2>3
  <2>6. /\ tick[v].run <= lastRun
        /\ runs[tick[v].run].status \in {"PROCESSING", "ABSENT"}
        /\ runs[tick[v].run].status = "PROCESSING" =>
               runs[tick[v].run].attempt = tick[v].attempt
        /\ position[v] = "settle" => tick[v].run \in paidRuns
    BY <1>a, <2>2 DEF HeldRuns
  <2> QED BY <2>2, <2>3, <2>4, <2>5, <2>6
<1>12. RowsFit'
  <2>1. s = "SUCCEEDED" => id \in paidRuns
    BY <1>a, <1>b, <1>c DEF HeldRuns
  <2>2. ~(id > lastRun)
    BY <1>a, <1>b DEF RowsFit
  <2> QED BY <1>a, <1>1, <1>2, <1>3, <2>1, <2>2 DEF RowsFit
<1>13. PaidBefore'
  <2>1. \A v \in Ticks : InProgress(v)' => InProgress(v) /\ tick'[v].at = tick[v].at
    BY <1>6, <1>7
  <2>2. Spent' + 1 <= Occurrence(schedule'.nextRunAt)
    <3>1. PICK i, j, k, o \in Int :
              i = Spent /\ j = Spent' /\ k = Occurrence(m) /\ o = Occurrence(tick[w].at)
      <4>1. Spent' \in Int
        BY <1>10, SpentTypes
      <4> QED BY <1>a, <4>1, OccurrenceBounds
    <3>2. i <= o /\ j <= i /\ o <= k
      BY <1>a, <1>c, <1>9, <3>1 DEF PaidBefore
    <3>3. CASE position[w] = "record"
      <4>1. j + 1 <= i
        BY <1>9, <3>1, <3>3
      <4>2. j + 1 <= k
        BY <3>1, <3>2, <4>1
      <4> QED BY <1>3, <3>1, <4>2
    <3>4. CASE position[w] = "settle"
      <4>1. o + 1 <= k
        BY <3>1, <3>4
      <4>2. j + 1 <= k
        BY <3>1, <3>2, <4>1
      <4> QED BY <1>3, <3>1, <4>2
    <3> QED BY <3>3, <3>4
  <2>3. now <= now'
    BY <1>a
  <2> QED BY <1>a, <1>9, <1>10, <2>1, <2>2, <2>3, PaidStays
<1> QED BY <1>10, <1>11, <1>12, <1>13 DEF RecurringSafe

LEMMA RecurringSettle ==
  \A w \in Ticks : RecurringSafe /\ Recurring!Settle(w) => RecurringSafe'
<1> SUFFICES ASSUME NEW w \in Ticks, RecurringSafe, Recurring!Settle(w)
             PROVE  RecurringSafe'
  OBVIOUS
<1>a. /\ RecurringTyped /\ HeldRuns /\ tick[w] \in TickRecord /\ tick[w].at \in Nat
      /\ now \in Nat /\ paid \in Nat /\ overlaps \in Nat /\ failures \in Nat
      /\ deletions \in Nat /\ Spent \in Int /\ notified \in BOOLEAN
      /\ paidRuns \subseteq RunIds
  BY RecurringHere
<1>b. /\ Recurring!NoTick \in TickRecord /\ "record" \in Positions
  BY NoTickFits
<1>1. /\ position[w] = "settle" /\ Holding(w) /\ ~MayPay(w)
      /\ UNCHANGED <<lastRun, paid, paidRuns, overlaps, failures, deleting, deletions, now,
                     notified>>
  BY DEF Recurring!Settle, Recurring!userVars, Recurring!ledgerVars, Holding, MayPay
<1>2. CASE HasRow(w)
  <2> DEFINE m == Recurring!NextRunAt(tick[w].at)
  <2>1. /\ runs' = [runs EXCEPT ![tick[w].run].status = "SUCCEEDED"]
        /\ schedule' = [schedule EXCEPT !.status = "ACTIVE", !.retryCount = 0,
                                        !.nextRunAt = m]
        /\ Recurring!At(w, "idle", Recurring!NoTick)
    BY <1>2 DEF Recurring!Settle, Recurring!Finish, Recurring!RowsExist, HasRow
  <2>2. /\ m \in Nat /\ Occurrence(m) = Occurrence(tick[w].at) + 1
        /\ Occurrence(tick[w].at) \in Nat
    BY <1>a, NextOccurrence, OccurrenceBounds
  <2> HIDE DEF m
  <2>3. /\ Occurrence(tick[w].at) <= Occurrence(m)
        /\ Occurrence(tick[w].at) + 1 <= Occurrence(m)
    BY <1>a, <2>2
  <2>4. PICK s \in {"SUCCEEDED", "PENDING", "FAILED", "INSUFFICIENT_FUNDS"},
            n \in Nat, l \in {"idle", "notify"}, x \in TickRecord :
            s = "SUCCEEDED" /\ n = 0 /\ l = "idle" /\ x = Recurring!NoTick
    BY <1>b
  <2>5. s # "PENDING" /\ Recurring!At(w, l, x)
        /\ runs' = [runs EXCEPT ![tick[w].run].status = s]
        /\ schedule' = [schedule EXCEPT !.status = "ACTIVE", !.retryCount = n,
                                        !.nextRunAt = m]
    BY <2>1, <2>4
  <2> QED BY <1>1, <1>2, <2>2, <2>3, <2>5, RecurringEnds
<1>3. CASE ~HasRow(w)
  <2> DEFINE x == [tick[w] EXCEPT !.kind = "TRANSIENT"]
  <2>1. schedule' = schedule /\ runs' = runs /\ Recurring!At(w, "record", x)
    BY <1>3 DEF Recurring!Settle, Recurring!RowsExist, HasRow
  <2>2. /\ x \in TickRecord /\ x.at = tick[w].at /\ x.run = tick[w].run
        /\ x.attempt = tick[w].attempt
    BY <1>a, TickChanges DEF Recurring!Kinds
  <2> HIDE DEF x
  <2>3. \A v \in Ticks \ {w} : Holding(v) => (HasRow(v)' <=> HasRow(v))
    BY <1>a, <1>b, <2>1, <2>2, RecurringGoes DEF HasRow
  <2>4. position'[w] = "record" /\ tick'[w] = x
    BY <1>a, <1>b, <2>1, <2>2, RecurringGoes
  <2>5. ~MayPay(w)'
    BY <1>3, <2>1, <2>2, <2>4 DEF MayPay, HasRow
  <2>6. PICK c, d \in Nat :
            /\ Spent = paid + c - overlaps - failures - deletions
            /\ Spent' = paid' + d - overlaps' - failures' - deletions'
            /\ d = c
    BY <1>a, <1>b, <1>1, <2>1, <2>2, <2>3, <2>5, OneTick
  <2>7. Spent' <= Spent
    BY <1>a, <1>1, <2>6
  <2> QED BY <1>a, <1>1, <2>1, <2>2, <2>7, TickMoves
<1> QED BY <1>2, <1>3

LEMMA RecurringRecordFailure ==
  \A w \in Ticks : RecurringSafe /\ Recurring!RecordFailure(w) => RecurringSafe'
<1> SUFFICES ASSUME NEW w \in Ticks, RecurringSafe, Recurring!RecordFailure(w)
             PROVE  RecurringSafe'
  OBVIOUS
<1>a. /\ RecurringTyped /\ HeldRuns /\ tick[w] \in TickRecord /\ tick[w].at \in Nat
      /\ tick[w].attempt \in Nat
      /\ now \in Nat /\ paid \in Nat /\ overlaps \in Nat /\ failures \in Nat
      /\ deletions \in Nat /\ Spent \in Int /\ notified \in BOOLEAN
      /\ paidRuns \subseteq RunIds
  BY RecurringHere
<1>b. Recurring!NoTick \in TickRecord /\ "idle" \in Positions
  BY NoTickFits
<1>1. /\ position[w] = "record" /\ Holding(w)
      /\ UNCHANGED <<lastRun, paid, paidRuns, overlaps, failures, deleting, deletions, now,
                     notified>>
  BY DEF Recurring!RecordFailure, Recurring!userVars, Recurring!ledgerVars, Holding
<1>2. CASE HasRow(w)
  <2> DEFINE s == Recurring!RunStatusAfter(w)
             m == Recurring!NextRunAfter(w)
             n == IF s = "FAILED" THEN 0 ELSE tick[w].attempt
  <2>1. /\ runs' = [runs EXCEPT ![tick[w].run].status = s]
        /\ schedule' = [schedule EXCEPT !.status = "ACTIVE", !.retryCount = n,
                                        !.nextRunAt = m]
        /\ \E l \in {"idle", "notify"} : Recurring!At(w, l, Recurring!NoTick)
    BY <1>2 DEF Recurring!RecordFailure, Recurring!Finish, Recurring!RowsExist, HasRow
  <2>2. /\ s \in {"PENDING", "FAILED", "INSUFFICIENT_FUNDS"}
        /\ s = "PENDING" => tick[w].attempt <= RecurringRetries
    BY DEF Recurring!RunStatusAfter, Recurring!ShouldRetry
  <2>3. /\ m \in Nat /\ Occurrence(tick[w].at) <= Occurrence(m)
    <3>1. m \in {tick[w].at + FundsDelay, tick[w].at + Backoff,
                 Recurring!NextRunAt(tick[w].at)}
      <4> HIDE DEF s
      <4> QED BY <2>2 DEF Recurring!NextRunAfter
    <3>2. \A d \in Nat : /\ tick[w].at + d \in Nat
                         /\ Occurrence(tick[w].at) <= Occurrence(tick[w].at + d)
      <4> SUFFICES ASSUME NEW d \in Nat
                   PROVE  /\ tick[w].at + d \in Nat
                          /\ Occurrence(tick[w].at) <= Occurrence(tick[w].at + d)
        OBVIOUS
      <4>1. tick[w].at + d \in Nat /\ tick[w].at <= tick[w].at + d
        BY <1>a
      <4> QED BY <1>a, <4>1, OccurrencesInOrder
    <3>3. /\ Recurring!NextRunAt(tick[w].at) \in Nat
          /\ Occurrence(tick[w].at) <= Occurrence(Recurring!NextRunAt(tick[w].at))
      BY <1>a, NextOccurrence, OccurrenceBounds
    <3> HIDE DEF m
    <3> QED BY <3>1, <3>2, <3>3, RecurringAssumption
  <2>4. n \in Nat
    BY <1>a
  <2> HIDE DEF s, m, n
  <2>5. PICK l \in {"idle", "notify"}, x \in TickRecord : Recurring!At(w, l, x)
    BY <1>b, <2>1
  <2>6. /\ s \in {"SUCCEEDED", "PENDING", "FAILED", "INSUFFICIENT_FUNDS"}
        /\ s # "SUCCEEDED" /\ position[w] # "settle"
    BY <1>1, <2>2
  <2> QED BY <1>1, <1>2, <2>1, <2>2, <2>3, <2>4, <2>5, <2>6, RecurringEnds
<1>3. CASE ~HasRow(w)
  <2>1. /\ schedule' = schedule /\ runs' = runs
        /\ Recurring!At(w, "idle", Recurring!NoTick)
    BY <1>3 DEF Recurring!RecordFailure, Recurring!Finish, Recurring!RowsExist, HasRow
  <2>2. \A v \in Ticks \ {w} : Holding(v) => (HasRow(v)' <=> HasRow(v))
    BY <1>a, <1>b, <2>1, RecurringGoes DEF HasRow
  <2>3. position'[w] = "idle"
    BY <1>a, <1>b, <2>1, RecurringGoes
  <2>4. ~MayPay(w) /\ ~MayPay(w)' /\ ~Live(w)
    BY <1>1, <1>3, <2>3 DEF MayPay, Live
  <2>5. PICK c, d \in Nat :
            /\ Spent = paid + c - overlaps - failures - deletions
            /\ Spent' = paid' + d - overlaps' - failures' - deletions'
            /\ d = c
    BY <1>a, <1>b, <1>1, <2>1, <2>2, <2>4, OneTick
  <2>6. Spent' <= Spent
    BY <1>a, <1>1, <2>5
  <2> QED BY <1>a, <1>b, <1>1, <2>1, <2>4, <2>6, TickMoves
<1> QED BY <1>2, <1>3

\* The steps that are not a tick's leave the ticks and the payments alone.
LEMMA RecurringStays ==
  ASSUME RecurringSafe, RecurringTyped', RowsFit', now <= now',
         UNCHANGED <<position, tick, paid, paidRuns, overlaps, failures, deletions, lastRun,
                     runs>>,
         \A w \in Ticks : Holding(w) => (HasRow(w)' <=> HasRow(w)),
         \/ schedule'.nextRunAt = schedule.nextRunAt
         \/ Spent + 1 <= Occurrence(schedule'.nextRunAt)
  PROVE  RecurringSafe'
<1>1. RecurringTyped /\ HeldRuns /\ PaidBefore /\ Spent \in Int
  BY RecurringHere
<1>2. HeldRuns'
  BY <1>1 DEF HeldRuns, Holding
<1>3. \A w \in Ticks : /\ MayPay(w)' <=> MayPay(w)
                       /\ Live(w)' <=> Live(w)
                       /\ InProgress(w)' <=> InProgress(w)
  BY DEF MayPay, Live, InProgress, Holding
<1>4. Spent' = Spent
  <2>1. Cardinality(MayPayTicks)' = Cardinality(MayPayTicks)
    BY <1>3, MayPayCounts
  <2> QED BY <2>1 DEF Spent
<1>5. PaidBefore'
  <2>1. Spent' <= Spent
    BY <1>1, <1>4
  <2>2. \A w \in Ticks : InProgress(w)' => InProgress(w) /\ tick'[w].at = tick[w].at
    BY <1>3
  <2>3. \/ /\ schedule'.nextRunAt = schedule.nextRunAt
           /\ \A w \in Ticks : Live(w) => Live(w)'
        \/ Spent' + 1 <= Occurrence(schedule'.nextRunAt)
    BY <1>3, <1>4
  <2> QED BY <1>1, <2>1, <2>2, <2>3, PaidStays
<1> QED BY <1>2, <1>5 DEF RecurringSafe

LEMMA RecurringEdits ==
  ASSUME RecurringSafe,
         \/ Recurring!UpdateSchedule
         \/ \E status \in {"ACTIVE", "PAUSED", "CANCELLED"} : Recurring!UserSets(status)
  PROVE  RecurringSafe'
<1>a. /\ RecurringTyped /\ RowsFit /\ PaidBefore /\ now \in Nat
      /\ schedule.nextRunAt \in Nat /\ schedule \in ScheduleRecord /\ Spent \in Int
  BY RecurringHere
<1>1. /\ UNCHANGED <<position, tick, paid, paidRuns, overlaps, failures, lastRun, runs,
                     deleting, deletions, now, notified>>
      /\ schedule.status # "DELETED"
  BY DEF Recurring!UpdateSchedule, Recurring!UserSets, Recurring!userVars,
     Recurring!ledgerVars
<1>2. Recurring!NextRunAt(now) \in Nat
      /\ Occurrence(Recurring!NextRunAt(now)) = Occurrence(now) + 1
      /\ Occurrence(now) \in Nat
  BY <1>a, NextOccurrence, OccurrenceBounds
<1>3. PICK m \in {schedule.nextRunAt, Recurring!NextRunAt(now)} :
          /\ schedule' \in ScheduleRecord /\ schedule'.nextRunAt = m
          /\ schedule'.status # "DELETED"
  <2>1. CASE Recurring!UpdateSchedule
    <3> DEFINE m == Recurring!NextRunAt(now)
    <3>1. schedule' = [schedule EXCEPT !.nextRunAt = m] /\ schedule.status # "DELETED"
      BY <2>1 DEF Recurring!UpdateSchedule
    <3>2. m \in Nat
      BY <1>2
    <3> HIDE DEF m
    <3>3. /\ schedule' \in ScheduleRecord /\ schedule'.nextRunAt = m
          /\ schedule'.status = schedule.status
      BY <1>a, <3>1, <3>2 DEF ScheduleRecord
    <3> QED BY <3>1, <3>3 DEF m
  <2>2. CASE \E status \in {"ACTIVE", "PAUSED", "CANCELLED"} : Recurring!UserSets(status)
    <3>1. PICK status \in {"ACTIVE", "PAUSED", "CANCELLED"} : Recurring!UserSets(status)
      BY <2>2
    <3> DEFINE m == IF status = "ACTIVE" THEN Recurring!NextRunAt(now)
                    ELSE schedule.nextRunAt
               a == [schedule EXCEPT !.status = status]
    <3>2. schedule' = [a EXCEPT !.nextRunAt = m]
      BY <3>1 DEF Recurring!UserSets
    <3>3. m \in Nat /\ m \in {schedule.nextRunAt, Recurring!NextRunAt(now)}
      BY <1>a, <1>2
    <3>4. a \in ScheduleRecord /\ a.status = status
      BY <1>a, <3>1 DEF ScheduleRecord, Recurring!ScheduleStatuses
    <3> HIDE DEF a, m
    <3>5. /\ schedule' \in ScheduleRecord /\ schedule'.nextRunAt = m
          /\ schedule'.status = status
      BY <3>2, <3>3, <3>4 DEF ScheduleRecord
    <3> QED BY <3>1, <3>3, <3>5
  <2> QED BY <2>1, <2>2
<1>4. RecurringTyped'
  BY <1>a, <1>1, <1>3 DEF RecurringTyped
<1>5. RowsFit'
  BY <1>a, <1>1, <1>3 DEF RowsFit
<1>6. \A w \in Ticks : Holding(w) => (HasRow(w)' <=> HasRow(w))
  BY <1>1, <1>3 DEF HasRow
<1>7. \/ schedule'.nextRunAt = schedule.nextRunAt
      \/ Spent + 1 <= Occurrence(schedule'.nextRunAt)
  <2>1. Spent + 1 <= Occurrence(Recurring!NextRunAt(now))
    BY <1>a, <1>2 DEF PaidBefore
  <2> QED BY <1>3, <2>1
<1>8. now <= now'
  BY <1>a, <1>1
<1> QED BY <1>1, <1>4, <1>5, <1>6, <1>7, <1>8, RecurringStays

LEMMA RecurringDeletes ==
  ASSUME RecurringSafe, Recurring!DeleteRuns \/ Recurring!DeleteSchedule
  PROVE  RecurringSafe'
<1>a. /\ RecurringTyped /\ HeldRuns /\ RowsFit /\ PaidBefore /\ schedule \in ScheduleRecord
      /\ now \in Nat /\ paid \in Nat /\ overlaps \in Nat /\ failures \in Nat
      /\ deletions \in Nat /\ Spent \in Int
  BY RecurringHere
<1>1. CASE Recurring!DeleteRuns
  <2>1. /\ UNCHANGED <<schedule, lastRun, position, tick, paid, paidRuns, overlaps, failures,
                       now, notified>>
        /\ deleting' = TRUE /\ schedule.status # "DELETED" /\ deletions' = deletions + 1
        /\ runs' = [r \in RunIds |-> [status |-> "ABSENT", attempt |-> 0]]
    BY <1>1 DEF Recurring!DeleteRuns, Recurring!ledgerVars, RunIds, Recurring!RunIds
  <2>2. /\ runs' \in [RunIds -> RunRecord]
        /\ \A r \in RunIds : runs'[r].status = "ABSENT"
    BY <2>1 DEF RunRecord, Recurring!RunStatuses
  <2>3. RecurringTyped'
    BY <1>a, <2>1, <2>2 DEF RecurringTyped
  <2>4. HeldRuns'
    BY <1>a, <2>1, <2>2 DEF HeldRuns, Holding
  <2>5. RowsFit'
    BY <2>2 DEF RowsFit
  <2>6. \A w \in Ticks : /\ MayPay(w)' => MayPay(w)
                         /\ InProgress(w)' <=> InProgress(w)
    <3>1. \A w \in Ticks : Holding(w) => ~HasRow(w)'
      BY <1>a, <2>1, <2>2 DEF HeldRuns, HasRow
    <3> QED BY <2>1, <3>1 DEF MayPay, InProgress, Holding
  <2>7. Spent' + 1 <= Spent /\ Spent' <= Spent
    <3>1. PICK c, d \in Nat : /\ c = Cardinality(MayPayTicks)
                              /\ d = Cardinality(MayPayTicks') /\ d <= c
      BY <2>6, MayPayCounts
    <3>2. /\ Spent = paid + c - overlaps - failures - deletions
          /\ Spent' = paid' + d - overlaps' - failures' - deletions'
      BY <3>1, MayPayCounts DEF Spent
    <3> QED BY <1>a, <2>1, <3>1, <3>2
  <2>8. PaidBefore'
    <3>1. \A w \in Ticks : InProgress(w)' => InProgress(w) /\ tick'[w].at = tick[w].at
      BY <2>1, <2>6
    <3>2. now <= now' /\ schedule'.nextRunAt = schedule.nextRunAt
      BY <1>a, <2>1
    <3> QED BY <1>a, <2>3, <2>7, <3>1, <3>2, PaidStays
  <2> QED BY <2>3, <2>4, <2>5, <2>8 DEF RecurringSafe
<1>2. CASE Recurring!DeleteSchedule
  <2>1. /\ UNCHANGED <<position, tick, paid, paidRuns, overlaps, failures, lastRun, runs, now,
                       notified, deletions>>
        /\ deleting' = FALSE
        /\ schedule' = IF Recurring!RunsWith({"ABSENT"}) = RunIds
                       THEN [schedule EXCEPT !.status = "DELETED"] ELSE schedule
    BY <1>2 DEF Recurring!DeleteSchedule, Recurring!ledgerVars, RunIds, Recurring!RunIds
  <2>2. /\ schedule' \in ScheduleRecord /\ schedule'.nextRunAt = schedule.nextRunAt
        /\ \/ schedule'.status = schedule.status
           \/ \A r \in RunIds : runs[r].status = "ABSENT"
    <3>1. /\ [schedule EXCEPT !.status = "DELETED"] \in ScheduleRecord
          /\ [schedule EXCEPT !.status = "DELETED"].nextRunAt = schedule.nextRunAt
      BY <1>a DEF ScheduleRecord, Recurring!ScheduleStatuses
    <3>2. Recurring!RunsWith({"ABSENT"}) = RunIds =>
              \A r \in RunIds : runs[r].status = "ABSENT"
      BY DEF Recurring!RunsWith
    <3> QED BY <1>a, <2>1, <3>1, <3>2
  <2>3. RecurringTyped'
    BY <1>a, <2>1, <2>2 DEF RecurringTyped
  <2>4. RowsFit'
    BY <1>a, <2>1, <2>2 DEF RowsFit
  <2>5. \A w \in Ticks : Holding(w) => (HasRow(w)' <=> HasRow(w))
    BY <1>a, <2>1, <2>2 DEF HeldRuns, HasRow
  <2>6. now <= now'
    BY <1>a, <2>1
  <2> QED BY <2>1, <2>2, <2>3, <2>4, <2>5, <2>6, RecurringStays
<1> QED BY <1>1, <1>2

LEMMA RecurringTime == RecurringSafe /\ Recurring!TimePasses => RecurringSafe'
<1> SUFFICES ASSUME RecurringSafe, Recurring!TimePasses PROVE RecurringSafe'
  OBVIOUS
<1>a. RecurringTyped /\ RowsFit /\ now \in Nat /\ now \in 0 .. MaxTime
  BY RecurringHere DEF RecurringTyped
<1>1. /\ UNCHANGED <<position, tick, paid, paidRuns, overlaps, failures, lastRun, runs,
                     schedule, deleting, deletions, notified>>
      /\ now < MaxTime /\ now' = now + 1
  BY DEF Recurring!TimePasses, Recurring!ledgerVars
<1>2. now' \in 0 .. MaxTime /\ now <= now'
  BY <1>a, <1>1, RecurringAssumption
<1>3. RecurringTyped'
  BY <1>a, <1>1, <1>2 DEF RecurringTyped
<1>4. RowsFit' /\ \A w \in Ticks : HasRow(w)' <=> HasRow(w)
  BY <1>a, <1>1 DEF RowsFit, HasRow
<1> QED BY <1>1, <1>2, <1>3, <1>4, RecurringStays

LEMMA RecurringInit == Recurring!Init => RecurringSafe
<1> SUFFICES ASSUME Recurring!Init PROVE RecurringSafe
  OBVIOUS
<1>1. /\ schedule.status = "ACTIVE" /\ schedule.nextRunAt = Recurring!NextRunAt(0)
      /\ deletions = 0 /\ now = 0 /\ paid = 0 /\ overlaps = 0 /\ failures = 0
      /\ paidRuns = {} /\ lastRun = 0
      /\ \A w \in Ticks : position[w] = "idle"
      /\ \A r \in RunIds : runs[r].status = "ABSENT"
  BY DEF Recurring!Init, RunIds, Recurring!RunIds
<1>2. /\ Recurring!NextRunAt(0) \in Nat /\ Occurrence(0) = 0
      /\ Occurrence(Recurring!NextRunAt(0)) = 1
  <2>1. Occurrence(0) = 0
    BY RecurringAssumption DEF Occurrence
  <2> QED BY <2>1, NextOccurrence
<1>3. RecurringTyped
  <2>1. schedule \in ScheduleRecord
    BY <1>2 DEF Recurring!Init, ScheduleRecord, Recurring!ScheduleStatuses
  <2>2. runs \in [RunIds -> RunRecord]
    BY DEF Recurring!Init, RunRecord, RunIds, Recurring!RunIds, Recurring!RunStatuses
  <2>3. tick \in [Ticks -> TickRecord] /\ position \in [Ticks -> Positions]
    BY NoTickFits DEF Recurring!Init
  <2>4. deleting \in BOOLEAN /\ notified \in BOOLEAN
    BY DEF Recurring!Init
  <2> QED BY <1>1, <2>1, <2>2, <2>3, <2>4, RecurringAssumption DEF RecurringTyped
<1>4. \A w \in Ticks : ~MayPay(w) /\ ~InProgress(w) /\ ~Holding(w)
  BY <1>1 DEF MayPay, InProgress, Holding
<1>5. Spent = 0
  <2>1. MayPayTicks = {}
    BY <1>4 DEF MayPayTicks
  <2>2. Cardinality(MayPayTicks) = 0
    BY <2>1, FS_EmptySet
  <2> QED BY <1>1, <2>2 DEF Spent
<1>6. PaidBefore
  BY <1>1, <1>2, <1>4, <1>5 DEF PaidBefore
<1> QED BY <1>1, <1>3, <1>4, <1>6 DEF RecurringSafe, HeldRuns, RowsFit

LEMMA RecurringSteps ==
  RecurringSafe /\ [Recurring!Next]_<<recurringVars, failures>> => RecurringSafe'
<1> SUFFICES ASSUME RecurringSafe, [Recurring!Next]_<<recurringVars, failures>>
             PROVE  RecurringSafe'
  OBVIOUS
<1>1. CASE UNCHANGED <<recurringVars, failures>>
  <2>1. UNCHANGED <<schedule, runs, lastRun, position, tick, deleting, deletions, now,
                    paid, paidRuns, overlaps, notified, failures>>
    BY <1>1 DEF recurringVars
  <2>2. RecurringTyped' /\ RowsFit' /\ now <= now' /\ \A w \in Ticks : HasRow(w)' <=> HasRow(w)
    BY <2>1, RecurringHere DEF RecurringTyped, RowsFit, HasRow
  <2> QED BY <2>1, <2>2, RecurringStays
<1>2. CASE \E w \in Ticks : Recurring!Step(w) \/ Recurring!SettleFails(w)
                            \/ Recurring!WorkerDies(w)
  BY <1>2, RecurringTick, RecurringIdles, RecurringClaim, RecurringPay, RecurringSettle,
     RecurringRecordFailure DEF Recurring!Step
<1>3. CASE Recurring!UserStep
  BY <1>3, RecurringEdits, RecurringDeletes DEF Recurring!UserStep
<1>4. CASE Recurring!TimePasses
  BY <1>4, RecurringTime
<1> QED BY <1>1, <1>2, <1>3, <1>4 DEF Recurring!Next

\* Where another service runs, no run is ever made.
RecurringInv ==
    /\ service = "recurring" => RecurringSafe
    /\ service # "recurring" => Succeeded = {}

LEMMA RecurringInitInv == ServicesInit => RecurringInv
<1>1. Recurring!Init => Succeeded = {}
  BY DEF Recurring!Init, Succeeded, RunIds, Recurring!RunIds
<1> QED BY <1>1, RecurringInit DEF ServicesInit, RecurringInv

LEMMA RecurringInvSteps == RecurringInv /\ [ServicesNext]_servicesVars => RecurringInv'
  BY OwnSteps, RecurringSteps DEF RecurringInv, recurringVars, Succeeded

\* Each payment beyond the cron's occurrences is explained, however many ticks overlap;
\* and a run is requeued only as often as configured.
THEOREM PaymentsCorrect == ServicesSpec => []PaymentsAreExplained
<1>1. ASSUME RecurringSafe PROVE Recurring!PaymentsAreExplained
  <2>1. /\ paid \in Nat /\ overlaps \in Nat /\ failures \in Nat /\ deletions \in Nat
        /\ now \in Nat /\ PaidBefore
    BY <1>1, RecurringHere
  <2>2. PICK c, o \in Nat : c = Cardinality(MayPayTicks) /\ o = Occurrence(now)
    BY <2>1, MayPayCounts, OccurrenceBounds
  <2>3. paid + c - overlaps - failures - deletions <= o
    BY <2>1, <2>2 DEF PaidBefore, Spent
  <2>4. paid <= o + overlaps + failures + deletions
    BY <2>1, <2>3
  <2> QED BY <2>2, <2>4 DEF Recurring!PaymentsAreExplained, Occurrence
<1>2. ASSUME RecurringSafe PROVE Recurring!RequeueIsBounded
  BY <1>2 DEF RecurringSafe, RowsFit, Recurring!RequeueIsBounded, Recurring!RunsWith,
     RunIds, Recurring!RunIds
<1>3. RecurringInv => PaymentsAreExplained
  BY <1>1, <1>2 DEF RecurringInv, PaymentsAreExplained
<1> QED BY RecurringInitInv, RecurringInvSteps, <1>3, PTL DEF ServicesSpec

\* No row reports what did not happen, whatever fails, is retried or deleted.
THEOREM ReportsCorrect == ServicesSpec => []ReportsAreTrue
<1>1. QueueInv => Queue!CompletedIsTrue /\ Queue!SuccessIsApplied
  <2>1. CASE service = "queue"
    BY <2>1 DEF QueueInv, QueueSafe
  <2>2. CASE service # "queue"
    BY <2>2 DEF QueueInv, Queue!NoRow, Queue!CompletedIsTrue, Queue!SuccessIsApplied
  <2> QED BY <2>1, <2>2
<1>2. RecurringInv => Recurring!SucceededIsPaid
  BY DEF RecurringInv, RecurringSafe, RowsFit, Succeeded, Recurring!SucceededIsPaid,
     Recurring!RunsWith, RunIds, Recurring!RunIds
<1>3. QueueInv /\ RecurringInv => ReportsAreTrue
  BY <1>1, <1>2 DEF ReportsAreTrue
<1> QED BY QueueInitInv, QueueInvSteps, RecurringInitInv, RecurringInvSteps, <1>3, PTL
        DEF ServicesSpec

------------------------------------------------------------------------------
(* The event indexer *)

\* The community modules' Max is what its name says.
LEMMA GreatestOf ==
  ASSUME NEW N \in Nat, NEW S, S \subseteq 0 .. N, S # {}
  PROVE  Indexer!Max(S) \in S /\ \A y \in S : y <= Indexer!Max(S)
<1> DEFINE T == {n \in Nat : N - n \in S}
<1>1. T # {}
  <2>1. PICK s \in S : TRUE
    OBVIOUS
  <2>2. N - s \in Nat /\ N - (N - s) \in S
    BY <2>1
  <2> QED BY <2>2
<1>2. PICK t \in T : \A u \in T : t <= u
  BY <1>1, LeastNatural
<1>3. \A y \in S : y <= N - t
  <2> SUFFICES ASSUME NEW y \in S PROVE y <= N - t
    OBVIOUS
  <2>1. N - y \in Nat /\ N - (N - y) = y
    OBVIOUS
  <2>2. t <= N - y
    BY <1>2, <2>1
  <2> QED BY <2>2
<1> QED BY <1>2, <1>3 DEF Indexer!Max

IndexerCall == [cursor : 0 .. MaxLedger, at : {"idle", "fetch", "store"},
                start : 0 .. MaxLedger, end : 0 .. MaxLedger,
                todo : SUBSET Indexer!AllEvents]
IndexerHistory == [first : 0 .. MaxLedger, clean : BOOLEAN]

IndexerTyped ==
    /\ db \subseteq Indexer!AllEvents /\ outside \in 1 .. MaxLedger
    /\ calls \in IndexerCall /\ history \in IndexerHistory
    /\ failures \in 0 .. IndexerFailures

\* Events are stored at most a batch beyond the cursor.  A batch in progress follows on
\* the cursor, and events are stored of its ledgers and of those before only; otherwise
\* none are waiting to be stored.
BatchInOrder ==
    /\ calls.at # "store" => calls.todo = {}
    /\ \A e \in db : e[1] <= outside
    /\ calls.cursor # 0 => \A e \in db : e[1] <= calls.cursor + BatchSize
    /\ calls.at # "idle" =>
           /\ 1 <= calls.start /\ calls.start <= calls.end /\ calls.end <= outside
           /\ calls.end <= calls.start + BatchSize - 1
           /\ \A e \in db : e[1] <= calls.end
           /\ \A e \in calls.todo : calls.start <= e[1] /\ e[1] <= calls.end
           /\ calls.cursor # 0 => calls.start = calls.cursor + 1

\* While no write fails and no page is cut off, a batch's events are stored or waiting;
\* and once there is a first ledger, all events are stored up to the cursor and, between
\* batches, up to the newest stored one, from which a restart goes on.
NoHoles ==
    history.clean =>
        /\ calls.at = "store" =>
               Indexer!Events(calls.start, calls.end) \subseteq db \cup calls.todo
        /\ history.first # 0 =>
               /\ Indexer!Events(history.first, calls.cursor) \subseteq db
               /\ calls.cursor = 0 => db # {} /\ calls.at = "idle"
               /\ calls.at # "store" =>
                      \A d \in db : Indexer!Events(history.first, d[1]) \subseteq db

IndexerSafe == IndexerTyped /\ BatchInOrder /\ NoHoles

LEMMA IndexerHere ==
  ASSUME IndexerTyped
  PROVE  /\ calls.cursor \in 0 .. MaxLedger /\ calls.start \in 0 .. MaxLedger
         /\ calls.end \in 0 .. MaxLedger /\ calls.todo \subseteq Indexer!AllEvents
         /\ calls.at \in {"idle", "fetch", "store"}
         /\ history.first \in 0 .. MaxLedger /\ history.clean \in BOOLEAN
         /\ MaxLedger \in Nat /\ BatchSize \in Nat /\ BatchSize > 0
         /\ outside \in Nat /\ outside >= 1 /\ outside <= MaxLedger
         /\ \A e \in Indexer!AllEvents : e[1] \in 1 .. MaxLedger
  BY IndexerAssumption DEF IndexerTyped, IndexerCall, IndexerHistory, Indexer!AllEvents

\* The newest stored ledger.
LEMMA Newest ==
  ASSUME IndexerTyped
  PROVE  /\ Indexer!NewestStored \in 0 .. MaxLedger
         /\ \A e \in db : e[1] <= Indexer!NewestStored
         /\ db = {} => Indexer!NewestStored = 0
         /\ db # {} => \E d \in db : d[1] = Indexer!NewestStored
         /\ db # {} => Indexer!NewestStored >= 1
<1> DEFINE S == {e[1] : e \in db} \cup {0}
<1>1. S \subseteq 0 .. MaxLedger /\ S # {} /\ MaxLedger \in Nat
  BY IndexerHere DEF IndexerTyped
<1>2. Indexer!NewestStored \in S /\ \A y \in S : y <= Indexer!NewestStored
  <2> HIDE DEF S
  <2>1. Indexer!Max(S) \in S /\ \A y \in S : y <= Indexer!Max(S)
    BY <1>1, GreatestOf
  <2> QED BY <2>1 DEF Indexer!NewestStored, S
<1>3. \A e \in db : e[1] \in 1 .. MaxLedger /\ e[1] <= Indexer!NewestStored
  BY <1>2, IndexerHere DEF IndexerTyped
<1>4. Indexer!NewestStored \in 0 .. MaxLedger
  BY <1>1, <1>2
<1> QED BY <1>2, <1>3, <1>4

LEMMA EventsBetween ==
  /\ \A m, n : \A e \in Indexer!AllEvents :
         e \in Indexer!Events(m, n) <=>
             m <= e[1] /\ e[1] <= n /\ e[2] <= EventsIn[e[1]]
  /\ \A m, n : Indexer!Events(m, n) \subseteq Indexer!AllEvents
  BY DEF Indexer!Events

\* When a batch has been stored, there are no holes up to its end.
LEMMA BatchStored ==
  ASSUME IndexerSafe, history.clean, calls.at = "store", calls.todo = {}
  PROVE  /\ Indexer!Events(calls.start, calls.end) \subseteq db
         /\ \A d \in db : d[1] <= calls.end
         /\ history.first # 0 =>
                /\ Indexer!Events(history.first, calls.end) \subseteq db
                /\ \A d \in db : Indexer!Events(history.first, d[1]) \subseteq db
<1>1. /\ Indexer!Events(calls.start, calls.end) \subseteq db
      /\ \A d \in db : d[1] <= calls.end
  BY DEF IndexerSafe, NoHoles, BatchInOrder
<1>2. ASSUME history.first # 0
      PROVE  Indexer!Events(history.first, calls.end) \subseteq db
  <2>1. /\ Indexer!Events(history.first, calls.cursor) \subseteq db
        /\ calls.cursor # 0 /\ calls.start = calls.cursor + 1
    BY <1>2 DEF IndexerSafe, NoHoles, BatchInOrder
  <2> SUFFICES ASSUME NEW e \in Indexer!AllEvents,
                      e \in Indexer!Events(history.first, calls.end)
               PROVE  e \in db
    BY EventsBetween
  <2>2. /\ history.first <= e[1] /\ e[1] <= calls.end /\ e[2] <= EventsIn[e[1]]
        /\ e[1] \in Int /\ calls.cursor \in Int
    BY EventsBetween, IndexerHere DEF IndexerSafe
  <2>3. CASE e[1] <= calls.cursor
    BY <2>1, <2>2, <2>3, EventsBetween
  <2>4. CASE calls.start <= e[1]
    BY <1>1, <2>2, <2>4, EventsBetween
  <2> QED BY <2>1, <2>2, <2>3, <2>4
<1>3. ASSUME history.first # 0, NEW d \in db
      PROVE  Indexer!Events(history.first, d[1]) \subseteq db
  <2> SUFFICES ASSUME NEW e \in Indexer!AllEvents,
                      e \in Indexer!Events(history.first, d[1])
               PROVE  e \in Indexer!Events(history.first, calls.end)
    BY <1>2, <1>3, EventsBetween
  <2>1. e[1] \in Int /\ d[1] \in Int /\ calls.end \in Int /\ d[1] <= calls.end
    BY <1>1, IndexerHere DEF IndexerSafe, IndexerTyped
  <2> QED BY <2>1, EventsBetween
<1> QED BY <1>1, <1>2, <1>3

\* The cursor as the process knows it before a batch, and where the batch begins.
LEMMA CursorKnown ==
  ASSUME IndexerSafe, calls.at = "idle", NEW c, NEW n,
         c = Indexer!KnownCursor, n = Indexer!ResolveStartLedger
  PROVE  /\ c \in 0 .. MaxLedger /\ n \in Nat /\ n >= 1
         /\ \A e \in db : e[1] <= n + BatchSize - 1
         /\ c # 0 => n = c + 1
         /\ c = 0 => calls.cursor = 0 /\ db = {}
         /\ history.clean /\ history.first # 0 =>
                c # 0 /\ Indexer!Events(history.first, c) \subseteq db
<1>1. /\ calls.cursor \in 0 .. MaxLedger /\ Indexer!NewestStored \in 0 .. MaxLedger
      /\ \A e \in db : e[1] <= Indexer!NewestStored /\ e[1] \in Int
      /\ db = {} => Indexer!NewestStored = 0
      /\ db # {} => Indexer!NewestStored >= 1
                    /\ \E d \in db : d[1] = Indexer!NewestStored
      /\ outside \in Nat /\ Lookback \in Nat /\ MaxLedger \in Nat
      /\ BatchSize \in Nat /\ BatchSize > 0
  BY IndexerHere, Newest, IndexerAssumption DEF IndexerSafe, IndexerTyped
<1>2. CASE calls.cursor # 0
  <2>1. c = calls.cursor /\ n = calls.cursor + 1
    BY <1>2 DEF Indexer!KnownCursor, Indexer!ResolveStartLedger, Indexer!Unset
  <2>2. history.clean /\ history.first # 0 => Indexer!Events(history.first, c) \subseteq db
    BY <2>1 DEF IndexerSafe, NoHoles
  <2>3. \A e \in db : e[1] <= calls.cursor + BatchSize
    BY <1>2 DEF IndexerSafe, BatchInOrder
  <2>4. \A e \in db : e[1] <= n + BatchSize - 1
    BY <1>1, <2>1, <2>3
  <2> QED BY <1>1, <1>2, <2>1, <2>2, <2>4
<1>3. CASE calls.cursor = 0 /\ db # {}
  <2>1. c = Indexer!NewestStored /\ n = Indexer!NewestStored + 1
    BY <1>3 DEF Indexer!KnownCursor, Indexer!ResolveStartLedger, Indexer!Unset
  <2>2. \A e \in db : e[1] <= n + BatchSize - 1
    BY <1>1, <2>1
  <2>3. ASSUME history.clean, history.first # 0
        PROVE  Indexer!Events(history.first, c) \subseteq db
    <3>1. PICK d \in db : d[1] = c
      BY <1>1, <1>3, <2>1
    <3>2. Indexer!Events(history.first, d[1]) \subseteq db
      BY <2>3 DEF IndexerSafe, NoHoles
    <3> QED BY <3>1, <3>2
  <2> QED BY <1>1, <1>3, <2>1, <2>2, <2>3
<1>4. CASE calls.cursor = 0 /\ db = {}
  <2>1. c = 0 /\ n = Indexer!Greatest(1, outside - Lookback)
    BY <1>1, <1>4 DEF Indexer!KnownCursor, Indexer!ResolveStartLedger, Indexer!Unset
  <2>2. n \in Nat /\ n >= 1
    BY <1>1, <2>1 DEF Indexer!Greatest
  <2>3. ~(history.clean /\ history.first # 0)
    BY <1>4 DEF IndexerSafe, NoHoles
  <2> QED BY <1>1, <1>4, <2>1, <2>2, <2>3
<1> QED BY <1>2, <1>3, <1>4

LEMMA IndexerInit == Indexer!Init => IndexerSafe
<1> SUFFICES ASSUME Indexer!Init PROVE IndexerSafe
  OBVIOUS
<1>1. /\ db = {} /\ outside = 1 /\ failures = 0
      /\ calls = [cursor |-> 0, at |-> "idle", start |-> 0, end |-> 0, todo |-> {}]
      /\ history = [first |-> 0, clean |-> TRUE]
  BY DEF Indexer!Init, Indexer!Idle, Indexer!Unset, Indexer!Running
<1>2. IndexerTyped
  BY <1>1, IndexerAssumption DEF IndexerTyped, IndexerCall, IndexerHistory
<1> QED BY <1>1, <1>2 DEF IndexerSafe, BatchInOrder, NoHoles

LEMMA IdleIndexer ==
  ASSUME NEW c \in 0 .. MaxLedger
  PROVE  /\ Indexer!Idle(c) \in IndexerCall /\ Indexer!Idle(c).cursor = c
         /\ Indexer!Idle(c).at = "idle" /\ Indexer!Idle(c).todo = {}
  BY IndexerAssumption DEF Indexer!Idle, IndexerCall

\* The steps that end with no batch in progress, at a cursor that all of the events are
\* within a batch of: there are no holes if the history is as clean as it was.
LEMMA IndexerIdles ==
  ASSUME IndexerSafe, NEW c \in 0 .. MaxLedger, calls' = Indexer!Idle(c), db' = db,
         outside' = outside, history' \in IndexerHistory,
         failures' \in 0 .. IndexerFailures,
         c # 0 => \A e \in db : e[1] <= c + BatchSize,
         history'.clean /\ history'.first # 0 =>
             /\ Indexer!Events(history'.first, c) \subseteq db /\ (c = 0 => db # {})
             /\ \A d \in db : Indexer!Events(history'.first, d[1]) \subseteq db
  PROVE  IndexerSafe'
<1>1. /\ calls' \in IndexerCall /\ calls'.cursor = c /\ calls'.at = "idle"
      /\ calls'.todo = {}
  BY IdleIndexer
<1>2. IndexerTyped'
  BY <1>1 DEF IndexerSafe, IndexerTyped
<1>3. BatchInOrder'
  BY <1>1 DEF IndexerSafe, BatchInOrder
<1>4. NoHoles'
  BY <1>1 DEF NoHoles, Indexer!Events
<1> QED BY <1>2, <1>3, <1>4 DEF IndexerSafe

LEMMA IndexerBegins == IndexerSafe /\ Indexer!Begin => IndexerSafe'
<1> SUFFICES ASSUME IndexerSafe, Indexer!Begin PROVE IndexerSafe'
  OBVIOUS
<1> DEFINE n == Indexer!ResolveStartLedger
           c == Indexer!KnownCursor
           last == n + BatchSize - 1
           end == IF last < outside THEN last ELSE outside
           a == [calls EXCEPT !.at = "fetch"]
           b == [a EXCEPT !.start = n]
           x == [b EXCEPT !.cursor = c]
           y == [x EXCEPT !.end = end]
<1>1. /\ calls.at = "idle" /\ n <= outside /\ calls' = y
      /\ UNCHANGED <<db, outside, history, failures>>
  BY DEF Indexer!Begin, Indexer!Step
<1>2. /\ IndexerTyped /\ calls \in IndexerCall /\ BatchInOrder /\ NoHoles
      /\ outside \in Nat /\ outside <= MaxLedger /\ BatchSize \in Nat /\ BatchSize > 0
      /\ MaxLedger \in Nat /\ \A e \in db : e[1] \in Int
  BY IndexerHere DEF IndexerSafe, IndexerTyped
<1>3. /\ c \in 0 .. MaxLedger /\ n \in Nat /\ n >= 1
      /\ \A e \in db : e[1] <= n + BatchSize - 1
      /\ c # 0 => n = c + 1
      /\ c = 0 => calls.cursor = 0 /\ db = {}
      /\ history.clean /\ history.first # 0 =>
             c # 0 /\ Indexer!Events(history.first, c) \subseteq db
  <2> HIDE DEF n, c
  <2>1. /\ c \in 0 .. MaxLedger /\ n \in Nat /\ n >= 1
        /\ \A e \in db : e[1] <= n + BatchSize - 1
    BY <1>1, CursorKnown DEF n, c
  <2>2. /\ c # 0 => n = c + 1
        /\ c = 0 => calls.cursor = 0 /\ db = {}
        /\ history.clean /\ history.first # 0 =>
               c # 0 /\ Indexer!Events(history.first, c) \subseteq db
    BY <1>1, CursorKnown DEF n, c
  <2> QED BY <2>1, <2>2
<1>4. /\ n \in 0 .. MaxLedger /\ end \in 0 .. MaxLedger /\ n <= end /\ end <= outside
      /\ end <= n + BatchSize - 1
      /\ \A e \in db : e[1] <= outside => e[1] <= end
  <2> HIDE DEF n, c
  <2> QED BY <1>1, <1>2, <1>3
<1>5. PICK m \in 0 .. MaxLedger, k \in 0 .. MaxLedger, l \in 0 .. MaxLedger :
          m = n /\ k = c /\ l = end
  <2> HIDE DEF n, c, end
  <2> QED BY <1>3, <1>4
<1> HIDE DEF n, c, end
<1>6. /\ calls' \in IndexerCall /\ calls'.at = "fetch" /\ calls'.start = n
      /\ calls'.cursor = c /\ calls'.end = end /\ calls'.todo = calls.todo
  <2>1. a \in IndexerCall /\ a.at = "fetch" /\ a.todo = calls.todo
    BY <1>2 DEF IndexerCall
  <2> HIDE DEF a
  <2>2. b \in IndexerCall /\ b.at = "fetch" /\ b.todo = calls.todo /\ b.start = m
    BY <1>5, <2>1 DEF IndexerCall
  <2> HIDE DEF b
  <2>3. x \in IndexerCall /\ x.at = "fetch" /\ x.todo = calls.todo /\ x.start = m
        /\ x.cursor = k
    BY <1>5, <2>2 DEF IndexerCall
  <2> HIDE DEF x
  <2>4. y \in IndexerCall /\ y.at = "fetch" /\ y.todo = calls.todo /\ y.start = m
        /\ y.cursor = k /\ y.end = l
    BY <1>5, <2>3 DEF IndexerCall
  <2> QED BY <1>1, <1>5, <2>4
<1> HIDE DEF y
<1>7. calls.todo = {} /\ \A e \in db : e[1] <= outside
  BY <1>1, <1>2 DEF BatchInOrder
<1>8. IndexerTyped'
  BY <1>1, <1>2, <1>6 DEF IndexerTyped
<1>9. BatchInOrder'
  <2>1. \A e \in db : /\ e[1] <= end
                      /\ c # 0 => e[1] <= c + BatchSize
    BY <1>2, <1>3, <1>4, <1>7
  <2> QED BY <1>1, <1>3, <1>4, <1>6, <1>7, <2>1 DEF BatchInOrder
<1>10. NoHoles'
  BY <1>1, <1>2, <1>3, <1>6 DEF NoHoles, Indexer!Events
<1> QED BY <1>8, <1>9, <1>10 DEF IndexerSafe

LEMMA IndexerUpToDate == IndexerSafe /\ Indexer!UpToDate => IndexerSafe'
<1> SUFFICES ASSUME IndexerSafe, Indexer!UpToDate PROVE IndexerSafe'
  OBVIOUS
<1>1. PICK c, n : c = Indexer!KnownCursor /\ n = Indexer!ResolveStartLedger
  OBVIOUS
<1>2. /\ calls.at = "idle" /\ calls' = [calls EXCEPT !.cursor = c]
      /\ UNCHANGED <<db, outside, history, failures>>
  BY <1>1 DEF Indexer!UpToDate, Indexer!Step
<1>3. /\ c \in 0 .. MaxLedger /\ n \in Nat
      /\ \A e \in db : e[1] <= n + BatchSize - 1
      /\ c # 0 => n = c + 1
      /\ c = 0 => calls.cursor = 0 /\ db = {}
      /\ history.clean /\ history.first # 0 =>
             c # 0 /\ Indexer!Events(history.first, c) \subseteq db
  BY <1>1, <1>2, CursorKnown
<1>4. /\ calls' \in IndexerCall /\ calls'.cursor = c /\ calls'.at = calls.at
      /\ calls'.todo = calls.todo
  BY <1>2, <1>3 DEF IndexerSafe, IndexerTyped, IndexerCall
<1>5. IndexerTyped'
  BY <1>2, <1>4 DEF IndexerSafe, IndexerTyped
<1>6. BatchInOrder'
  <2>1. \A e \in db : e[1] \in Int /\ BatchSize \in Nat
    BY IndexerHere DEF IndexerSafe, IndexerTyped
  <2>2. c # 0 => \A e \in db : e[1] <= c + BatchSize
    BY <1>3, <2>1
  <2> QED BY <1>2, <1>4, <2>2 DEF IndexerSafe, BatchInOrder
<1>7. NoHoles'
  BY <1>2, <1>3, <1>4 DEF IndexerSafe, NoHoles, Indexer!Events
<1> QED BY <1>5, <1>6, <1>7 DEF IndexerSafe

\* The steps of a batch that is being stored.
LEMMA IndexerStores ==
  ASSUME IndexerSafe, calls.at # "idle", NEW todo \in SUBSET Indexer!AllEvents,
         calls' \in IndexerCall, calls'.at = "store", calls'.todo = todo,
         calls'.cursor = calls.cursor, calls'.start = calls.start, calls'.end = calls.end,
         \A e \in todo : calls.start <= e[1] /\ e[1] <= calls.end,
         db \subseteq db', db' \subseteq Indexer!AllEvents,
         \A e \in db' : e[1] <= calls.end,
         outside' = outside, history' \in IndexerHistory, history'.first = history.first,
         failures' \in 0 .. IndexerFailures,
         history'.clean =>
             /\ history.clean
             /\ Indexer!Events(calls.start, calls.end) \subseteq db' \cup todo
  PROVE  IndexerSafe'
<1>a. /\ calls.cursor \in Int /\ calls.start \in Int /\ calls.end \in Int
      /\ outside \in Int /\ BatchSize \in Int /\ \A e \in db' : e[1] \in Int
  BY IndexerHere DEF IndexerSafe, IndexerTyped
<1>1. IndexerTyped'
  BY DEF IndexerSafe, IndexerTyped
<1>2. BatchInOrder'
  <2>1. /\ 1 <= calls.start /\ calls.start <= calls.end /\ calls.end <= outside
        /\ calls.end <= calls.start + BatchSize - 1
        /\ calls.cursor # 0 => calls.start = calls.cursor + 1
    BY DEF IndexerSafe, BatchInOrder
  <2>2. \A e \in db' : /\ e[1] <= outside
                       /\ calls.cursor # 0 => e[1] <= calls.cursor + BatchSize
    BY <1>a, <2>1
  <2> QED BY <2>1, <2>2 DEF BatchInOrder
<1>3. NoHoles'
  BY DEF IndexerSafe, NoHoles, Indexer!Events
<1> QED BY <1>1, <1>2, <1>3 DEF IndexerSafe

LEMMA IndexerFetches == IndexerSafe /\ Indexer!Fetch => IndexerSafe'
<1> SUFFICES ASSUME IndexerSafe, Indexer!Fetch PROVE IndexerSafe'
  OBVIOUS
<1> DEFINE all == Indexer!Events(calls.start, calls.end)
<1>1. PICK page \in SUBSET all :
          /\ calls' = [calls EXCEPT !.at = "store", !.todo = page]
          /\ history' = [history EXCEPT !.clean = history.clean /\ page = all]
  BY Zenon DEF Indexer!Fetch
<1>2. calls.at = "fetch" /\ UNCHANGED <<db, outside, failures>>
  BY DEF Indexer!Fetch, Indexer!Step
<1>3. /\ calls \in IndexerCall /\ history \in IndexerHistory
      /\ db \subseteq Indexer!AllEvents /\ failures \in 0 .. IndexerFailures
      /\ \A e \in db : e[1] <= calls.end
  BY <1>2 DEF IndexerSafe, IndexerTyped, BatchInOrder
<1>4. /\ page \in SUBSET Indexer!AllEvents
      /\ \A e \in page : calls.start <= e[1] /\ e[1] <= calls.end
  BY <1>1 DEF Indexer!Events
<1>5. /\ calls' \in IndexerCall /\ calls'.at = "store" /\ calls'.todo = page
      /\ calls'.cursor = calls.cursor /\ calls'.start = calls.start
      /\ calls'.end = calls.end
  <2> DEFINE a == [calls EXCEPT !.at = "store"]
  <2>1. /\ a \in IndexerCall /\ a.at = "store" /\ a.cursor = calls.cursor
        /\ a.start = calls.start /\ a.end = calls.end /\ calls' = [a EXCEPT !.todo = page]
    BY <1>1, <1>3 DEF IndexerCall
  <2> HIDE DEF a
  <2> QED BY <1>4, <2>1 DEF IndexerCall
<1>6. /\ history' \in IndexerHistory /\ history'.first = history.first
      /\ history'.clean => history.clean /\ all \subseteq db' \cup page
  <2>1. /\ history' \in IndexerHistory /\ history'.first = history.first
        /\ history'.clean = (history.clean /\ page = all)
    BY <1>1, <1>3 DEF IndexerHistory
  <2> QED BY <2>1
<1>7. history'.clean =>
          /\ history.clean
          /\ Indexer!Events(calls.start, calls.end) \subseteq db' \cup page
  BY <1>6
<1> HIDE DEF all
<1> QED BY <1>2, <1>3, <1>4, <1>5, <1>6, <1>7, IndexerStores

LEMMA IndexerProcesses ==
  ASSUME IndexerSafe, NEW e \in Indexer!AllEvents,
         Indexer!ProcessEvent(e) \/ Indexer!ProcessEventFails(e)
  PROVE  IndexerSafe'
<1>1. /\ e \in calls.todo /\ calls' = [calls EXCEPT !.todo = calls.todo \ {e}]
      /\ outside' = outside
  BY DEF Indexer!ProcessEvent, Indexer!ProcessEventFails
<1>2. /\ calls \in IndexerCall /\ history \in IndexerHistory
      /\ db \subseteq Indexer!AllEvents /\ failures \in 0 .. IndexerFailures
      /\ calls.at = "store" /\ calls.todo \subseteq Indexer!AllEvents
      /\ \A f \in db : f[1] <= calls.end
      /\ \A f \in calls.todo : calls.start <= f[1] /\ f[1] <= calls.end
      /\ IndexerFailures \in Nat
  BY <1>1, IndexerHere, IndexerAssumption DEF IndexerSafe, IndexerTyped, BatchInOrder
<1> DEFINE todo == calls.todo \ {e}
<1>3. /\ todo \in SUBSET Indexer!AllEvents
      /\ \A f \in todo : calls.start <= f[1] /\ f[1] <= calls.end
  BY <1>2
<1>4. /\ calls' \in IndexerCall /\ calls'.at = "store" /\ calls'.todo = todo
      /\ calls'.cursor = calls.cursor /\ calls'.start = calls.start
      /\ calls'.end = calls.end
  BY <1>1, <1>2, <1>3 DEF IndexerCall
<1>5. history.clean =>
          Indexer!Events(calls.start, calls.end) \subseteq db \cup calls.todo
  BY <1>2 DEF IndexerSafe, NoHoles
<1>6. CASE Indexer!ProcessEvent(e)
  <2>1. db' = db \cup {e} /\ history' = history /\ failures' = failures
    BY <1>6 DEF Indexer!ProcessEvent, Indexer!Step
  <2>2. /\ db \subseteq db' /\ db' \subseteq Indexer!AllEvents
        /\ \A f \in db' : f[1] <= calls.end
        /\ db \cup calls.todo \subseteq db' \cup todo
    BY <1>1, <1>2, <2>1
  <2> HIDE DEF todo
  <2> QED BY <1>1, <1>2, <1>3, <1>4, <1>5, <2>1, <2>2, IndexerStores
<1>7. CASE Indexer!ProcessEventFails(e)
  <2>1. /\ db' = db /\ failures < IndexerFailures /\ failures' = failures + 1
        /\ history' = [history EXCEPT !.clean = history.clean /\ e \in db]
    BY <1>7 DEF Indexer!ProcessEventFails, Indexer!Fail
  <2>2. /\ history' \in IndexerHistory /\ history'.first = history.first
        /\ history'.clean => history.clean /\ e \in db
    BY <1>2, <2>1 DEF IndexerHistory
  <2>3. failures' \in 0 .. IndexerFailures
    BY <1>2, <2>1
  <2>4. e \in db => db \cup calls.todo \subseteq db' \cup todo
    BY <2>1
  <2> HIDE DEF todo
  <2> QED BY <1>1, <1>2, <1>3, <1>4, <1>5, <2>1, <2>2, <2>3, <2>4, IndexerStores
<1> QED BY <1>6, <1>7

LEMMA IndexerEnds ==
  ASSUME IndexerSafe,
         \/ Indexer!CommitLastIndexedLedger \/ Indexer!RoundFails \/ Indexer!Restart
  PROVE  IndexerSafe'
<1>a. /\ history \in IndexerHistory /\ failures \in 0 .. IndexerFailures
      /\ calls.cursor \in 0 .. MaxLedger /\ calls.start \in 0 .. MaxLedger
      /\ calls.end \in 0 .. MaxLedger /\ 0 \in 0 .. MaxLedger
      /\ IndexerFailures \in Nat /\ MaxLedger \in Nat /\ BatchSize \in Nat
      /\ \A e \in db : e[1] \in 1 .. MaxLedger
      /\ history.first \in 0 .. MaxLedger /\ history.clean \in BOOLEAN
      /\ calls.at \in {"idle", "fetch", "store"}
  BY IndexerHere, IndexerAssumption DEF IndexerSafe, IndexerTyped
<1>b. /\ calls.cursor # 0 => \A e \in db : e[1] <= calls.cursor + BatchSize
      /\ calls.at # "idle" => 1 <= calls.start /\ calls.start <= calls.end
                              /\ \A e \in db : e[1] <= calls.end
  BY DEF IndexerSafe, BatchInOrder
<1>c. history.clean /\ history.first # 0 =>
          /\ Indexer!Events(history.first, calls.cursor) \subseteq db
          /\ calls.cursor = 0 => db # {} /\ calls.at = "idle"
          /\ calls.todo = {} =>
                 \A d \in db : Indexer!Events(history.first, d[1]) \subseteq db
  BY BatchStored DEF IndexerSafe, NoHoles
<1>1. CASE Indexer!RoundFails
  <2>1. /\ calls.at \in {"fetch", "store"} /\ calls.at = "store" => calls.todo = {}
        /\ calls' = Indexer!Idle(calls.cursor) /\ UNCHANGED <<db, outside, history>>
        /\ failures < IndexerFailures /\ failures' = failures + 1
    BY <1>1 DEF Indexer!RoundFails, Indexer!Fail
  <2>2. calls.todo = {} /\ failures' \in 0 .. IndexerFailures
    BY <1>a, <2>1 DEF IndexerSafe, BatchInOrder
  <2>3. PICK c \in 0 .. MaxLedger : c = calls.cursor
    BY <1>a
  <2> QED BY <1>a, <1>b, <1>c, <2>1, <2>2, <2>3, IndexerIdles
<1>2. CASE Indexer!Restart
  <2>1. /\ calls' = Indexer!Idle(0) /\ UNCHANGED <<db, outside>>
        /\ history' = [history EXCEPT
                          !.clean = history.clean /\ calls.todo = {} /\ db # {}]
        /\ failures < IndexerFailures /\ failures' = failures + 1
    BY <1>2 DEF Indexer!Restart, Indexer!Fail, Indexer!Unset
  <2>2. /\ history' \in IndexerHistory /\ history'.first = history.first
        /\ history'.clean => history.clean /\ calls.todo = {} /\ db # {}
    BY <1>a, <2>1 DEF IndexerHistory
  <2>3. failures' \in 0 .. IndexerFailures
    BY <1>a, <2>1
  <2>4. history.first # 0 => Indexer!Events(history.first, 0) = {}
    BY <1>a, IndexerHere DEF Indexer!Events, IndexerSafe
  <2>5. PICK c \in 0 .. MaxLedger : c = 0
    BY <1>a
  <2> QED BY <1>a, <1>c, <2>1, <2>2, <2>3, <2>4, <2>5, IndexerIdles
<1>3. CASE Indexer!CommitLastIndexedLedger
  <2>1. /\ calls.at = "store" /\ calls.todo = {} /\ calls' = Indexer!Idle(Indexer!NextCursor)
        /\ history' = [history EXCEPT !.first = IF history.first = 0 THEN calls.start
                                                ELSE history.first]
        /\ UNCHANGED <<db, outside, failures>>
    BY <1>3 DEF Indexer!CommitLastIndexedLedger, Indexer!Step
  <2>2. Indexer!NextCursor = calls.end
    <3>1. Indexer!NewestStored \in 0 .. MaxLedger /\ Indexer!NewestStored <= calls.end
      BY <1>a, <1>b, <2>1, Newest DEF IndexerSafe
    <3> QED BY <1>a, <3>1 DEF Indexer!NextCursor, Indexer!Greatest
  <2>3. PICK c \in 0 .. MaxLedger, f \in 0 .. MaxLedger :
            /\ c = calls.end
            /\ f = IF history.first = 0 THEN calls.start ELSE history.first
    BY <1>a
  <2>4. history' \in IndexerHistory /\ history'.first = f /\ history'.clean = history.clean
    BY <1>a, <2>1, <2>3 DEF IndexerHistory
  <2>5. c # 0 /\ \A e \in db : e[1] <= c + BatchSize
    BY <1>a, <1>b, <2>1, <2>3
  <2>6. ASSUME history.clean
        PROVE  /\ Indexer!Events(f, c) \subseteq db
               /\ \A d \in db : Indexer!Events(f, d[1]) \subseteq db
    <3>1. CASE history.first # 0
      BY <2>1, <2>3, <2>6, <3>1, BatchStored
    <3>2. CASE history.first = 0
      <4>1. Indexer!Events(f, c) \subseteq db /\ \A d \in db : d[1] <= c
        BY <2>1, <2>3, <2>6, <3>2, BatchStored
      <4>2. ASSUME NEW d \in db, NEW e \in Indexer!AllEvents, e \in Indexer!Events(f, d[1])
            PROVE  e \in db
        <5>1. e[1] \in Int /\ d[1] \in Int
          BY <1>a, IndexerHere DEF IndexerSafe
        <5>2. e \in Indexer!Events(f, c)
          BY <4>1, <4>2, <5>1, <2>3, EventsBetween
        <5> QED BY <4>1, <5>2
      <4> QED BY <4>1, <4>2, EventsBetween
    <3> QED BY <3>1, <3>2
  <2> QED BY <1>a, <2>1, <2>2, <2>3, <2>4, <2>5, <2>6, IndexerIdles
<1> QED BY <1>1, <1>2, <1>3

LEMMA IndexerLedger == IndexerSafe /\ Indexer!LedgerCloses => IndexerSafe'
<1> SUFFICES ASSUME IndexerSafe, Indexer!LedgerCloses PROVE IndexerSafe'
  OBVIOUS
<1>1. /\ outside < MaxLedger /\ outside' = outside + 1
      /\ UNCHANGED <<db, calls, history, failures>>
  BY DEF Indexer!LedgerCloses, Indexer!Step
<1>2. outside \in 1 .. MaxLedger /\ MaxLedger \in Nat /\ calls.end \in Int
      /\ \A e \in db : e[1] \in Int
  BY IndexerHere DEF IndexerSafe, IndexerTyped
<1>3. outside' \in 1 .. MaxLedger /\ \A k \in Int : k <= outside => k <= outside'
  BY <1>1, <1>2
<1>4. IndexerTyped'
  BY <1>1, <1>3 DEF IndexerSafe, IndexerTyped
<1>5. BatchInOrder'
  BY <1>1, <1>2, <1>3 DEF IndexerSafe, BatchInOrder
<1>6. NoHoles'
  BY <1>1 DEF IndexerSafe, NoHoles, Indexer!Events
<1> QED BY <1>4, <1>5, <1>6 DEF IndexerSafe

LEMMA IndexerSteps == IndexerSafe /\ [Indexer!Next]_vars => IndexerSafe'
<1>1. IndexerSafe /\ UNCHANGED vars => IndexerSafe'
  BY DEF vars, IndexerSafe, IndexerTyped, BatchInOrder, NoHoles, Indexer!Events
<1> QED BY <1>1, IndexerBegins, IndexerUpToDate, IndexerFetches, IndexerProcesses,
           IndexerEnds, IndexerLedger DEF Indexer!Next

IndexerInv == service = "indexer" => IndexerSafe

LEMMA IndexerInitInv == ServicesInit => IndexerInv
  BY IndexerInit DEF ServicesInit, Start, IndexerInv, Breaker!Init, Breaker!Running, Init,
     Running, Sep31!Init, Sep31!Running, Cache!Init, Cache!Running, Wallet!Init,
     Wallet!Running, Store!Init, Store!Running

LEMMA IndexerInvSteps == IndexerInv /\ [ServicesNext]_servicesVars => IndexerInv'
  BY OwnSteps, IndexerSteps DEF IndexerInv

------------------------------------------------------------------------------
(* The documents *)

Docs == Uploads \X (1 .. MaxDocuments)
UploadCall == [at : {"none", "receive", "validate", "read", "wrap", "write", "over"},
               of : 1 .. MaxDocuments, text : {"none", "part", "whole"}]
RotationCall == [at : {"idle", "rotated", "next", "decrypt", "wrap", "write", "done"},
                 todo : SUBSET Store!Entries, now : Store!Entries, file : Store!File,
                 temp : Store!Temp, key : Store!Versions]
StoreDb == [key : Store!Versions, files : [Docs -> Store!File],
            temps : [Docs -> Store!Temp], left : SUBSET BOOLEAN]
Outcomes == {"none", "accepted", "rejected", "failed", "dead"}
StoreHistory == [torn : SUBSET Docs, due : SUBSET Docs, kept : SUBSET Docs]

Rot == calls["rotation"]

StoreTyped ==
    /\ db \in StoreDb
    /\ calls \in [Uploads \cup {"rotation"} -> UploadCall \cup RotationCall]
    /\ \A r \in Uploads : calls[r] \in UploadCall
    /\ Rot \in RotationCall
    /\ outside \in [Uploads -> Outcomes]
    /\ history \in StoreHistory
    /\ failures \in 0 .. MaxFailures

\* The document that an upload is at; those it has begun to receive, and has received.
IsAt(d) == calls[d[1]].of = d[2]
Received(d) == calls[d[1]].at \notin {"none", "receive"} \/ d[2] < calls[d[1]].of
Begun(d) == Received(d) \/ (calls[d[1]].at = "receive" /\ IsAt(d))

\* The rotation has read d, or the temporary file beside it, and not written it yet.
Holds(kind, d) ==
    Rot.at \in {"decrypt", "wrap", "write"} /\ Rot.now.kind = kind /\ Rot.now.of = d

\* What an upload has done to a document: the file is there from the first byte on, it is
\* encrypted while it is received only by a rotation that has read a part, and after its
\* turn for good.  The temporary file is there while it is written, and encrypted.
InTurn(d) ==
    /\ outside[d[1]] = "none" <=> calls[d[1]].at # "over"
    /\ ~Begun(d) => db.files[d] = Store!Absent /\ ~Holds("document", d)
    /\ Begun(d) /\ outside[d[1]] = "none" => db.files[d] # Store!Absent
    /\ Begun(d) /\ ~Received(d) =>
           \/ d \in history.torn
           \/ ~Store!Encrypted(db.files[d]) /\ ~Holds("document", d)
    /\ outside[d[1]] \in {"none", "accepted"} /\ db.temps[d] # Store!NoTemp =>
           calls[d[1]].at = "write" /\ IsAt(d)
    /\ calls[d[1]].at \in {"wrap", "write"} => calls[d[1]].text # "none"
    /\ calls[d[1]].at = "write" /\ IsAt(d) => Store!Encrypted(db.temps[d].file)
    /\ calls[d[1]].at \in {"read", "wrap", "write"} /\ d[2] < calls[d[1]].of =>
           Store!Encrypted(db.files[d])
    /\ outside[d[1]] = "accepted" => Store!Encrypted(db.files[d])
    /\ outside[d[1]] \in {"rejected", "failed"} =>
           db.files[d] = Store!Absent \/ Store!Encrypted(db.files[d]) \/ d \in history.kept

\* Where no rotation has read a document that was being written, all that is in hand of
\* it is whole: the file once received, and what the upload or the rotation has read.
InOnePiece(d) ==
    d \notin history.torn /\ outside[d[1]] \in {"none", "accepted"} =>
        /\ Received(d) => db.files[d].text = "whole"
        /\ calls[d[1]].at \in {"wrap", "write"} /\ IsAt(d) => calls[d[1]].text = "whole"
        /\ calls[d[1]].at = "write" /\ IsAt(d) => db.temps[d].file.text = "whole"
        /\ Holds("document", d) \/ Holds("temp", d) =>
               /\ Rot.file.text = "whole"
               /\ Rot.at = "write" => Rot.temp.file.text = "whole"

\* A rotation encrypts under the newest key, and each document that was due when it
\* began is still to be read, or in hand, or encrypted so.
Entry(d) == [kind |-> "document", of |-> d]
UnderNewKey(file) == file.form \in {db.key, Store!Local}
InRotation ==
    /\ Rot.at \in {"decrypt", "wrap", "write"} => Rot.file # Store!Absent
    /\ Rot.at = "write" => UnderNewKey(Rot.temp.file)
    /\ Rot.at # "idle" => Rot.key = db.key
    /\ Rot.at = "done" => Rot.todo = {}
    /\ Rot.at \notin {"idle", "rotated"} =>
           \A d \in history.due :
               /\ outside[d[1]] # "none"
               /\ Entry(d) \in Rot.todo \/ Holds("document", d) \/ UnderNewKey(db.files[d])

StoreSafe ==
    /\ StoreTyped /\ InRotation
    /\ \A d \in Docs : InTurn(d) /\ InOnePiece(d)

LEMMA StoreHere ==
  ASSUME StoreTyped
  PROVE  /\ db.key \in Store!Versions /\ db.files \in [Docs -> Store!File]
         /\ db.temps \in [Docs -> Store!Temp] /\ db.left \in SUBSET BOOLEAN
         /\ \A r \in Uploads :
                /\ calls[r].at \in {"none", "receive", "validate", "read", "wrap", "write",
                                    "over"}
                /\ calls[r].of \in 1 .. MaxDocuments
                /\ calls[r].text \in {"none", "part", "whole"}
                /\ <<r, calls[r].of>> \in Docs
         /\ Rot.at \in {"idle", "rotated", "next", "decrypt", "wrap", "write", "done"}
         /\ Rot.todo \in SUBSET Store!Entries /\ Rot.now \in Store!Entries
         /\ Rot.file \in Store!File /\ Rot.temp \in Store!Temp /\ Rot.key \in Store!Versions
         /\ history.torn \in SUBSET Docs /\ history.due \in SUBSET Docs
         /\ history.kept \in SUBSET Docs /\ Store!Documents = Docs
<1>1. /\ db.key \in Store!Versions /\ db.files \in [Docs -> Store!File]
      /\ db.temps \in [Docs -> Store!Temp] /\ db.left \in SUBSET BOOLEAN
  BY DEF StoreTyped, StoreDb
<1>2. \A r \in Uploads :
          /\ calls[r].at \in {"none", "receive", "validate", "read", "wrap", "write", "over"}
          /\ calls[r].of \in 1 .. MaxDocuments
          /\ calls[r].text \in {"none", "part", "whole"}
  BY DEF StoreTyped, UploadCall
<1>3. \A r \in Uploads : <<r, calls[r].of>> \in Docs
  BY <1>2 DEF Docs
<1>4. /\ Rot.at \in {"idle", "rotated", "next", "decrypt", "wrap", "write", "done"}
      /\ Rot.todo \in SUBSET Store!Entries /\ Rot.now \in Store!Entries
      /\ Rot.file \in Store!File /\ Rot.temp \in Store!Temp /\ Rot.key \in Store!Versions
  BY DEF StoreTyped, RotationCall
<1>5. /\ history.torn \in SUBSET Docs /\ history.due \in SUBSET Docs
      /\ history.kept \in SUBSET Docs
  BY DEF StoreTyped, StoreHistory
<1> QED BY <1>1, <1>2, <1>3, <1>4, <1>5 DEF Store!Documents, Docs

LEMMA StoreForms ==
  /\ Store!Absent \in Store!File /\ ~Store!Encrypted(Store!Absent)
  /\ Store!NoTemp \in Store!Temp /\ Store!NoTemp.file = Store!Absent
  /\ ~Store!NoTemp.full
  /\ \A f \in Store!File : f.form \in Store!Versions \cup {Store!Local, Store!Plain}
  /\ \A t \in Store!Temp : t.file \in Store!File /\ t.full \in BOOLEAN
  /\ \A k \in Store!Versions : k # Store!Plain /\ k # Store!Local
  /\ Store!Local # Store!Plain
  BY StoreAssumption DEF Store!Absent, Store!File, Store!Encrypted, Store!NoTemp, Store!Temp,
     Store!Versions, Store!Local, Store!Plain

\* What goes on elsewhere does not concern a document.
LEMMA DocumentKept ==
  ASSUME NEW d \in Docs, InTurn(d), InOnePiece(d),
         calls'[d[1]] = calls[d[1]], outside'[d[1]] = outside[d[1]],
         db'.files[d] = db.files[d], db'.temps[d] = db.temps[d], Rot' = Rot,
         history'.torn = history.torn, history.kept \subseteq history'.kept
  PROVE  InTurn(d)' /\ InOnePiece(d)'
<1>1. /\ IsAt(d)' <=> IsAt(d)
      /\ Received(d)' <=> Received(d)
      /\ Holds("document", d)' <=> Holds("document", d)
      /\ Holds("temp", d)' <=> Holds("temp", d)
  BY DEF IsAt, Received, Holds
<1>2. Begun(d)' <=> Begun(d)
  BY <1>1 DEF Begun
<1> QED BY <1>1, <1>2 DEF InTurn, InOnePiece

\* A step of the upload r, of the documents of which it may change what it likes.
LEMMA UploadGoes ==
  ASSUME StoreSafe, NEW r \in Uploads, calls[r].at # "over", NEW c \in UploadCall,
         calls' = [calls EXCEPT ![r] = c], NEW how \in Outcomes,
         outside' = [outside EXCEPT ![r] = how],
         db' \in StoreDb, db'.key = db.key, failures' \in 0 .. MaxFailures,
         NEW kept \in SUBSET Docs, history' = [history EXCEPT !.kept = kept],
         history.kept \subseteq kept,
         \A d \in Docs : d[1] # r =>
             db'.files[d] = db.files[d] /\ db'.temps[d] = db.temps[d],
         \A d \in Docs : d[1] = r => InTurn(d)' /\ InOnePiece(d)'
  PROVE  StoreSafe'
<1>1. StoreTyped /\ "rotation" \notin Uploads
  BY StoreAssumption DEF StoreSafe
<1>2. /\ calls' \in [Uploads \cup {"rotation"} -> UploadCall \cup RotationCall]
      /\ calls'[r] = c /\ \A q \in Uploads : q # r => calls'[q] = calls[q]
      /\ Rot' = Rot
  BY <1>1 DEF StoreTyped, Rot
<1>3. /\ outside' \in [Uploads -> Outcomes]
      /\ \A q \in Uploads : q # r => outside'[q] = outside[q]
  BY <1>1 DEF StoreTyped
<1>7. /\ history' \in StoreHistory /\ history'.torn = history.torn
      /\ history'.due = history.due /\ history'.kept = kept
  BY <1>1 DEF StoreTyped, StoreHistory
<1>4. StoreTyped'
  BY <1>1, <1>2, <1>3, <1>7 DEF StoreTyped
<1>5. ASSUME NEW d \in Docs PROVE InTurn(d)' /\ InOnePiece(d)'
  <2>1. CASE d[1] = r
    BY <2>1
  <2>2. CASE d[1] # r
    <3>1. d[1] \in Uploads
      BY DEF Docs
    <3>2. calls'[d[1]] = calls[d[1]] /\ outside'[d[1]] = outside[d[1]]
      BY <1>2, <1>3, <2>2, <3>1
    <3>3. InTurn(d) /\ InOnePiece(d)
      BY DEF StoreSafe
    <3> QED BY <1>2, <1>7, <2>2, <3>2, <3>3, DocumentKept
  <2> QED BY <2>1, <2>2
<1>6. InRotation'
  <2>1. \A d \in history.due : Rot.at \notin {"idle", "rotated"} =>
            /\ outside'[d[1]] # "none" /\ db'.files[d] = db.files[d]
    <3> SUFFICES ASSUME NEW d \in history.due, Rot.at \notin {"idle", "rotated"}
                 PROVE  outside'[d[1]] # "none" /\ db'.files[d] = db.files[d]
      OBVIOUS
    <3>1. d \in Docs /\ d[1] \in Uploads /\ outside[d[1]] # "none"
      BY <1>1, StoreHere DEF StoreSafe, InRotation, Docs
    <3>2. calls[d[1]].at = "over"
      BY <3>1 DEF StoreSafe, InTurn
    <3> QED BY <1>3, <3>1, <3>2
  <2> QED BY <1>2, <1>7, <2>1 DEF StoreSafe, InRotation, UnderNewKey, Holds
<1> QED BY <1>4, <1>5, <1>6 DEF StoreSafe

\* A history that stays.
LEMMA HistoryStays ==
  ASSUME StoreSafe, history' = history
  PROVE  \E kept \in SUBSET Docs :
             history' = [history EXCEPT !.kept = kept] /\ history.kept \subseteq kept
<1>1. history \in StoreHistory /\ history.kept \in SUBSET Docs
  BY DEF StoreSafe, StoreTyped, StoreHistory
<1>2. history' = [history EXCEPT !.kept = history.kept]
  BY <1>1 DEF StoreHistory
<1> QED BY <1>1, <1>2

\* The document that the upload r is at, and its others.
LEMMA UploadHere ==
  ASSUME StoreSafe, NEW r \in Uploads
  PROVE  /\ StoreTyped /\ calls[r] \in UploadCall /\ Store!Current(r) \in Docs
         /\ calls[r].of \in 1 .. MaxDocuments /\ MaxDocuments \in Nat
         /\ calls[r].text \in {"none", "part", "whole"}
         /\ \A d \in Docs :
                d[1] = r =>
                    /\ d[2] \in 1 .. MaxDocuments /\ InTurn(d) /\ InOnePiece(d)
                    /\ IsAt(d) <=> d = Store!Current(r)
                    /\ IsAt(d) <=> d[2] = calls[r].of
         /\ Store!Current(r)[1] = r /\ Store!Current(r)[2] = calls[r].of
         /\ \A d \in Docs : db.files[d] \in Store!File /\ db.temps[d] \in Store!Temp
<1>1. StoreTyped /\ calls[r] \in UploadCall
  BY DEF StoreSafe, StoreTyped
<1>2. /\ calls[r].of \in 1 .. MaxDocuments /\ MaxDocuments \in Nat
      /\ calls[r].text \in {"none", "part", "whole"}
  BY <1>1, StoreHere, StoreAssumption
<1>3. /\ Store!Current(r) \in Docs /\ Store!Current(r)[1] = r
      /\ Store!Current(r)[2] = calls[r].of
  BY <1>2 DEF Docs, Store!Current
<1>4. \A d \in Docs : d[2] \in 1 .. MaxDocuments /\ d = <<d[1], d[2]>>
  BY DEF Docs
<1>5. \A d \in Docs : InTurn(d) /\ InOnePiece(d)
  BY DEF StoreSafe
<1>6. \A d \in Docs : d[1] = r => /\ IsAt(d) <=> d = Store!Current(r)
                                  /\ IsAt(d) <=> d[2] = calls[r].of
  BY <1>3, <1>4 DEF IsAt, Store!Current
<1>7. \A d \in Docs : db.files[d] \in Store!File /\ db.temps[d] \in Store!Temp
  BY <1>1, StoreHere
<1> QED BY <1>1, <1>2, <1>3, <1>4, <1>5, <1>6, <1>7

\* What becomes of the upload r's call.
LEMMA CallGoes ==
  ASSUME StoreSafe, NEW r \in Uploads, NEW c \in UploadCall,
         calls' = [calls EXCEPT ![r] = c]
  PROVE  calls'[r] = c /\ Rot' = Rot
  BY StoreAssumption DEF StoreSafe, StoreTyped, Rot

LEMMA NextGoes ==
  ASSUME StoreSafe, NEW r \in Uploads,
         NEW at \in {"none", "validate", "read"},
         NEW then \in {"validate", "read", "over"}, Store!NextDocument(r, at, then)
  PROVE  \E c \in UploadCall :
             /\ calls' = [calls EXCEPT ![r] = c] /\ c.text = calls[r].text
             /\ calls[r].of = MaxDocuments => c.at = then /\ c.of = 1
             /\ calls[r].of # MaxDocuments => c.at = at /\ c.of = calls[r].of + 1
<1> DEFINE a == IF Store!IsLast(r) THEN then ELSE at
           n == IF Store!IsLast(r) THEN 1 ELSE calls[r].of + 1
           b == [calls[r] EXCEPT !.at = a]
           c == [b EXCEPT !.of = n]
<1>1. calls' = [calls EXCEPT ![r] = c]
  BY DEF Store!NextDocument, Store!Goes
<1>2. /\ calls[r] \in UploadCall /\ calls[r].of \in 1 .. MaxDocuments
      /\ MaxDocuments \in Nat /\ MaxDocuments # 0
  BY UploadHere, StoreAssumption
<1>3. /\ a \in {"none", "receive", "validate", "read", "wrap", "write", "over"}
      /\ n \in 1 .. MaxDocuments
  BY <1>2 DEF Store!IsLast
<1>4. /\ calls[r].of = MaxDocuments => a = then /\ n = 1
      /\ calls[r].of # MaxDocuments => a = at /\ n = calls[r].of + 1
  BY DEF Store!IsLast
<1> HIDE DEF a, n
<1>5. b \in UploadCall /\ b.at = a /\ b.text = calls[r].text
  BY <1>2, <1>3 DEF UploadCall
<1> HIDE DEF b
<1>6. c \in UploadCall /\ c.at = a /\ c.of = n /\ c.text = calls[r].text
  BY <1>3, <1>5 DEF UploadCall
<1> HIDE DEF c
<1> QED BY <1>1, <1>4, <1>6

LEMMA CallAt ==
  ASSUME StoreSafe, NEW r \in Uploads,
         NEW at \in {"receive", "wrap", "write", "over"},
         Store!Goes(r, [calls[r] EXCEPT !.at = at])
  PROVE  \E c \in UploadCall :
             /\ calls' = [calls EXCEPT ![r] = c] /\ c.at = at
             /\ c.of = calls[r].of /\ c.text = calls[r].text
<1> DEFINE c == [calls[r] EXCEPT !.at = at]
<1>1. calls' = [calls EXCEPT ![r] = c]
  BY DEF Store!Goes
<1>2. calls[r] \in UploadCall
  BY UploadHere
<1>3. c \in UploadCall /\ c.at = at /\ c.of = calls[r].of /\ c.text = calls[r].text
  BY <1>2 DEF UploadCall
<1> HIDE DEF c
<1> QED BY <1>1, <1>3

\* What becomes of the directory.
LEMMA FileGoes ==
  ASSUME db \in StoreDb, NEW d \in Docs, NEW f \in Store!File,
         db' = [db EXCEPT !.files[d] = f]
  PROVE  /\ db' \in StoreDb /\ db'.key = db.key /\ db'.files[d] = f
         /\ \A q \in Docs : q # d => db'.files[q] = db.files[q]
         /\ db'.temps = db.temps
<1> DEFINE g == [db.files EXCEPT ![d] = f]
<1>1. db' = [db EXCEPT !.files = g] /\ db.files \in [Docs -> Store!File]
  BY DEF StoreDb
<1>2. /\ g \in [Docs -> Store!File] /\ g[d] = f
      /\ \A q \in Docs : q # d => g[q] = db.files[q]
  BY <1>1
<1> HIDE DEF g
<1> QED BY <1>1, <1>2 DEF StoreDb

LEMMA TempGoes ==
  ASSUME db \in StoreDb, NEW d \in Docs, NEW t \in Store!Temp,
         db' = [db EXCEPT !.temps[d] = t]
  PROVE  /\ db' \in StoreDb /\ db'.key = db.key /\ db'.temps[d] = t
         /\ \A q \in Docs : q # d => db'.temps[q] = db.temps[q]
         /\ db'.files = db.files
<1> DEFINE g == [db.temps EXCEPT ![d] = t]
<1>1. db' = [db EXCEPT !.temps = g] /\ db.temps \in [Docs -> Store!Temp]
  BY DEF StoreDb
<1>2. /\ g \in [Docs -> Store!Temp] /\ g[d] = t
      /\ \A q \in Docs : q # d => g[q] = db.temps[q]
  BY <1>1
<1> HIDE DEF g
<1> QED BY <1>1, <1>2 DEF StoreDb

\* What is left of the documents of r once they have been removed.
LEMMA Removed ==
  ASSUME StoreSafe, NEW r \in Uploads, NEW k \in SUBSET Store!Uploaded(r),
         Store!Unlinked(r, k)
  PROVE  \E kept \in SUBSET Docs :
             /\ db' \in StoreDb /\ db'.key = db.key /\ db'.temps = db.temps
             /\ history' = [history EXCEPT !.kept = kept] /\ history.kept \subseteq kept
             /\ \A d \in Docs : d[1] # r => db'.files[d] = db.files[d]
             /\ \A d \in Docs : d[1] = r => db'.files[d] = Store!Absent \/ d \in kept
<1> DEFINE g == [d \in Docs |-> IF d \in Store!Uploaded(r) \ k
                                  THEN Store!Absent ELSE db.files[d]]
<1>1. /\ db' = [db EXCEPT !.files = g]
      /\ history' = [history EXCEPT !.kept = history.kept \cup k]
  BY DEF Store!Unlinked, Store!Documents, Docs
<1>2. db \in StoreDb /\ db.files \in [Docs -> Store!File]
  BY DEF StoreSafe, StoreTyped, StoreDb
<1>3. g \in [Docs -> Store!File]
  BY <1>2, StoreForms
<1>4. /\ \A d \in Docs : d[1] # r => g[d] = db.files[d]
      /\ \A d \in Docs : d[1] = r => g[d] = Store!Absent \/ d \in k
  BY DEF Store!Uploaded, Store!Documents, Docs
<1> HIDE DEF g
<1>5. db' \in StoreDb /\ db'.key = db.key /\ db'.temps = db.temps /\ db'.files = g
  BY <1>1, <1>2, <1>3 DEF StoreDb
<1>6. history.kept \cup k \in SUBSET Docs
  <2>1. history.kept \in SUBSET Docs
    BY DEF StoreSafe, StoreTyped, StoreHistory
  <2> QED BY <2>1 DEF Store!Uploaded, Store!Documents, Docs
<1>7. PICK all \in SUBSET Docs : all = history.kept \cup k
  BY <1>6
<1> QED BY <1>1, <1>4, <1>5, <1>7

\* The upload r ends, and its documents are removed or it has died.
LEMMA UploadEnds ==
  ASSUME StoreSafe, NEW r \in Uploads, calls[r].at # "over",
         NEW how \in {"rejected", "failed", "dead"}, Store!Ends(r, how),
         failures' \in 0 .. MaxFailures,
         \/ \E kept \in SUBSET Store!Uploaded(r) : Store!Unlinked(r, kept)
         \/ how = "dead" /\ UNCHANGED <<db, history>>
  PROVE  StoreSafe'
<1>1. PICK c \in UploadCall : calls' = [calls EXCEPT ![r] = c] /\ c.at = "over"
  BY CallAt DEF Store!Ends
<1>2. calls'[r] = c /\ Rot' = Rot
  BY <1>1, CallGoes
<1>3. outside' = [outside EXCEPT ![r] = how] /\ outside'[r] = how /\ how \in Outcomes
  BY DEF Store!Ends, Outcomes, StoreSafe, StoreTyped
<1>4. PICK kept \in SUBSET Docs :
          /\ db' \in StoreDb /\ db'.key = db.key /\ db'.temps = db.temps
          /\ history' = [history EXCEPT !.kept = kept] /\ history.kept \subseteq kept
          /\ \A d \in Docs : d[1] # r => db'.files[d] = db.files[d]
          /\ \A d \in Docs : d[1] = r /\ how # "dead" =>
                 db'.files[d] = Store!Absent \/ d \in kept
  <2>1. CASE \E k \in SUBSET Store!Uploaded(r) : Store!Unlinked(r, k)
    BY <2>1, Removed
  <2>2. CASE how = "dead" /\ UNCHANGED <<db, history>>
    BY <2>2, HistoryStays DEF StoreSafe, StoreTyped
  <2> QED BY <2>1, <2>2
<1>5. ASSUME NEW d \in Docs, d[1] = r PROVE InTurn(d)' /\ InOnePiece(d)'
  <2>1. calls'[d[1]].at = "over" /\ outside'[d[1]] = how
    BY <1>1, <1>2, <1>3, <1>5
  <2>2. how # "dead" => db'.files[d] = Store!Absent \/ d \in history'.kept
    <3>1. history'.kept = kept
      BY <1>4 DEF StoreSafe, StoreTyped, StoreHistory
    <3> QED BY <1>4, <1>5, <3>1
  <2>3. Received(d)' /\ Begun(d)'
    BY <2>1 DEF Received, Begun
  <2> QED BY <2>1, <2>2, <2>3 DEF InTurn, InOnePiece
<1> QED BY <1>1, <1>3, <1>4, <1>5, UploadGoes

LEMMA StoreRemovals ==
  ASSUME StoreSafe, NEW r \in Uploads, NEW kept \in SUBSET Store!Uploaded(r),
         \/ Store!EncryptionFails(r, kept) \/ Store!UploadAborts(r, kept)
         \/ Store!ApiDies(r)
  PROVE  StoreSafe'
<1>1. failures \in 0 .. MaxFailures /\ MaxFailures \in Nat
  BY BackendAssumption DEF StoreSafe, StoreTyped
<1>2. CASE Store!EncryptionFails(r, kept)
  <2>1. /\ calls[r].at # "over" /\ Store!Ends(r, "failed")
        /\ failures' \in 0 .. MaxFailures /\ Store!Unlinked(r, kept)
    BY <1>1, <1>2 DEF Store!EncryptionFails, Store!Fail, Store!At
  <2>2. PICK how \in {"rejected", "failed", "dead"} : how = "failed"
    OBVIOUS
  <2> QED BY <2>1, <2>2, UploadEnds
<1>3. CASE Store!UploadAborts(r, kept)
  <2>1. /\ calls[r].at # "over" /\ Store!Ends(r, "rejected")
        /\ failures' \in 0 .. MaxFailures /\ Store!Unlinked(r, kept)
    BY <1>1, <1>3 DEF Store!UploadAborts, Store!Step, Store!At
  <2>2. PICK how \in {"rejected", "failed", "dead"} : how = "rejected"
    OBVIOUS
  <2> QED BY <2>1, <2>2, UploadEnds
<1>4. CASE Store!ApiDies(r)
  <2>1. /\ calls[r].at # "over" /\ Store!Ends(r, "dead")
        /\ failures' \in 0 .. MaxFailures /\ UNCHANGED <<db, history>>
    BY <1>1, <1>4 DEF Store!ApiDies, Store!Fail
  <2>2. PICK how \in {"rejected", "failed", "dead"} : how = "dead"
    OBVIOUS
  <2> QED BY <2>1, <2>2, UploadEnds
<1> QED BY <1>2, <1>3, <1>4

\* The steps after which the upload r goes on.
LEMMA UploadGoesOn ==
  ASSUME StoreSafe, NEW r \in Uploads, calls[r].at # "over", NEW c \in UploadCall,
         calls' = [calls EXCEPT ![r] = c], outside' = outside, c.at # "over",
         db' \in StoreDb, db'.key = db.key, history' = history,
         failures' \in 0 .. MaxFailures,
         \A d \in Docs : d[1] # r =>
             db'.files[d] = db.files[d] /\ db'.temps[d] = db.temps[d],
         \A d \in Docs : d[1] = r => InTurn(d)' /\ InOnePiece(d)'
  PROVE  StoreSafe'
<1>1. outside[r] \in Outcomes /\ outside' = [outside EXCEPT ![r] = outside[r]]
  BY DEF StoreSafe, StoreTyped
<1>2. PICK how \in Outcomes : outside' = [outside EXCEPT ![r] = how]
  BY <1>1
<1>3. PICK kept \in SUBSET Docs :
          history' = [history EXCEPT !.kept = kept] /\ history.kept \subseteq kept
  BY HistoryStays
<1> QED BY <1>2, <1>3, UploadGoes

\* The facts about the documents of r from which a step begins.
LEMMA InFlight ==
  ASSUME StoreSafe, NEW r \in Uploads, calls[r].at # "over", NEW d \in Docs, d[1] = r
  PROVE  /\ InTurn(d) /\ InOnePiece(d) /\ outside[d[1]] = "none"
         /\ calls[d[1]] = calls[r]
         /\ d[2] \in 1 .. MaxDocuments
         /\ d = Store!Current(r) <=> d[2] = calls[r].of
         /\ IsAt(d) <=> d[2] = calls[r].of
<1>1. d[2] \in 1 .. MaxDocuments /\ InTurn(d) /\ InOnePiece(d)
      /\ (IsAt(d) <=> d = Store!Current(r)) /\ (IsAt(d) <=> d[2] = calls[r].of)
  BY UploadHere
<1> QED BY <1>1 DEF InTurn

LEMMA StoreReceive ==
  ASSUME StoreSafe, NEW r \in Uploads, Store!Receive(r)
  PROVE  StoreSafe'
<1> DEFINE k == Store!Current(r)
           f == [form |-> Store!Plain, text |-> "part"]
<1>1. /\ calls[r].at = "none" /\ calls[r].at # "over"
      /\ Store!Goes(r, [calls[r] EXCEPT !.at = "receive"])
      /\ db' = [db EXCEPT !.files[k] = f]
      /\ UNCHANGED <<outside, history, failures>>
  BY DEF Store!Receive, Store!Step, Store!At
<1>2. PICK c \in UploadCall : /\ calls' = [calls EXCEPT ![r] = c] /\ c.at = "receive"
                              /\ c.of = calls[r].of /\ c.text = calls[r].text
  <2>1. PICK at \in {"receive", "wrap", "write", "over"} : at = "receive"
    OBVIOUS
  <2> QED BY <1>1, <2>1, CallAt
<1>3. calls'[r] = c /\ Rot' = Rot
  BY <1>2, CallGoes
<1>4. f \in Store!File /\ ~Store!Encrypted(f) /\ f # Store!Absent
  BY DEF Store!File, Store!Encrypted, Store!Absent
<1>5. k \in Docs /\ db \in StoreDb /\ k[1] = r /\ k[2] = calls[r].of
      /\ calls[r].of \in 1 .. MaxDocuments
  BY UploadHere DEF StoreSafe, StoreTyped
<1> HIDE DEF f, k
<1>6. /\ db' \in StoreDb /\ db'.key = db.key /\ db'.files[k] = f
      /\ \A q \in Docs : q # k => db'.files[q] = db.files[q]
      /\ db'.temps = db.temps
  BY <1>1, <1>4, <1>5, FileGoes
<1>7. ASSUME NEW d \in Docs, d[1] = r PROVE InTurn(d)' /\ InOnePiece(d)'
  <2>1. /\ InTurn(d) /\ InOnePiece(d) /\ outside[d[1]] = "none" /\ calls[d[1]] = calls[r]
        /\ d[2] \in 1 .. MaxDocuments
        /\ d = k <=> d[2] = calls[r].of
        /\ IsAt(d) <=> d[2] = calls[r].of
    BY <1>1, <1>7, InFlight DEF k
  <2>2. calls'[d[1]] = c /\ outside'[d[1]] = "none" /\ db'.temps[d] = db.temps[d]
    BY <1>1, <1>3, <1>6, <1>7, <2>1
  <2>3. /\ Received(d) <=> d[2] < calls[r].of
        /\ Received(d)' <=> d[2] < calls[r].of
        /\ Begun(d) <=> d[2] < calls[r].of
        /\ Begun(d)' <=> d[2] <= calls[r].of
        /\ IsAt(d)' <=> d[2] = calls[r].of
    BY <1>1, <1>2, <1>5, <2>1, <2>2 DEF Received, Begun, IsAt
  <2>4. /\ Holds("document", d)' <=> Holds("document", d)
        /\ Holds("temp", d)' <=> Holds("temp", d)
    BY <1>3 DEF Holds
  <2>5. CASE d = k
    <3>1. db'.files[d] = f /\ d[2] = calls[r].of
      BY <1>6, <2>1, <2>5
    <3> QED BY <1>1, <1>2, <1>3, <1>4, <1>5, <2>1, <2>2, <2>3, <2>4, <3>1
            DEF InTurn, InOnePiece
  <2>6. CASE d # k
    <3>1. db'.files[d] = db.files[d] /\ d[2] # calls[r].of
      BY <1>6, <2>1, <2>6
    <3>2. (Begun(d)' <=> Begun(d)) /\ (Received(d)' <=> Received(d))
      BY <1>5, <2>1, <2>3, <3>1
    <3> QED BY <1>1, <1>2, <1>3, <2>1, <2>2, <2>3, <2>4, <3>1, <3>2 DEF InTurn, InOnePiece
  <2> QED BY <2>5, <2>6
<1>8. \A d \in Docs : d[1] # r =>
          db'.files[d] = db.files[d] /\ db'.temps[d] = db.temps[d]
  BY <1>5, <1>6
<1>9. failures' \in 0 .. MaxFailures /\ c.at # "over"
  BY <1>1, <1>2 DEF StoreSafe, StoreTyped
<1> QED BY <1>1, <1>2, <1>6, <1>7, <1>8, <1>9, UploadGoesOn

LEMMA StoreReceived ==
  ASSUME StoreSafe, NEW r \in Uploads, Store!Received(r)
  PROVE  StoreSafe'
<1> DEFINE k == Store!Current(r)
           text == IF Store!Encrypted(db.files[k]) THEN db.files[k].text ELSE "whole"
           f == [db.files[k] EXCEPT !.text = text]
<1>1. /\ calls[r].at = "receive" /\ calls[r].at # "over"
      /\ Store!NextDocument(r, "none", "validate")
      /\ db' = [db EXCEPT !.files[k] = f]
      /\ UNCHANGED <<outside, history, failures>>
  BY DEF Store!Received, Store!Step, Store!At, Store!Path
<1>2. PICK c \in UploadCall :
          /\ calls' = [calls EXCEPT ![r] = c] /\ c.text = calls[r].text
          /\ calls[r].of = MaxDocuments => c.at = "validate" /\ c.of = 1
          /\ calls[r].of # MaxDocuments => c.at = "none" /\ c.of = calls[r].of + 1
  <2>1. PICK at \in {"none", "validate", "read"}, then \in {"validate", "read", "over"} :
            at = "none" /\ then = "validate"
    OBVIOUS
  <2> QED BY <1>1, <2>1, NextGoes
<1>3. calls'[r] = c /\ Rot' = Rot
  BY <1>2, CallGoes
<1>5. k \in Docs /\ db \in StoreDb /\ k[1] = r /\ k[2] = calls[r].of
      /\ calls[r].of \in 1 .. MaxDocuments /\ MaxDocuments \in Nat
      /\ db.files[k] \in Store!File
  BY UploadHere DEF StoreSafe, StoreTyped
<1>a. calls[k[1]].at = "receive" /\ IsAt(k) /\ outside[k[1]] = "none" /\ InTurn(k)
  BY <1>1, <1>5, InFlight DEF k
<1>b. Begun(k) /\ ~Received(k)
  BY <1>a, <1>5 DEF Begun, Received, IsAt
<1>c. db.files[k] # Store!Absent
  BY <1>a, <1>b DEF InTurn
<1>4. /\ f \in Store!File /\ (Store!Encrypted(f) <=> Store!Encrypted(db.files[k]))
      /\ f # Store!Absent /\ (~Store!Encrypted(f) => f.text = "whole")
  <2>1. db.files[k] \in [form : Store!Versions \cup {Store!Local, Store!Plain},
                         text : {"part", "whole"}]
    BY <1>5, <1>c DEF Store!File
  <2>2. text \in {"part", "whole"}
    BY <2>1
  <2> HIDE DEF k, text
  <2>3. f.form = db.files[k].form /\ f.text = text
    BY <2>1
  <2>4. f \in [form : Store!Versions \cup {Store!Local, Store!Plain},
               text : {"part", "whole"}]
    BY <2>1, <2>2
  <2> QED BY <2>2, <2>3, <2>4 DEF Store!File, Store!Encrypted, Store!Absent, text
<1> HIDE DEF f, k
<1>6. /\ db' \in StoreDb /\ db'.key = db.key /\ db'.files[k] = f
      /\ \A q \in Docs : q # k => db'.files[q] = db.files[q]
      /\ db'.temps = db.temps
  BY <1>1, <1>4, <1>5, FileGoes
<1>7. ASSUME NEW d \in Docs, d[1] = r PROVE InTurn(d)' /\ InOnePiece(d)'
  <2>1. /\ InTurn(d) /\ InOnePiece(d) /\ outside[d[1]] = "none" /\ calls[d[1]] = calls[r]
        /\ d[2] \in 1 .. MaxDocuments
        /\ d = k <=> d[2] = calls[r].of
        /\ IsAt(d) <=> d[2] = calls[r].of
    BY <1>1, <1>7, InFlight DEF k
  <2>2. /\ calls'[d[1]] = c /\ outside'[d[1]] = "none" /\ db'.temps[d] = db.temps[d]
        /\ c.at \in {"none", "validate"}
    BY <1>1, <1>2, <1>3, <1>6, <1>7, <2>1
  <2>3. /\ Received(d) <=> d[2] < calls[r].of
        /\ Received(d)' <=> d[2] <= calls[r].of
        /\ Begun(d) <=> d[2] <= calls[r].of
        /\ Begun(d)' <=> d[2] <= calls[r].of
    BY <1>1, <1>2, <1>5, <2>1, <2>2 DEF Received, Begun, IsAt
  <2>4. /\ Holds("document", d)' <=> Holds("document", d)
        /\ Holds("temp", d)' <=> Holds("temp", d)
    BY <1>3 DEF Holds
  <2>5. CASE d = k
    <3>1. db'.files[d] = f /\ d[2] = calls[r].of /\ Begun(d) /\ ~Received(d)
          /\ Begun(d)' /\ Received(d)'
      BY <1>5, <1>6, <2>1, <2>3, <2>5
    <3>2. InTurn(d)'
      BY <1>1, <1>3, <1>4, <2>1, <2>2, <2>4, <3>1 DEF InTurn
    <3>3. d \notin history.torn => ~Store!Encrypted(db.files[k])
      BY <2>1, <2>5, <3>1 DEF InTurn
    <3>4. InOnePiece(d)'
      BY <1>1, <1>3, <1>4, <2>1, <2>2, <2>4, <3>1, <3>3 DEF InOnePiece
    <3> QED BY <3>2, <3>4
  <2>6. CASE d # k
    <3>1. db'.files[d] = db.files[d] /\ d[2] # calls[r].of
      BY <1>6, <2>1, <2>6
    <3>2. (Begun(d)' <=> Begun(d)) /\ (Received(d)' <=> Received(d))
      BY <1>5, <2>1, <2>3, <3>1
    <3> QED BY <1>1, <1>2, <1>3, <2>1, <2>2, <2>3, <2>4, <3>1, <3>2 DEF InTurn, InOnePiece
  <2> QED BY <2>5, <2>6
<1>8. \A d \in Docs : d[1] # r =>
          db'.files[d] = db.files[d] /\ db'.temps[d] = db.temps[d]
  BY <1>5, <1>6
<1>9. failures' \in 0 .. MaxFailures /\ c.at # "over"
  BY <1>1, <1>2 DEF StoreSafe, StoreTyped
<1> QED BY <1>1, <1>2, <1>6, <1>7, <1>8, <1>9, UploadGoesOn

LEMMA StoreValidate ==
  ASSUME StoreSafe, NEW r \in Uploads, NEW supported \in BOOLEAN,
         NEW kept \in SUBSET Store!Uploaded(r), Store!Validate(r, supported, kept)
  PROVE  StoreSafe'
<1>1. /\ calls[r].at = "validate" /\ calls[r].at # "over"
      /\ UNCHANGED failures /\ failures' \in 0 .. MaxFailures
  BY DEF Store!Validate, Store!Step, Store!At, StoreSafe, StoreTyped
<1>2. CASE ~(supported /\ ~Store!Encrypted(Store!Path(r)))
  <2>1. Store!Ends(r, "rejected") /\ Store!Unlinked(r, kept)
    BY <1>2 DEF Store!Validate
  <2>2. PICK how \in {"rejected", "failed", "dead"} : how = "rejected"
    OBVIOUS
  <2> QED BY <1>1, <2>1, <2>2, UploadEnds
<1>3. CASE supported /\ ~Store!Encrypted(Store!Path(r))
  <2>1. Store!NextDocument(r, "validate", "read") /\ UNCHANGED <<db, outside, history>>
    BY <1>3 DEF Store!Validate
  <2>2. PICK c \in UploadCall :
            /\ calls' = [calls EXCEPT ![r] = c] /\ c.text = calls[r].text
            /\ calls[r].of = MaxDocuments => c.at = "read" /\ c.of = 1
            /\ calls[r].of # MaxDocuments => c.at = "validate"
    <3>1. PICK at \in {"none", "validate", "read"}, then \in {"validate", "read", "over"} :
              at = "validate" /\ then = "read"
      OBVIOUS
    <3> QED BY <2>1, <3>1, NextGoes
  <2>3. calls'[r] = c /\ Rot' = Rot
    BY <2>2, CallGoes
  <2>4. c.at \in {"validate", "read"} /\ (c.at = "read" => c.of = 1)
    BY <2>2
  <2>5. db' \in StoreDb
    BY <2>1 DEF StoreSafe, StoreTyped
  <2>6. ASSUME NEW d \in Docs, d[1] = r PROVE InTurn(d)' /\ InOnePiece(d)'
    <3>1. /\ InTurn(d) /\ InOnePiece(d) /\ outside[d[1]] = "none"
          /\ calls[d[1]] = calls[r] /\ d[2] \in 1 .. MaxDocuments
      BY <1>1, <2>6, InFlight
    <3>2. calls'[d[1]] = c
      BY <2>3, <2>6
    <3>3. Received(d) /\ Received(d)' /\ Begun(d) /\ Begun(d)'
      BY <1>1, <2>4, <3>1, <3>2 DEF Received, Begun
    <3>4. /\ Holds("document", d)' <=> Holds("document", d)
          /\ Holds("temp", d)' <=> Holds("temp", d)
      BY <2>3 DEF Holds
    <3>5. c.at = "read" => ~(d[2] < c.of)
      BY <2>4, <3>1
    <3>6. UNCHANGED <<db, outside, history>>
      BY <2>1
    <3> QED BY <1>1, <2>3, <2>4, <3>1, <3>2, <3>3, <3>4, <3>5, <3>6 DEF InTurn, InOnePiece
  <2> QED BY <1>1, <2>1, <2>2, <2>4, <2>5, <2>6, UploadGoesOn
<1> QED BY <1>2, <1>3

\* The upload r is through with its current document, which is encrypted, and goes on to
\* the next one, or is accepted with the last.
LEMMA DocumentEncrypted ==
  ASSUME StoreSafe, NEW r \in Uploads, calls[r].at \in {"read", "write"},
         \/ calls[r].of = MaxDocuments /\ Store!Ends(r, "accepted")
         \/ /\ calls[r].of # MaxDocuments /\ Store!NextDocument(r, "read", "over")
            /\ outside' = outside,
         history' = history, failures' = failures, db' \in StoreDb, db'.key = db.key,
         \A d \in Docs : d # Store!Current(r) =>
             db'.files[d] = db.files[d] /\ db'.temps[d] = db.temps[d],
         NEW f, NEW t, f = db'.files[Store!Current(r)], t = db'.temps[Store!Current(r)],
         Store!Encrypted(f), t = Store!NoTemp,
         Store!Current(r) \notin history.torn => f.text = "whole"
  PROVE  StoreSafe'
<1> DEFINE k == Store!Current(r)
<1>1. calls[r].at # "over" /\ failures' \in 0 .. MaxFailures
  BY DEF StoreSafe, StoreTyped
<1>2. k \in Docs /\ k[1] = r /\ k[2] = calls[r].of
      /\ calls[r].of \in 1 .. MaxDocuments /\ MaxDocuments \in Nat
  BY UploadHere
<1>3. PICK c \in UploadCall :
          /\ calls' = [calls EXCEPT ![r] = c]
          /\ \/ calls[r].of = MaxDocuments /\ c.at = "over"
             \/ calls[r].of # MaxDocuments /\ c.at = "read" /\ c.of = calls[r].of + 1
  <2>1. CASE calls[r].of = MaxDocuments
    <3>1. PICK at \in {"receive", "wrap", "write", "over"} : at = "over"
      OBVIOUS
    <3>2. Store!Goes(r, [calls[r] EXCEPT !.at = at])
      BY <2>1, <3>1 DEF Store!Ends
    <3> QED BY <2>1, <3>1, <3>2, CallAt
  <2>2. CASE calls[r].of # MaxDocuments
    <3>1. PICK at \in {"none", "validate", "read"}, then \in {"validate", "read", "over"} :
              at = "read" /\ then = "over"
      OBVIOUS
    <3> QED BY <2>2, <3>1, NextGoes
  <2> QED BY <2>1, <2>2
<1>4. calls'[r] = c /\ Rot' = Rot
  BY <1>3, CallGoes
<1>5. PICK how \in Outcomes :
          /\ outside' = [outside EXCEPT ![r] = how] /\ outside'[r] = how
          /\ c.at = "over" => how = "accepted" /\ calls[r].of = MaxDocuments
          /\ c.at # "over" => how = "none" /\ c.at = "read" /\ c.of = calls[r].of + 1
                              /\ calls[r].of # MaxDocuments
  <2>1. outside \in [Uploads -> Outcomes]
    BY DEF StoreSafe, StoreTyped
  <2>2. CASE calls[r].of = MaxDocuments
    <3>1. outside' = [outside EXCEPT ![r] = "accepted"] /\ c.at = "over"
          /\ "accepted" \in Outcomes
      BY <1>3, <2>2 DEF Store!Ends, Outcomes
    <3> QED BY <2>1, <2>2, <3>1
  <2>3. CASE calls[r].of # MaxDocuments
    <3>1. outside' = outside /\ outside[r] = "none"
      BY <1>1, <1>2, <2>3, InFlight
    <3>2. outside' = [outside EXCEPT ![r] = outside[r]]
      BY <2>1, <3>1
    <3> QED BY <1>3, <2>1, <2>3, <3>1, <3>2
  <2> QED BY <2>2, <2>3
<1> HIDE DEF k
<1>6. ASSUME NEW d \in Docs, d[1] = r PROVE InTurn(d)' /\ InOnePiece(d)'
  <2>1. /\ InTurn(d) /\ InOnePiece(d) /\ outside[d[1]] = "none" /\ calls[d[1]] = calls[r]
        /\ d[2] \in 1 .. MaxDocuments
        /\ d = k <=> d[2] = calls[r].of
        /\ IsAt(d) <=> d[2] = calls[r].of
    BY <1>1, <1>6, InFlight DEF k
  <2>2. calls'[d[1]] = c /\ outside'[d[1]] = how
    BY <1>4, <1>5, <1>6
  <2>3. Received(d) /\ Received(d)' /\ Begun(d) /\ Begun(d)'
    BY <1>5, <2>1, <2>2 DEF Received, Begun
  <2>4. /\ Holds("document", d)' <=> Holds("document", d)
        /\ Holds("temp", d)' <=> Holds("temp", d)
    BY <1>4 DEF Holds
  <2>5. c.at \in {"over", "read"} /\ how \in {"none", "accepted"}
        /\ (how = "none" <=> c.at # "over")
    BY <1>5
  <2>6. d[2] <= calls[r].of => Store!Encrypted(db'.files[d]) /\ db'.temps[d] = Store!NoTemp
    <3>1. CASE d = k
      BY <3>1 DEF k
    <3>2. CASE d # k
      <4>1. db'.files[d] = db.files[d] /\ db'.temps[d] = db.temps[d]
        BY <3>2 DEF k
      <4>2. d[2] <= calls[r].of => d[2] < calls[r].of
        BY <1>2, <2>1, <3>2
      <4> QED BY <2>1, <4>1, <4>2 DEF InTurn
    <3> QED BY <3>1, <3>2
  <2>7. db'.temps[d] = Store!NoTemp
    <3>1. CASE d = k
      BY <3>1 DEF k
    <3>2. CASE d # k
      BY <2>1, <3>2 DEF InTurn, k
    <3> QED BY <3>1, <3>2
  <2>8. db'.files[d] # Store!Absent
    <3>1. CASE d = k
      BY <3>1, StoreForms DEF k
    <3>2. CASE d # k
      BY <2>1, <2>3, <3>2 DEF InTurn, k
    <3> QED BY <3>1, <3>2
  <2>9. d \notin history.torn => db'.files[d].text = "whole"
    <3>1. CASE d = k
      BY <3>1 DEF k
    <3>2. CASE d # k
      BY <2>1, <2>3, <3>2 DEF InOnePiece, k
    <3> QED BY <3>1, <3>2
  <2>10. /\ c.at = "over" => d[2] <= calls[r].of
         /\ c.at = "read" /\ d[2] < c.of => d[2] <= calls[r].of
    BY <1>2, <1>5, <2>1
  <2>11. InTurn(d)'
    BY <2>1, <2>2, <2>3, <2>4, <2>5, <2>6, <2>7, <2>8, <2>10 DEF InTurn
  <2>12. InOnePiece(d)'
    BY <1>4, <2>1, <2>2, <2>3, <2>4, <2>5, <2>9 DEF InOnePiece
  <2> QED BY <2>11, <2>12
<1>7. \A d \in Docs : d[1] # r =>
          db'.files[d] = db.files[d] /\ db'.temps[d] = db.temps[d]
  BY <1>2 DEF k
<1>8. PICK kept \in SUBSET Docs :
          history' = [history EXCEPT !.kept = kept] /\ history.kept \subseteq kept
  BY HistoryStays
<1> QED BY <1>1, <1>3, <1>5, <1>6, <1>7, <1>8, UploadGoes

LEMMA StoreRead ==
  ASSUME StoreSafe, NEW r \in Uploads, Store!Read(r)
  PROVE  StoreSafe'
<1> DEFINE k == Store!Current(r)
<1>1. /\ calls[r].at = "read" /\ calls[r].at # "over"
      /\ UNCHANGED <<db, history, failures>> /\ failures' \in 0 .. MaxFailures
      /\ db' \in StoreDb
  BY DEF Store!Read, Store!Step, Store!At, StoreSafe, StoreTyped
<1>2. /\ k \in Docs /\ k[1] = r /\ k[2] = calls[r].of
      /\ calls[r] \in UploadCall /\ db.files[k] \in Store!File
  BY UploadHere
<1>3. InTurn(k) /\ InOnePiece(k) /\ outside[k[1]] = "none" /\ calls[k[1]].at = "read"
  BY <1>1, <1>2, InFlight
<1>4. Received(k) /\ Begun(k)
  BY <1>3 DEF Received, Begun
<1>5. CASE Store!Encrypted(Store!Path(r))
  <2>1. /\ db.files[k] # Store!Absent /\ db.temps[k] = Store!NoTemp
        /\ k \notin history.torn => db.files[k].text = "whole"
    BY <1>3, <1>4 DEF InTurn, InOnePiece
  <2>2. \/ calls[r].of = MaxDocuments /\ Store!Ends(r, "accepted")
        \/ /\ calls[r].of # MaxDocuments /\ Store!NextDocument(r, "read", "over")
           /\ outside' = outside
    BY <1>5 DEF Store!Read, Store!IsLast
  <2>3. Store!Encrypted(db.files[k])
    BY <1>5 DEF Store!Path
  <2>4. PICK f, t : f = db'.files[k] /\ t = db'.temps[k]
    OBVIOUS
  <2>5. f = db.files[k] /\ t = db.temps[k]
    BY <1>1, <2>4
  <2>6. \A d \in Docs : db'.files[d] = db.files[d] /\ db'.temps[d] = db.temps[d]
    BY <1>1
  <2>7. db'.key = db.key
    BY <1>1
  <2> QED BY <1>1, <2>1, <2>2, <2>3, <2>4, <2>5, <2>6, <2>7, DocumentEncrypted
<1>6. CASE ~Store!Encrypted(Store!Path(r))
  <2> DEFINE a == [calls[r] EXCEPT !.at = "wrap"]
             c == [a EXCEPT !.text = db.files[k].text]
  <2>1. calls' = [calls EXCEPT ![r] = c] /\ outside' = outside
    BY <1>6 DEF Store!Read, Store!Goes, Store!Path
  <2>2. db.files[k] # Store!Absent
    BY <1>3, <1>4 DEF InTurn
  <2>3. db.files[k].text \in {"part", "whole"}
    BY <1>2, <2>2 DEF Store!File
  <2>4. c \in UploadCall /\ c.at = "wrap" /\ c.of = calls[r].of
        /\ c.text = db.files[k].text
    <3> HIDE DEF k
    <3>1. a \in UploadCall /\ a.at = "wrap" /\ a.of = calls[r].of
      BY <1>2 DEF UploadCall
    <3> HIDE DEF a
    <3> QED BY <2>3, <3>1 DEF UploadCall
  <2> HIDE DEF c, k
  <2>5. calls'[r] = c /\ Rot' = Rot
    BY <2>1, <2>4, CallGoes
  <2>6. ASSUME NEW d \in Docs, d[1] = r PROVE InTurn(d)' /\ InOnePiece(d)'
    <3>1. /\ InTurn(d) /\ InOnePiece(d) /\ outside[d[1]] = "none"
          /\ calls[d[1]] = calls[r] /\ d[2] \in 1 .. MaxDocuments
          /\ d = k <=> d[2] = calls[r].of
      BY <1>1, <2>6, InFlight DEF k
    <3>2. calls'[d[1]] = c
      BY <2>5, <2>6
    <3>3. Received(d) /\ Received(d)' /\ Begun(d) /\ Begun(d)'
          /\ (IsAt(d)' <=> d[2] = calls[r].of)
      BY <1>1, <2>4, <3>1, <3>2 DEF Received, Begun, IsAt
    <3>4. /\ Holds("document", d)' <=> Holds("document", d)
          /\ Holds("temp", d)' <=> Holds("temp", d)
      BY <2>5 DEF Holds
    <3>5. UNCHANGED <<db, outside, history>>
      BY <1>1, <2>1
    <3>6. InTurn(d)'
      BY <1>1, <2>3, <2>4, <3>1, <3>2, <3>3, <3>4, <3>5 DEF InTurn
    <3>7. InOnePiece(d)'
      BY <1>1, <2>4, <2>5, <3>1, <3>2, <3>3, <3>4, <3>5 DEF InOnePiece
    <3> QED BY <3>6, <3>7
  <2>7. db'.key = db.key /\ c.at # "over"
        /\ \A d \in Docs : db'.files[d] = db.files[d] /\ db'.temps[d] = db.temps[d]
    BY <1>1, <2>4
  <2> QED BY <1>1, <2>1, <2>4, <2>6, <2>7, UploadGoesOn
<1> QED BY <1>5, <1>6

\* What a key of today encrypts.
LEMMA WrappedFile ==
  ASSUME db \in StoreDb, NEW vault \in BOOLEAN, NEW text \in {"part", "whole"}, NEW f,
         f = [form |-> Store!WrappedBy(vault), text |-> text]
  PROVE  /\ f \in Store!File /\ Store!Encrypted(f) /\ f.text = text /\ UnderNewKey(f)
         /\ [file |-> f, full |-> FALSE] \in Store!Temp
<1>1. db.key \in Store!Versions
  BY DEF StoreDb
<1>2. Store!WrappedBy(vault) \in {db.key, Store!Local}
  BY DEF Store!WrappedBy
<1>3. PICK form \in Store!Versions \cup {Store!Local} :
          form = Store!WrappedBy(vault) /\ form # Store!Plain
  BY <1>1, <1>2, StoreForms
<1>4. /\ f \in Store!File /\ Store!Encrypted(f) /\ f.text = text /\ UnderNewKey(f)
  BY <1>2, <1>3 DEF Store!File, Store!Encrypted, UnderNewKey
<1> QED BY <1>4 DEF Store!Temp

LEMMA StoreWrap ==
  ASSUME StoreSafe, NEW r \in Uploads, NEW vault \in BOOLEAN, Store!Wrap(r, vault)
  PROVE  StoreSafe'
<1> DEFINE k == Store!Current(r)
           f == [form |-> Store!WrappedBy(vault), text |-> calls[r].text]
           t == [file |-> f, full |-> FALSE]
<1>1. /\ calls[r].at = "wrap" /\ calls[r].at # "over"
      /\ Store!Goes(r, [calls[r] EXCEPT !.at = "write"])
      /\ db' = [db EXCEPT !.temps[k] = t]
      /\ UNCHANGED <<outside, history>>
  BY DEF Store!Wrap, Store!At, Store!WriteFile
<1>2. failures' \in 0 .. MaxFailures
  <2>1. failures \in 0 .. MaxFailures /\ MaxFailures \in Nat
    BY BackendAssumption DEF StoreSafe, StoreTyped
  <2> QED BY <2>1 DEF Store!Wrap, Store!Step, Store!Fail
<1>3. PICK c \in UploadCall : /\ calls' = [calls EXCEPT ![r] = c] /\ c.at = "write"
                              /\ c.of = calls[r].of /\ c.text = calls[r].text
  <2>1. PICK at \in {"receive", "wrap", "write", "over"} : at = "write"
    OBVIOUS
  <2> QED BY <1>1, <2>1, CallAt
<1>4. calls'[r] = c /\ Rot' = Rot
  BY <1>3, CallGoes
<1>5. k \in Docs /\ db \in StoreDb /\ k[1] = r /\ k[2] = calls[r].of
      /\ calls[r].text \in {"none", "part", "whole"}
  BY UploadHere DEF StoreSafe, StoreTyped
<1>6. /\ f \in Store!File /\ Store!Encrypted(f) /\ f.text = calls[r].text
      /\ t \in Store!Temp /\ t.file = f
  <2>1. calls[k[1]] = calls[r] /\ InTurn(k)
    BY <1>1, <1>5, InFlight
  <2>2. calls[r].text # "none"
    BY <1>1, <2>1 DEF InTurn
  <2>3. PICK text \in {"part", "whole"} : text = calls[r].text
    BY <1>5, <2>2
  <2>4. f = [form |-> Store!WrappedBy(vault), text |-> text]
    BY <2>3
  <2> HIDE DEF f
  <2> QED BY <1>5, <2>3, <2>4, WrappedFile
<1> HIDE DEF k, f, t
<1>7. /\ db' \in StoreDb /\ db'.key = db.key /\ db'.temps[k] = t
      /\ \A q \in Docs : q # k => db'.temps[q] = db.temps[q]
      /\ db'.files = db.files
  BY <1>1, <1>5, <1>6, TempGoes
<1>8. ASSUME NEW d \in Docs, d[1] = r PROVE InTurn(d)' /\ InOnePiece(d)'
  <2>1. /\ InTurn(d) /\ InOnePiece(d) /\ outside[d[1]] = "none" /\ calls[d[1]] = calls[r]
        /\ d[2] \in 1 .. MaxDocuments
        /\ d = k <=> d[2] = calls[r].of
        /\ IsAt(d) <=> d[2] = calls[r].of
    BY <1>1, <1>8, InFlight DEF k
  <2>2. calls'[d[1]] = c /\ outside'[d[1]] = "none" /\ db'.files[d] = db.files[d]
    BY <1>1, <1>4, <1>7, <1>8, <2>1
  <2>3. Received(d) /\ Received(d)' /\ Begun(d) /\ Begun(d)'
        /\ (IsAt(d)' <=> d[2] = calls[r].of)
    BY <1>1, <1>3, <2>1, <2>2 DEF Received, Begun, IsAt
  <2>4. /\ Holds("document", d)' <=> Holds("document", d)
        /\ Holds("temp", d)' <=> Holds("temp", d)
    BY <1>4 DEF Holds
  <2>5. d # k => db'.temps[d] = db.temps[d] /\ db.temps[d] = Store!NoTemp
    BY <1>1, <1>7, <2>1 DEF InTurn
  <2>6. InTurn(d)'
    BY <1>1, <1>3, <1>6, <1>7, <2>1, <2>2, <2>3, <2>4, <2>5 DEF InTurn
  <2>7. InOnePiece(d)'
    BY <1>1, <1>3, <1>4, <1>6, <1>7, <2>1, <2>2, <2>3, <2>4, <2>5 DEF InOnePiece
  <2> QED BY <2>6, <2>7
<1>9. \A d \in Docs : d[1] # r =>
          db'.files[d] = db.files[d] /\ db'.temps[d] = db.temps[d]
  BY <1>5, <1>7
<1>10. c.at # "over"
  BY <1>3
<1> QED BY <1>1, <1>2, <1>3, <1>7, <1>8, <1>9, <1>10, UploadGoesOn

\* A step that leaves the calls alone.
LEMMA StoreWritten ==
  ASSUME StoreSafe, NEW r \in Uploads, Store!Written(r)
  PROVE  StoreSafe'
<1> DEFINE k == Store!Current(r)
           t == [db.temps[k] EXCEPT !.full = TRUE]
<1>1. /\ calls[r].at = "write" /\ calls[r].at # "over"
      /\ db' = [db EXCEPT !.temps[k] = t]
      /\ UNCHANGED <<calls, outside, history, failures>> /\ failures' \in 0 .. MaxFailures
  BY DEF Store!Written, Store!Step, Store!At, StoreSafe, StoreTyped
<1>2. /\ k \in Docs /\ db \in StoreDb /\ k[1] = r /\ k[2] = calls[r].of
      /\ calls[r] \in UploadCall /\ db.temps[k] \in Store!Temp
      /\ calls \in [Uploads \cup {"rotation"} -> UploadCall \cup RotationCall]
  BY UploadHere DEF StoreSafe, StoreTyped
<1>3. t \in Store!Temp /\ t.file = db.temps[k].file
  BY <1>2 DEF Store!Temp
<1> HIDE DEF k, t
<1>4. /\ db' \in StoreDb /\ db'.key = db.key /\ db'.temps[k] = t
      /\ \A q \in Docs : q # k => db'.temps[q] = db.temps[q]
      /\ db'.files = db.files
  BY <1>1, <1>2, <1>3, TempGoes
<1>5. PICK c \in UploadCall : calls' = [calls EXCEPT ![r] = c] /\ c = calls[r]
  BY <1>1, <1>2
<1>6. ASSUME NEW d \in Docs, d[1] = r PROVE InTurn(d)' /\ InOnePiece(d)'
  <2>1. /\ InTurn(d) /\ InOnePiece(d) /\ outside[d[1]] = "none" /\ calls[d[1]] = calls[r]
        /\ d = k <=> d[2] = calls[r].of
        /\ IsAt(d) <=> d[2] = calls[r].of
    BY <1>1, <1>6, InFlight DEF k
  <2>2. /\ Holds("document", d)' <=> Holds("document", d)
        /\ Holds("temp", d)' <=> Holds("temp", d)
        /\ Received(d)' <=> Received(d)
        /\ Begun(d)' <=> Begun(d)
        /\ IsAt(d)' <=> IsAt(d)
        /\ Rot' = Rot
    BY <1>1 DEF Holds, Received, Begun, IsAt, Rot
  <2>3. /\ db'.temps[d].file = db.temps[d].file /\ db'.files[d] = db.files[d]
        /\ d # k => db'.temps[d] = db.temps[d]
    BY <1>3, <1>4
  <2> QED BY <1>1, <2>1, <2>2, <2>3 DEF InTurn, InOnePiece
<1>7. \A d \in Docs : d[1] # r =>
          db'.files[d] = db.files[d] /\ db'.temps[d] = db.temps[d]
  BY <1>2, <1>4
<1>8. c.at # "over"
  BY <1>1, <1>5
<1> QED BY <1>1, <1>4, <1>5, <1>6, <1>7, <1>8, UploadGoesOn

LEMMA StoreRename ==
  ASSUME StoreSafe, NEW r \in Uploads, Store!Rename(r)
  PROVE  StoreSafe'
<1> DEFINE k == Store!Current(r)
           f == db.temps[k].file
           a == [db EXCEPT !.files[k] = f]
<1>1. /\ calls[r].at = "write" /\ calls[r].at # "over"
      /\ db' = [a EXCEPT !.temps[k] = Store!NoTemp]
      /\ UNCHANGED <<history, failures>>
      /\ \/ calls[r].of = MaxDocuments /\ Store!Ends(r, "accepted")
         \/ /\ calls[r].of # MaxDocuments /\ Store!NextDocument(r, "read", "over")
            /\ outside' = outside
  BY DEF Store!Rename, Store!Step, Store!At, Store!IsLast
<1>2. /\ k \in Docs /\ db \in StoreDb /\ k[1] = r /\ k[2] = calls[r].of
      /\ db.temps[k] \in Store!Temp
  BY UploadHere DEF StoreSafe, StoreTyped
<1>3. /\ InTurn(k) /\ InOnePiece(k) /\ outside[k[1]] = "none" /\ calls[k[1]].at = "write"
      /\ IsAt(k)
  BY <1>1, <1>2, InFlight
<1>4. /\ f \in Store!File /\ Store!Encrypted(f)
      /\ k \notin history.torn => f.text = "whole"
  BY <1>2, <1>3, StoreForms DEF InTurn, InOnePiece
<1>5. /\ db' \in StoreDb /\ db'.key = db.key /\ db'.files[k] = f
      /\ db'.temps[k] = Store!NoTemp
      /\ \A d \in Docs : d # k => db'.files[d] = db.files[d] /\ db'.temps[d] = db.temps[d]
  <2> DEFINE g == [db.files EXCEPT ![k] = f]
             h == [db.temps EXCEPT ![k] = Store!NoTemp]
             b == [db EXCEPT !.files = g]
  <2>1. db.files \in [Docs -> Store!File] /\ db.temps \in [Docs -> Store!Temp]
    BY <1>2 DEF StoreDb
  <2>2. g \in [Docs -> Store!File] /\ h \in [Docs -> Store!Temp]
        /\ g[k] = f /\ h[k] = Store!NoTemp
        /\ \A d \in Docs : d # k => g[d] = db.files[d] /\ h[d] = db.temps[d]
    <3> HIDE DEF k, f
    <3> QED BY <1>2, <1>4, <2>1, StoreForms DEF k
  <2>3. db' = [b EXCEPT !.temps = h]
    <3>1. b.temps = db.temps
      <4> HIDE DEF g
      <4> QED BY <1>2 DEF StoreDb
    <3>2. a = b
      OBVIOUS
    <3>3. db' = [b EXCEPT !.temps = [b.temps EXCEPT ![k] = Store!NoTemp]]
      BY <1>1, <3>2
    <3> QED BY <3>1, <3>3
  <2> HIDE DEF g, h, k, f, a
  <2>4. b \in StoreDb /\ b.key = db.key /\ b.files = g
    BY <1>2, <2>2 DEF StoreDb
  <2> HIDE DEF b
  <2>5. db' \in StoreDb /\ db'.key = db.key /\ db'.files = g /\ db'.temps = h
    BY <2>2, <2>3, <2>4 DEF StoreDb
  <2> QED BY <2>2, <2>5
<1> HIDE DEF k, f, a
<1>6. PICK x, t : x = db'.files[k] /\ t = db'.temps[k]
  OBVIOUS
<1>7. x = f /\ t = Store!NoTemp
  BY <1>5, <1>6
<1> QED BY <1>1, <1>4, <1>5, <1>6, <1>7, DocumentEncrypted DEF k

(* The rotation *)

LEMMA NewKeyEncrypts ==
  ASSUME db \in StoreDb, NEW f \in Store!File, UnderNewKey(f)
  PROVE  Store!Encrypted(f) /\ f # Store!Absent
<1>1. db.key \in Store!Versions
  BY DEF StoreDb
<1>2. Store!Encrypted(f)
  BY <1>1, StoreForms DEF UnderNewKey, Store!Encrypted
<1> QED BY <1>2, StoreForms

\* A turn of the rotation leaves the uploads where they are.
LEMMA RotationTurns ==
  ASSUME StoreSafe, NEW v \in RotationCall, Store!Turns(v), outside' = outside,
         db' \in StoreDb, history' \in StoreHistory, failures' \in 0 .. MaxFailures
  PROVE  /\ StoreTyped' /\ Rot' = v /\ \A r \in Uploads : calls'[r] = calls[r]
         /\ \A d \in Docs : /\ calls'[d[1]] = calls[d[1]] /\ outside'[d[1]] = outside[d[1]]
                            /\ Received(d)' <=> Received(d)
                            /\ Begun(d)' <=> Begun(d)
                            /\ IsAt(d)' <=> IsAt(d)
<1>1. StoreTyped /\ "rotation" \notin Uploads
  BY StoreAssumption DEF StoreSafe
<1>2. /\ calls' \in [Uploads \cup {"rotation"} -> UploadCall \cup RotationCall]
      /\ \A q \in Uploads : calls'[q] = calls[q]
      /\ Rot' = v
  BY <1>1 DEF StoreTyped, Rot, Store!Turns
<1>3. StoreTyped'
  BY <1>1, <1>2 DEF StoreTyped
<1>4. ASSUME NEW d \in Docs
      PROVE  /\ calls'[d[1]] = calls[d[1]]
             /\ Received(d)' <=> Received(d)
             /\ Begun(d)' <=> Begun(d)
             /\ IsAt(d)' <=> IsAt(d)
  <2>1. calls'[d[1]] = calls[d[1]]
    BY <1>2 DEF Docs
  <2>2. (Received(d)' <=> Received(d)) /\ (IsAt(d)' <=> IsAt(d))
    BY <2>1 DEF Received, IsAt
  <2> QED BY <2>1, <2>2 DEF Begun
<1> QED BY <1>2, <1>3, <1>4

\* A turn after which it has nothing in hand.
LEMMA RotationLetsGo ==
  ASSUME StoreSafe, NEW v \in RotationCall, Store!Turns(v), outside' = outside,
         v.at \notin {"decrypt", "wrap", "write"},
         db' \in StoreDb, history' \in StoreHistory, failures' \in 0 .. MaxFailures,
         history'.torn = history.torn, history'.kept = history.kept,
         db'.files = db.files, db'.temps = db.temps, InRotation'
  PROVE  StoreSafe'
<1>1. /\ StoreTyped' /\ Rot' = v
      /\ \A d \in Docs : /\ calls'[d[1]] = calls[d[1]] /\ outside'[d[1]] = outside[d[1]]
                         /\ Received(d)' <=> Received(d)
                         /\ Begun(d)' <=> Begun(d)
                         /\ IsAt(d)' <=> IsAt(d)
  BY RotationTurns
<1>2. ASSUME NEW d \in Docs PROVE InTurn(d)' /\ InOnePiece(d)'
  <2>1. InTurn(d) /\ InOnePiece(d)
    BY DEF StoreSafe
  <2>2. ~Holds("document", d)' /\ ~Holds("temp", d)'
    BY <1>1 DEF Holds
  <2>3. InTurn(d)'
    BY <1>1, <2>1, <2>2 DEF InTurn
  <2>4. InOnePiece(d)'
    BY <1>1, <2>1, <2>2 DEF InOnePiece
  <2> QED BY <2>3, <2>4
<1> QED BY <1>1, <1>2 DEF StoreSafe

LEMMA IdleRotates ==
  /\ Store!IdleRotation \in RotationCall /\ Store!IdleRotation.at = "idle"
  /\ \A n \in Store!Versions :
         LET v == [Store!IdleRotation EXCEPT !.at = "rotated", !.key = n]
         IN  v \in RotationCall /\ v.at = "rotated" /\ v.key = n
<1>1. [kind |-> "left", full |-> TRUE] \in Store!Entries
  BY DEF Store!Entries
<1>2. 0 \in Store!Versions
  BY StoreAssumption DEF Store!Versions
<1>3. Store!IdleRotation \in RotationCall /\ Store!IdleRotation.at = "idle"
  BY <1>1, <1>2, StoreForms DEF RotationCall, Store!IdleRotation
<1>4. ASSUME NEW n \in Store!Versions
      PROVE  LET v == [Store!IdleRotation EXCEPT !.at = "rotated", !.key = n]
             IN  v \in RotationCall /\ v.at = "rotated" /\ v.key = n
  <2> DEFINE a == [Store!IdleRotation EXCEPT !.at = "rotated"]
             v == [a EXCEPT !.key = n]
  <2>1. a \in RotationCall /\ a.at = "rotated"
    BY <1>3 DEF RotationCall
  <2> HIDE DEF a
  <2>2. v \in RotationCall /\ v.at = "rotated" /\ v.key = n
    BY <2>1 DEF RotationCall
  <2> QED BY <2>2 DEF a
<1> QED BY <1>3, <1>4

LEMMA StoreRotate ==
  StoreSafe /\ Store!RotateEncryptionKey => StoreSafe'
<1> SUFFICES ASSUME StoreSafe, Store!RotateEncryptionKey PROVE StoreSafe'
  OBVIOUS
<1>1. /\ db \in StoreDb /\ db.key \in Store!Versions /\ history \in StoreHistory
      /\ failures \in 0 .. MaxFailures
  BY DEF StoreSafe, StoreTyped, StoreDb
<1>2. PICK n \in Store!Versions : n = db.key + 1
  BY <1>1, StoreAssumption DEF Store!RotateEncryptionKey, Store!Versions
<1>3. PICK v \in RotationCall : v.at = "rotated" /\ v.key = n /\ Store!Turns(v)
  <2> DEFINE v == [Store!IdleRotation EXCEPT !.at = "rotated", !.key = n]
  <2>1. Store!Turns(v)
    BY <1>2 DEF Store!RotateEncryptionKey
  <2>2. v \in RotationCall /\ v.at = "rotated" /\ v.key = n
    BY IdleRotates
  <2> HIDE DEF v
  <2> QED BY <2>1, <2>2
<1>4. db' = [db EXCEPT !.key = n] /\ UNCHANGED <<outside, history, failures>>
  BY <1>2 DEF Store!RotateEncryptionKey, Store!Step
<1>5. db' \in StoreDb /\ db'.key = n /\ db'.files = db.files /\ db'.temps = db.temps
  BY <1>1, <1>4 DEF StoreDb
<1>6. history' \in StoreHistory /\ failures' \in 0 .. MaxFailures
  BY <1>1, <1>4
<1>7. Rot' = v
  BY <1>3, <1>4, <1>5, <1>6, RotationTurns
<1>8. InRotation'
  BY <1>3, <1>5, <1>7 DEF InRotation
<1> QED BY <1>3, <1>4, <1>5, <1>6, <1>8, RotationLetsGo

LEMMA StoreReencrypt ==
  StoreSafe /\ Store!Reencrypt => StoreSafe'
<1> SUFFICES ASSUME StoreSafe, Store!Reencrypt PROVE StoreSafe'
  OBVIOUS
<1> DEFINE todo == Store!ListDocumentFiles
           due == {d \in Store!Stored : outside[d[1]] # "none"}
           a == [Rot EXCEPT !.at = "next"]
           v == [a EXCEPT !.todo = todo]
<1>1. /\ db \in StoreDb /\ history \in StoreHistory /\ Rot \in RotationCall
      /\ failures \in 0 .. MaxFailures /\ db.left \in SUBSET BOOLEAN
      /\ Store!Documents = Docs /\ InRotation
  BY StoreHere DEF StoreSafe, StoreTyped
<1>2. /\ Rot.at = "rotated" /\ Store!Turns(v)
      /\ history' = [history EXCEPT !.due = due]
      /\ UNCHANGED <<db, outside, failures>>
  BY DEF Store!Reencrypt, Store!Step, Rot, Store!Rotation
<1>3. todo \in SUBSET Store!Entries
  <2>1. [kind : {"document"}, of : Store!Stored] \subseteq Store!Entries
    BY DEF Store!Entries, Store!Stored
  <2>2. [kind : {"temp"}, of : {d \in Store!Documents : db.temps[d] # Store!NoTemp}]
            \subseteq Store!Entries
    BY DEF Store!Entries
  <2>3. [kind : {"left"}, full : db.left] \subseteq Store!Entries
    BY <1>1 DEF Store!Entries
  <2> QED BY <2>1, <2>2, <2>3 DEF Store!ListDocumentFiles
<1>4. \A d \in due : Entry(d) \in todo
  BY DEF Store!ListDocumentFiles, Entry
<1>5. due \in SUBSET Docs
  BY <1>1 DEF Store!Stored
<1> HIDE DEF todo, due
<1>6. /\ history' \in StoreHistory /\ history'.due = due
      /\ history'.torn = history.torn /\ history'.kept = history.kept
  BY <1>1, <1>2, <1>5 DEF StoreHistory
<1>7. v \in RotationCall /\ v.at = "next" /\ v.todo = todo /\ v.key = Rot.key
  <2>1. a \in RotationCall /\ a.at = "next" /\ a.key = Rot.key
    BY <1>1 DEF RotationCall
  <2> HIDE DEF a
  <2> QED BY <1>3, <2>1 DEF RotationCall
<1> HIDE DEF v
<1>8. failures' \in 0 .. MaxFailures /\ db' \in StoreDb
      /\ db'.files = db.files /\ db'.temps = db.temps
  BY <1>1, <1>2
<1>9. Rot' = v /\ \A d \in Docs : outside'[d[1]] = outside[d[1]]
  BY <1>2, <1>6, <1>7, <1>8, RotationTurns
<1>10. InRotation'
  <2>1. \A d \in due : outside'[d[1]] # "none"
    BY <1>2 DEF due
  <2>2. v.key = db'.key
    BY <1>1, <1>2, <1>7 DEF InRotation
  <2> QED BY <1>4, <1>6, <1>7, <1>9, <2>1, <2>2 DEF InRotation
<1> QED BY <1>2, <1>6, <1>7, <1>8, <1>10, RotationLetsGo

LEMMA StoreStops ==
  ASSUME StoreSafe,
         \/ Store!Finish \/ Store!RotationFails
         \/ \E e \in Store!Entries : Store!Unreadable(e)
  PROVE  StoreSafe'
<1>1. /\ db \in StoreDb /\ history \in StoreHistory /\ Rot \in RotationCall
      /\ failures \in 0 .. MaxFailures /\ db.left \in SUBSET BOOLEAN
      /\ Rot.temp \in Store!Temp /\ InRotation /\ MaxFailures \in Nat
  BY StoreHere, BackendAssumption DEF StoreSafe, StoreTyped
<1>2. CASE Store!Finish
  <2> DEFINE v == [Rot EXCEPT !.at = "done"]
  <2>1. /\ Rot.at = "next" /\ Rot.todo = {} /\ Store!Turns(v)
        /\ UNCHANGED <<db, outside, history, failures>>
    BY <1>2 DEF Store!Finish, Store!Step, Rot, Store!Rotation
  <2>2. v \in RotationCall /\ v.at = "done" /\ v.todo = {} /\ v.key = Rot.key
    BY <1>1, <2>1 DEF RotationCall
  <2> HIDE DEF v
  <2>3. /\ db' \in StoreDb /\ history' \in StoreHistory /\ failures' \in 0 .. MaxFailures
        /\ history'.torn = history.torn /\ history'.kept = history.kept
        /\ db'.files = db.files /\ db'.temps = db.temps
    BY <1>1, <2>1
  <2>4. Rot' = v
    BY <2>1, <2>2, <2>3, RotationTurns
  <2>5. InRotation'
    BY <1>1, <2>1, <2>2, <2>4 DEF InRotation, Holds, UnderNewKey
  <2> QED BY <2>1, <2>2, <2>3, <2>5, RotationLetsGo
<1>3. CASE ~Store!Finish
  <2>1. PICK v \in RotationCall : v = Store!IdleRotation /\ v.at = "idle"
    BY IdleRotates
  <2>2. /\ Store!Turns(v) /\ UNCHANGED <<outside, history>>
        /\ failures' \in 0 .. MaxFailures
        /\ db' = db \/ db' = [db EXCEPT !.left = Store!LeftBehind]
    BY <1>1, <1>3, <2>1 DEF Store!RotationFails, Store!Unreadable, Store!Stops, Store!Step,
       Store!Fail
  <2>3. Store!LeftBehind \in SUBSET BOOLEAN
    BY <1>1, StoreForms DEF Store!LeftBehind, Store!Rotation, Rot
  <2>4. /\ db' \in StoreDb /\ db'.files = db.files /\ db'.temps = db.temps
    BY <1>1, <2>2, <2>3 DEF StoreDb
  <2>5. /\ history' \in StoreHistory
        /\ history'.torn = history.torn /\ history'.kept = history.kept
    BY <1>1, <2>2
  <2>6. Rot' = v
    BY <2>1, <2>2, <2>4, <2>5, RotationTurns
  <2>7. InRotation'
    BY <2>1, <2>6 DEF InRotation
  <2> QED BY <2>1, <2>2, <2>4, <2>5, <2>7, RotationLetsGo
<1> QED BY <1>2, <1>3

InHand == {"decrypt", "wrap", "write"}

\* A turn after which the rotation has something in hand, and that writes nothing.
LEMMA RotationReads ==
  ASSUME StoreSafe, NEW v \in RotationCall, Store!Turns(v), UNCHANGED <<db, outside>>,
         history' \in StoreHistory, history.torn \subseteq history'.torn,
         history'.kept = history.kept,
         failures' \in 0 .. MaxFailures, InRotation',
         \A d \in Docs :
             v.at \in InHand /\ v.now.kind = "document" /\ v.now.of = d =>
                 Begun(d) /\ (Received(d) \/ d \in history'.torn),
         \A d \in Docs :
             /\ d \notin history'.torn /\ outside[d[1]] \in {"none", "accepted"}
             /\ v.at \in InHand /\ v.now.kind \in {"document", "temp"} /\ v.now.of = d
             => v.file.text = "whole" /\ (v.at = "write" => v.temp.file.text = "whole")
  PROVE  StoreSafe'
<1>1. db' \in StoreDb
  BY DEF StoreSafe, StoreTyped
<1>2. /\ StoreTyped' /\ Rot' = v
      /\ \A d \in Docs : /\ calls'[d[1]] = calls[d[1]] /\ outside'[d[1]] = outside[d[1]]
                         /\ Received(d)' <=> Received(d)
                         /\ Begun(d)' <=> Begun(d)
                         /\ IsAt(d)' <=> IsAt(d)
  BY <1>1, RotationTurns
<1>3. ASSUME NEW d \in Docs PROVE InTurn(d)' /\ InOnePiece(d)'
  <2>1. InTurn(d) /\ InOnePiece(d)
    BY DEF StoreSafe
  <2>2. Holds("document", d)' => Begun(d) /\ (Received(d) \/ d \in history'.torn)
    BY <1>2 DEF Holds, InHand
  <2>3. /\ d \notin history'.torn /\ outside[d[1]] \in {"none", "accepted"}
        /\ Holds("document", d)' \/ Holds("temp", d)'
        => Rot'.file.text = "whole" /\ (Rot'.at = "write" => Rot'.temp.file.text = "whole")
    BY <1>2 DEF Holds, InHand
  <2>4. InTurn(d)'
    BY <1>2, <2>1, <2>2 DEF InTurn
  <2>5. InOnePiece(d)'
    BY <1>2, <2>1, <2>3 DEF InOnePiece
  <2> QED BY <2>4, <2>5
<1> QED BY <1>2, <1>3 DEF StoreSafe

\* The turns between reading a document and having it written again.
LEMMA RotationGoesOn ==
  ASSUME StoreSafe, NEW v \in RotationCall, Store!Turns(v),
         UNCHANGED <<db, outside, history>>, failures' \in 0 .. MaxFailures,
         Rot.at \in InHand, v.at \in InHand,
         v.todo = Rot.todo, v.now = Rot.now, v.file = Rot.file, v.key = Rot.key,
         v.at = "write" => UnderNewKey(v.temp.file),
         v.at = "write" => \/ v.temp.file.text = Rot.file.text
                           \/ Rot.at = "write" /\ v.temp.file.text = Rot.temp.file.text
  PROVE  StoreSafe'
<1>1. /\ db' \in StoreDb /\ history' \in StoreHistory /\ history.torn \subseteq history'.torn
      /\ InRotation
  BY DEF StoreSafe, StoreTyped
<1>2. Rot' = v
  BY <1>1, RotationTurns
<1>3. ASSUME NEW d \in Docs PROVE InTurn(d) /\ InOnePiece(d)
  BY DEF StoreSafe
<1>4. \A d \in Docs : Holds("document", d) =>
          Begun(d) /\ (Received(d) \/ d \in history'.torn)
  BY <1>3 DEF InTurn
<1>5. \A d \in Docs :
          /\ d \notin history'.torn /\ outside[d[1]] \in {"none", "accepted"}
          /\ Holds("document", d) \/ Holds("temp", d)
          => v.file.text = "whole" /\ (v.at = "write" => v.temp.file.text = "whole")
  BY <1>3 DEF InOnePiece
<1>6. InRotation'
  <2>1. \A d \in Docs : Holds("document", d) => Holds("document", d)'
    BY <1>2 DEF Holds, InHand
  <2>2. history.due \subseteq Docs
    BY StoreHere DEF StoreSafe
  <2>3. \A d \in history.due :
            /\ outside[d[1]] # "none"
            /\ Entry(d) \in Rot.todo \/ Holds("document", d)' \/ UnderNewKey(db.files[d])
    BY <1>1, <2>1, <2>2 DEF InRotation, InHand
  <2>4. v.at \in {"decrypt", "wrap", "write"} /\ Rot.file # Store!Absent /\ Rot.key = db.key
    BY <1>1 DEF InRotation, InHand
  <2> QED BY <1>2, <2>3, <2>4 DEF InRotation, UnderNewKey
<1>7. \A d \in Docs :
          v.at \in InHand /\ v.now.kind = "document" /\ v.now.of = d =>
              Begun(d) /\ (Received(d) \/ d \in history'.torn)
  BY <1>4 DEF Holds, InHand
<1>8. \A d \in Docs :
          /\ d \notin history'.torn /\ outside[d[1]] \in {"none", "accepted"}
          /\ v.at \in InHand /\ v.now.kind \in {"document", "temp"} /\ v.now.of = d
          => v.file.text = "whole" /\ (v.at = "write" => v.temp.file.text = "whole")
  BY <1>5 DEF Holds, InHand
<1> QED BY <1>1, <1>6, <1>7, <1>8, RotationReads

LEMMA StoreDecrypts ==
  ASSUME StoreSafe, Store!Decrypt PROVE StoreSafe'
<1> DEFINE v == [Rot EXCEPT !.at = "wrap"]
<1>1. /\ Rot.at = "decrypt" /\ Store!Turns(v) /\ UNCHANGED <<db, outside, history>>
      /\ failures' \in 0 .. MaxFailures /\ Rot \in RotationCall
  BY DEF Store!Decrypt, Store!Step, Rot, Store!Rotation, StoreSafe, StoreTyped
<1>2. /\ v \in RotationCall /\ v.at = "wrap" /\ v.todo = Rot.todo /\ v.now = Rot.now
      /\ v.file = Rot.file /\ v.key = Rot.key
  BY <1>1 DEF RotationCall
<1> HIDE DEF v
<1>3. Rot.at \in InHand /\ v.at \in InHand /\ v.at # "write"
  BY <1>1, <1>2 DEF InHand
<1> QED BY <1>1, <1>2, <1>3, RotationGoesOn

LEMMA StoreWrapsAgain ==
  ASSUME StoreSafe, NEW vault \in BOOLEAN, Store!WrapAgain(vault) PROVE StoreSafe'
<1> DEFINE f == [form |-> Store!WrappedBy(vault), text |-> Rot.file.text]
           t == [file |-> f, full |-> FALSE]
           a == [Rot EXCEPT !.at = "write"]
           v == [a EXCEPT !.temp = t]
<1>1. /\ Rot.at = "wrap" /\ Store!Turns(v) /\ UNCHANGED <<db, outside, history>>
  BY DEF Store!WrapAgain, Rot, Store!Rotation
<1>2. failures' \in 0 .. MaxFailures
  BY BackendAssumption DEF Store!WrapAgain, Store!Step, Store!Fail, StoreSafe, StoreTyped
<1>3. Rot \in RotationCall /\ Rot.file \in Store!File /\ db \in StoreDb
  BY StoreHere DEF StoreSafe, StoreTyped
<1>4. Rot.file # Store!Absent
  BY <1>1 DEF StoreSafe, InRotation
<1>5. Rot.file.text \in {"part", "whole"}
  BY <1>3, <1>4 DEF Store!File
<1>6. PICK text \in {"part", "whole"} : text = Rot.file.text
  BY <1>5
<1>7. f \in Store!File /\ f.text = Rot.file.text /\ UnderNewKey(f) /\ t \in Store!Temp
  BY <1>3, <1>6, WrappedFile
<1>8. t.file = f
  OBVIOUS
<1> HIDE DEF f, t
<1>9. /\ a \in RotationCall /\ a.at = "write" /\ a.todo = Rot.todo /\ a.now = Rot.now
      /\ a.file = Rot.file /\ a.key = Rot.key
  BY <1>3 DEF RotationCall
<1> HIDE DEF a
<1>10. /\ v \in RotationCall /\ v.at = "write" /\ v.todo = Rot.todo /\ v.now = Rot.now
       /\ v.file = Rot.file /\ v.key = Rot.key /\ v.temp = t
  BY <1>7, <1>9 DEF RotationCall
<1> HIDE DEF v
<1>11. Rot.at \in InHand /\ v.at \in InHand
  BY <1>1, <1>10 DEF InHand
<1>12. UnderNewKey(v.temp.file) /\ v.temp.file.text = Rot.file.text
  BY <1>7, <1>8, <1>10
<1> QED BY <1>1, <1>2, <1>10, <1>11, <1>12, RotationGoesOn

LEMMA StoreWrittenAgain ==
  ASSUME StoreSafe, Store!WrittenAgain PROVE StoreSafe'
<1> DEFINE t == [Rot.temp EXCEPT !.full = TRUE]
           v == [Rot EXCEPT !.temp = t]
<1>1. /\ Rot.at = "write" /\ Store!Turns(v) /\ UNCHANGED <<db, outside, history>>
      /\ failures' \in 0 .. MaxFailures /\ Rot \in RotationCall /\ Rot.temp \in Store!Temp
  BY StoreHere DEF Store!WrittenAgain, Store!Step, Rot, Store!Rotation, StoreSafe, StoreTyped
<1>2. t \in Store!Temp /\ t.file = Rot.temp.file
  BY <1>1 DEF Store!Temp
<1> HIDE DEF t
<1>3. /\ v \in RotationCall /\ v.at = "write" /\ v.todo = Rot.todo /\ v.now = Rot.now
      /\ v.file = Rot.file /\ v.key = Rot.key /\ v.temp = t
  BY <1>1, <1>2 DEF RotationCall
<1> HIDE DEF v
<1>4. Rot.at \in InHand /\ v.at \in InHand
  BY <1>1, <1>3 DEF InHand
<1>5. v.temp.file = Rot.temp.file /\ UnderNewKey(v.temp.file)
  BY <1>1, <1>2, <1>3 DEF StoreSafe, InRotation
<1> QED BY <1>1, <1>3, <1>4, <1>5, RotationGoesOn

\* What the rotation finds at an entry of its list.
LEMMA StoredFile ==
  ASSUME StoreSafe, NEW e \in Store!Entries, Store!Found(e).file # Store!Absent,
         NEW file, file = IF Store!Found(e).full THEN Store!Found(e).file
                          ELSE [form |-> Store!Plain, text |-> "part"]
  PROVE  /\ file \in Store!File /\ file # Store!Absent
         /\ \A d \in Docs : e.kind = "document" /\ e.of = d =>
                file = db.files[d] /\ db.files[d] # Store!Absent
         /\ \A d \in Docs : e.kind = "temp" /\ e.of = d =>
                /\ db.temps[d] # Store!NoTemp
                /\ db.temps[d].full => file = db.temps[d].file
<1> DEFINE part == [form |-> Store!Plain, text |-> "part"]
<1>1. part \in Store!File /\ part # Store!Absent
  BY DEF Store!File, Store!Absent
<1>2. \A d \in Docs : db.files[d] \in Store!File /\ db.temps[d] \in Store!Temp
  BY StoreHere DEF StoreSafe
<1>3. e.kind \in {"document", "temp"} => e.of \in Docs
  BY StoreHere DEF StoreSafe, Store!Entries
<1> HIDE DEF part
<1>4. CASE e.kind = "document"
  <2>1. Store!Found(e) = [file |-> db.files[e.of], full |-> TRUE]
    BY <1>4 DEF Store!Found
  <2>2. file = db.files[e.of] /\ db.files[e.of] # Store!Absent
    BY <2>1
  <2> QED BY <1>2, <1>3, <1>4, <2>2
<1>5. CASE e.kind = "temp"
  <2>1. Store!Found(e) = db.temps[e.of]
    BY <1>5 DEF Store!Found
  <2>2. e.of \in Docs /\ db.temps[e.of] \in Store!Temp
    BY <1>2, <1>3, <1>5
  <2>3. db.temps[e.of].file # Store!Absent /\ db.temps[e.of].file \in Store!File
    BY <2>1, <2>2, StoreForms
  <2>4. db.temps[e.of] # Store!NoTemp
    BY <2>3, StoreForms
  <2>5. file = IF db.temps[e.of].full THEN db.temps[e.of].file ELSE part
    BY <2>1 DEF part
  <2> QED BY <1>1, <1>5, <2>3, <2>4, <2>5
<1>6. CASE e.kind \notin {"document", "temp"}
  <2> DEFINE cut == [form |-> db.key, text |-> "part"]
  <2>1. Store!Found(e) = [file |-> cut, full |-> e.full]
    BY <1>6 DEF Store!Found
  <2>2. db.key \in Store!Versions
    BY StoreHere DEF StoreSafe
  <2>3. cut \in Store!File /\ cut # Store!Absent
    BY <2>2, StoreForms DEF Store!File, Store!Absent
  <2> HIDE DEF cut
  <2>4. file = cut \/ file = part
    BY <2>1 DEF part
  <2> QED BY <1>1, <1>6, <2>3, <2>4
<1> QED BY <1>4, <1>5, <1>6

LEMMA StoreReads ==
  ASSUME StoreSafe, NEW e \in Store!Entries, Store!ReadStored(e)
  PROVE  StoreSafe'
<1> DEFINE file == IF Store!Found(e).full THEN Store!Found(e).file
                   ELSE [form |-> Store!Plain, text |-> "part"]
           unfinished == \/ e.kind = "document" /\ e.of \in Store!Receiving
                         \/ e.kind = "temp" /\ ~Store!Found(e).full
           at == IF Store!Encrypted(file) /\ file.form # Store!Local THEN "decrypt"
                 ELSE "wrap"
           a == [Rot EXCEPT !.at = at]
           b == [a EXCEPT !.now = e]
           c == [b EXCEPT !.todo = Rot.todo \ {e}]
           v == [c EXCEPT !.file = file]
<1>1. /\ Rot.at = "next" /\ e \in Rot.todo /\ Store!Found(e).file # Store!Absent
      /\ history' = IF unfinished THEN [history EXCEPT !.torn = history.torn \cup {e.of}]
                    ELSE history
      /\ UNCHANGED <<db, outside, failures>>
  BY DEF Store!ReadStored, Store!Step, Rot, Store!Rotation
<1>2. Store!Turns([Rot EXCEPT !.at = at, !.now = e, !.todo = Rot.todo \ {e},
                              !.file = file])
  BY DEF Store!ReadStored, Rot, Store!Rotation
<1>3. /\ Rot \in RotationCall /\ Rot.todo \in SUBSET Store!Entries
      /\ db \in StoreDb /\ failures \in 0 .. MaxFailures /\ history \in StoreHistory
      /\ history.torn \in SUBSET Docs /\ history.due \in SUBSET Docs /\ InRotation
      /\ Store!Documents = Docs
  BY StoreHere DEF StoreSafe, StoreTyped
<1>4. /\ file \in Store!File /\ file # Store!Absent
      /\ \A d \in Docs : e.kind = "document" /\ e.of = d =>
             file = db.files[d] /\ db.files[d] # Store!Absent
      /\ \A d \in Docs : e.kind = "temp" /\ e.of = d =>
             /\ db.temps[d] # Store!NoTemp
             /\ db.temps[d].full => file = db.temps[d].file
  BY <1>1, StoredFile
<1>5. /\ \A d \in Docs : e.kind = "temp" /\ e.of = d /\ ~db.temps[d].full => unfinished
      /\ \A d \in Docs : /\ e.kind = "document" /\ e.of = d
                         /\ calls[d[1]].at = "receive" /\ IsAt(d)
                         => unfinished
      /\ unfinished => e.of \in Docs
  <2>1. \A d \in Docs : calls[d[1]].at = "receive" /\ IsAt(d) => d \in Store!Receiving
    <3> SUFFICES ASSUME NEW d \in Docs, calls[d[1]].at = "receive", IsAt(d)
                 PROVE  d \in Store!Receiving
      OBVIOUS
    <3>1. d[1] \in Uploads /\ Store!Current(d[1]) = d
      BY UploadHere DEF Docs
    <3> QED BY <3>1 DEF Store!Receiving, Store!At
  <2>2. e.kind = "temp" => Store!Found(e) = db.temps[e.of]
    BY DEF Store!Found
  <2>3. e.kind \in {"document", "temp"} => e.of \in Docs
    BY <1>3 DEF Store!Entries
  <2> QED BY <2>1, <2>2, <2>3
<1>6. at \in {"decrypt", "wrap"}
  OBVIOUS
<1>7. Store!Turns(v)
  BY <1>2
<1> HIDE DEF file, unfinished, at
<1>8. a \in RotationCall /\ a.at = at /\ a.key = Rot.key
  BY <1>3, <1>6 DEF RotationCall
<1> HIDE DEF a
<1>9. b \in RotationCall /\ b.at = at /\ b.key = Rot.key /\ b.now = e
  BY <1>8 DEF RotationCall
<1> HIDE DEF b
<1>10. /\ c \in RotationCall /\ c.at = at /\ c.key = Rot.key /\ c.now = e
       /\ c.todo = Rot.todo \ {e}
  BY <1>3, <1>9 DEF RotationCall
<1> HIDE DEF c
<1>11. /\ v \in RotationCall /\ v.at = at /\ v.key = Rot.key /\ v.now = e
       /\ v.todo = Rot.todo \ {e} /\ v.file = file
  BY <1>4, <1>10 DEF RotationCall
<1> HIDE DEF v
<1>12. /\ history' \in StoreHistory /\ history.torn \subseteq history'.torn
       /\ history'.due = history.due /\ history'.kept = history.kept
       /\ unfinished => e.of \in history'.torn
  <2>1. CASE unfinished
    <3>1. history.torn \cup {e.of} \in SUBSET Docs
      BY <1>3, <1>5, <2>1
    <3> QED BY <1>1, <1>3, <2>1, <3>1 DEF StoreHistory
  <2>2. CASE ~unfinished
    BY <1>1, <1>3, <2>2
  <2> QED BY <2>1, <2>2
<1>13. failures' \in 0 .. MaxFailures /\ db' \in StoreDb
  BY <1>1, <1>3
<1>14. Rot' = v
  BY <1>1, <1>7, <1>11, <1>12, <1>13, RotationTurns
<1>15. InRotation'
  <2>1. \A d \in history.due : Entry(d) = e => v.now.kind = "document" /\ v.now.of = d
    BY <1>11 DEF Entry
  <2>2. \A d \in history.due :
            /\ outside[d[1]] # "none"
            /\ Entry(d) \in Rot.todo \/ UnderNewKey(db.files[d])
    BY <1>1, <1>3 DEF InRotation, Holds
  <2>3. \A d \in history'.due :
            /\ outside'[d[1]] # "none"
            /\ Entry(d) \in v.todo \/ Holds("document", d)' \/ UnderNewKey(db.files[d])'
    BY <1>1, <1>6, <1>11, <1>12, <1>14, <2>1, <2>2 DEF Holds, UnderNewKey
  <2>4. Rot.key = db.key
    BY <1>1, <1>3 DEF InRotation
  <2> QED BY <1>1, <1>4, <1>6, <1>11, <1>14, <2>3, <2>4 DEF InRotation
<1>16. ASSUME NEW d \in Docs, v.now.kind = "document", v.now.of = d
       PROVE  /\ Begun(d) /\ (Received(d) \/ d \in history'.torn)
              /\ Received(d) => v.file = db.files[d]
  <2>1. InTurn(d) /\ e.kind = "document" /\ e.of = d
    BY <1>11, <1>16 DEF StoreSafe
  <2>2. Begun(d) /\ file = db.files[d]
    BY <1>4, <2>1 DEF InTurn
  <2>3. ASSUME ~Received(d) PROVE d \in history'.torn
    <3>1. calls[d[1]].at = "receive" /\ IsAt(d)
      BY <2>2, <2>3 DEF Begun
    <3>2. unfinished
      BY <1>5, <2>1, <3>1
    <3> QED BY <1>12, <2>1, <3>2
  <2> QED BY <1>11, <2>2, <2>3
<1>17. ASSUME NEW d \in Docs, d \notin history'.torn,
              outside[d[1]] \in {"none", "accepted"},
              v.now.kind \in {"document", "temp"}, v.now.of = d
       PROVE  v.file.text = "whole"
  <2>1. InTurn(d) /\ InOnePiece(d) /\ d \notin history.torn
    BY <1>12, <1>17 DEF StoreSafe
  <2>2. CASE v.now.kind = "document"
    BY <1>16, <1>17, <2>1, <2>2 DEF InOnePiece
  <2>3. CASE v.now.kind = "temp"
    <3>1. e.kind = "temp" /\ e.of = d
      BY <1>11, <1>17, <2>3
    <3>2. db.temps[d].full /\ db.temps[d] # Store!NoTemp
      <4>1. ~unfinished
        BY <1>12, <1>17, <3>1
      <4> QED BY <1>4, <1>5, <3>1, <4>1
    <3>3. calls[d[1]].at = "write" /\ IsAt(d)
      BY <1>17, <2>1, <3>2 DEF InTurn
    <3>4. db.temps[d].file.text = "whole"
      BY <1>17, <2>1, <3>3 DEF InOnePiece
    <3> QED BY <1>4, <1>11, <3>1, <3>2, <3>4
  <2> QED BY <1>17, <2>2, <2>3
<1>18. v.at # "write"
  BY <1>6, <1>11
<1>19. UNCHANGED <<db, outside>>
  BY <1>1
<1>20. \A d \in Docs :
          v.at \in InHand /\ v.now.kind = "document" /\ v.now.of = d =>
              Begun(d) /\ (Received(d) \/ d \in history'.torn)
  BY <1>16
<1>21. \A d \in Docs :
          /\ d \notin history'.torn /\ outside[d[1]] \in {"none", "accepted"}
          /\ v.at \in InHand /\ v.now.kind \in {"document", "temp"} /\ v.now.of = d
          => v.file.text = "whole" /\ (v.at = "write" => v.temp.file.text = "whole")
  BY <1>17, <1>18
<1> QED BY <1>7, <1>11, <1>12, <1>13, <1>15, <1>19, <1>20, <1>21, RotationReads

LEMMA StoreRenamesAgain ==
  ASSUME StoreSafe, Store!RenameAgain PROVE StoreSafe'
<1> DEFINE e == Rot.now
           f == Rot.temp.file
           a == [Rot EXCEPT !.at = "next"]
           v == [a EXCEPT !.temp = Store!NoTemp]
<1>1. /\ Rot.at = "write" /\ Store!Turns(v) /\ UNCHANGED <<outside, history, failures>>
      /\ \/ e.kind = "document" /\ db' = [db EXCEPT !.files[e.of] = f]
         \/ e.kind = "temp" /\ db.temps[e.of] # Store!NoTemp
            /\ db' = [db EXCEPT !.temps[e.of] = Rot.temp]
         \/ /\ e.kind = "left" \/ e.kind = "temp"
            /\ db' = [db EXCEPT !.left = db.left \cup {TRUE}]
  BY DEF Store!RenameAgain, Store!Step, Rot, Store!Rotation
<1>2. /\ Rot \in RotationCall /\ db \in StoreDb /\ history \in StoreHistory
      /\ failures \in 0 .. MaxFailures /\ Rot.temp \in Store!Temp /\ e \in Store!Entries
      /\ history.due \in SUBSET Docs /\ InRotation /\ Store!Documents = Docs
  BY StoreHere DEF StoreSafe, StoreTyped
<1>3. e.kind \in {"document", "temp"} => e.of \in Docs
  BY <1>2 DEF Store!Entries
<1>4. f \in Store!File /\ UnderNewKey(f) /\ Store!Encrypted(f) /\ f # Store!Absent
  BY <1>1, <1>2, StoreForms, NewKeyEncrypts DEF InRotation
<1>5. v \in RotationCall /\ v.at = "next" /\ v.todo = Rot.todo /\ v.key = Rot.key
  <2>1. a \in RotationCall /\ a.at = "next" /\ a.todo = Rot.todo /\ a.key = Rot.key
    BY <1>2 DEF RotationCall
  <2> HIDE DEF a
  <2> QED BY <2>1, StoreForms DEF RotationCall
<1> HIDE DEF f, v
<1>6. /\ db' \in StoreDb /\ db'.key = db.key
      /\ \A d \in Docs :
             \/ db'.files[d] = db.files[d]
             \/ e.kind = "document" /\ e.of = d /\ db'.files[d] = f
      /\ \A d \in Docs :
             \/ db'.temps[d] = db.temps[d]
             \/ /\ e.kind = "temp" /\ e.of = d /\ db.temps[d] # Store!NoTemp
                /\ db'.temps[d].file = f
      /\ \A d \in Docs : e.kind = "document" /\ e.of = d => db'.files[d] = f
  <2>1. CASE e.kind = "document" /\ db' = [db EXCEPT !.files[e.of] = f]
    <3>1. PICK d \in Docs : d = e.of
      BY <1>3, <2>1
    <3>2. db' = [db EXCEPT !.files[d] = f]
      BY <2>1, <3>1
    <3> HIDE DEF e
    <3>3. /\ db' \in StoreDb /\ db'.key = db.key /\ db'.files[d] = f
          /\ \A q \in Docs : q # d => db'.files[q] = db.files[q]
          /\ db'.temps = db.temps
      BY <1>2, <1>4, <3>2, FileGoes
    <3> QED BY <2>1, <3>1, <3>3
  <2>2. CASE e.kind = "temp" /\ db.temps[e.of] # Store!NoTemp
             /\ db' = [db EXCEPT !.temps[e.of] = Rot.temp]
    <3>1. PICK d \in Docs, t \in Store!Temp : d = e.of /\ t = Rot.temp
      BY <1>2, <1>3, <2>2
    <3>2. db' = [db EXCEPT !.temps[d] = t] /\ t.file = f
      BY <2>2, <3>1 DEF f
    <3> HIDE DEF e
    <3>3. /\ db' \in StoreDb /\ db'.key = db.key /\ db'.temps[d] = t
          /\ \A q \in Docs : q # d => db'.temps[q] = db.temps[q]
          /\ db'.files = db.files
      BY <1>2, <3>2, TempGoes
    <3> QED BY <2>2, <3>1, <3>2, <3>3
  <2>3. CASE /\ e.kind = "left" \/ e.kind = "temp"
             /\ db' = [db EXCEPT !.left = db.left \cup {TRUE}]
    <3>1. db.left \cup {TRUE} \in SUBSET BOOLEAN
      BY <1>2 DEF StoreDb
    <3>2. /\ db' \in StoreDb /\ db'.key = db.key /\ db'.files = db.files
          /\ db'.temps = db.temps
      BY <1>2, <2>3, <3>1 DEF StoreDb
    <3>3. e.kind # "document"
      BY <2>3
    <3> QED BY <3>2, <3>3
  <2> QED BY <1>1, <2>1, <2>2, <2>3
<1>7. history' \in StoreHistory /\ failures' \in 0 .. MaxFailures /\ outside' = outside
  BY <1>1, <1>2
<1>8. /\ StoreTyped' /\ Rot' = v
      /\ \A d \in Docs : /\ calls'[d[1]] = calls[d[1]] /\ outside'[d[1]] = outside[d[1]]
                         /\ Received(d)' <=> Received(d)
                         /\ Begun(d)' <=> Begun(d)
                         /\ IsAt(d)' <=> IsAt(d)
  BY <1>1, <1>5, <1>6, <1>7, RotationTurns
<1>9. \A d \in Docs :
          /\ Holds("document", d) <=> (e.kind = "document" /\ e.of = d)
          /\ Holds("temp", d) <=> (e.kind = "temp" /\ e.of = d)
  BY <1>1 DEF Holds
<1> HIDE DEF e
<1>10. ASSUME NEW d \in Docs PROVE InTurn(d)' /\ InOnePiece(d)'
  <2>1. InTurn(d) /\ InOnePiece(d)
    BY DEF StoreSafe
  <2>2. ~Holds("document", d)' /\ ~Holds("temp", d)' /\ history' = history
    BY <1>1, <1>5, <1>8 DEF Holds
  <2>3. \/ db'.files[d] = db.files[d]
        \/ Holds("document", d) /\ db'.files[d] = f
    BY <1>6, <1>9
  <2>4. \/ db'.temps[d] = db.temps[d]
        \/ Holds("temp", d) /\ db.temps[d] # Store!NoTemp /\ db'.temps[d].file = f
    BY <1>6, <1>9
  <2>5. InTurn(d)'
    <3>1. Holds("document", d) => Begun(d) /\ (Received(d) \/ d \in history.torn)
      BY <2>1 DEF InTurn
    <3> QED BY <1>4, <1>8, <2>1, <2>2, <2>3, <2>4, <3>1 DEF InTurn
  <2>6. InOnePiece(d)'
    <3>1. /\ d \notin history.torn /\ outside[d[1]] \in {"none", "accepted"}
          /\ Holds("document", d) \/ Holds("temp", d)
          => f.text = "whole"
      BY <1>1, <2>1 DEF InOnePiece, f
    <3> QED BY <1>8, <2>1, <2>2, <2>3, <2>4, <3>1 DEF InOnePiece
  <2> QED BY <2>5, <2>6
<1>11. InRotation'
  <2>1. \A d \in Docs : UnderNewKey(db.files[d]) \/ Holds("document", d) =>
            UnderNewKey(db.files[d])'
    BY <1>4, <1>6, <1>9 DEF UnderNewKey
  <2>2. \A d \in history.due :
            /\ outside[d[1]] # "none"
            /\ Entry(d) \in Rot.todo \/ UnderNewKey(db.files[d])'
    BY <1>1, <1>2, <2>1 DEF InRotation
  <2>3. Rot.key = db.key
    BY <1>1, <1>2 DEF InRotation
  <2> QED BY <1>1, <1>5, <1>6, <1>8, <2>2, <2>3 DEF InRotation
<1> QED BY <1>8, <1>10, <1>11 DEF StoreSafe

LEMMA StoreInit == Store!Init => StoreSafe
<1> SUFFICES ASSUME Store!Init PROVE StoreSafe
  OBVIOUS
<1> DEFINE files == [d \in Docs |-> Store!Absent]
           temps == [d \in Docs |-> Store!NoTemp]
           none == [at |-> "none", of |-> 1, text |-> "none"]
<1>1. /\ failures = 0 /\ MaxFailures \in Nat
      /\ db = [key |-> 0, files |-> files, temps |-> temps, left |-> {}]
      /\ calls = [c \in Uploads \cup {"rotation"} |->
                     IF c \in Uploads THEN none ELSE Store!IdleRotation]
      /\ outside = [r \in Uploads |-> "none"]
      /\ history = [torn |-> {}, due |-> {}, kept |-> {}]
  BY BackendAssumption DEF Store!Init, Store!Running, Store!Documents, Docs
<1>2. 0 \in Store!Versions /\ 1 \in 1 .. MaxDocuments
  BY StoreAssumption DEF Store!Versions
<1>3. none \in UploadCall /\ none.at = "none" /\ none.of = 1
  BY <1>2 DEF UploadCall
<1>4. Store!IdleRotation \in RotationCall /\ Store!IdleRotation.at = "idle"
  BY IdleRotates
<1>5. files \in [Docs -> Store!File] /\ temps \in [Docs -> Store!Temp]
  BY StoreForms
<1>6. \A d \in Docs : files[d] = Store!Absent /\ temps[d] = Store!NoTemp
  OBVIOUS
<1> HIDE DEF files, temps, none
<1>7. db \in StoreDb /\ db.files = files /\ db.temps = temps
  BY <1>1, <1>2, <1>5 DEF StoreDb
<1>8. /\ \A r \in Uploads : calls[r] = none
      /\ Rot = Store!IdleRotation
      /\ calls \in [Uploads \cup {"rotation"} -> UploadCall \cup RotationCall]
  BY <1>1, <1>3, <1>4, StoreAssumption DEF Rot
<1>9. /\ outside \in [Uploads -> Outcomes] /\ history \in StoreHistory
      /\ \A r \in Uploads : outside[r] = "none"
      /\ failures \in 0 .. MaxFailures
  BY <1>1 DEF Outcomes, StoreHistory
<1>10. StoreTyped
  BY <1>3, <1>4, <1>7, <1>8, <1>9 DEF StoreTyped
<1>11. InRotation
  BY <1>4, <1>8 DEF InRotation
<1>12. ASSUME NEW d \in Docs PROVE InTurn(d) /\ InOnePiece(d)
  <2>1. calls[d[1]] = none /\ outside[d[1]] = "none"
    <3>1. d[1] \in Uploads
      BY DEF Docs
    <3> QED BY <1>8, <1>9, <3>1
  <2>2. d[2] \in 1 .. MaxDocuments /\ MaxDocuments \in Nat
    BY StoreAssumption DEF Docs
  <2>3. ~Received(d) /\ ~Begun(d)
    BY <1>3, <2>1, <2>2 DEF Received, Begun
  <2>4. ~Holds("document", d) /\ ~Holds("temp", d)
    BY <1>4, <1>8 DEF Holds
  <2>5. db.files[d] = Store!Absent /\ db.temps[d] = Store!NoTemp
    BY <1>6, <1>7
  <2>6. InTurn(d)
    BY <1>3, <2>1, <2>3, <2>4, <2>5 DEF InTurn
  <2>7. InOnePiece(d)
    BY <1>3, <2>1, <2>3, <2>4, <2>5 DEF InOnePiece
  <2> QED BY <2>6, <2>7
<1> QED BY <1>10, <1>11, <1>12 DEF StoreSafe

LEMMA StoreSteps == StoreSafe /\ [Store!Next]_vars => StoreSafe'
<1> SUFFICES ASSUME StoreSafe, [Store!Next]_vars PROVE StoreSafe'
  OBVIOUS
<1>1. CASE UNCHANGED vars
  <2>1. UNCHANGED <<db, calls, outside, history, failures>>
    BY <1>1 DEF vars
  <2>2. StoreTyped' /\ InRotation'
    BY <2>1 DEF StoreSafe, StoreTyped, InRotation, Rot, Holds, UnderNewKey
  <2>3. ASSUME NEW d \in Docs PROVE InTurn(d)' /\ InOnePiece(d)'
    <3>1. InTurn(d) /\ InOnePiece(d) /\ Rot' = Rot
      BY <2>1 DEF StoreSafe, Rot
    <3> QED BY <2>1, <3>1, DocumentKept
  <2> QED BY <2>2, <2>3 DEF StoreSafe
<1>2. CASE Store!Next
  <2>1. ASSUME NEW r \in Uploads,
               \/ Store!Receive(r) \/ Store!Received(r) \/ Store!Read(r)
               \/ Store!Written(r) \/ Store!Rename(r)
        PROVE  StoreSafe'
    BY <2>1, StoreReceive, StoreReceived, StoreRead, StoreWritten, StoreRename
  <2>2. ASSUME NEW r \in Uploads, NEW kept \in SUBSET Store!Uploaded(r),
               \/ Store!EncryptionFails(r, kept) \/ Store!UploadAborts(r, kept)
               \/ Store!ApiDies(r)
        PROVE  StoreSafe'
    BY <2>2, StoreRemovals
  <2>8. ASSUME NEW r \in Uploads, Store!ApiDies(r) PROVE StoreSafe'
    <3>1. {} \in SUBSET Store!Uploaded(r)
      OBVIOUS
    <3> QED BY <2>2, <2>8, <3>1
  <2>3. ASSUME NEW r \in Uploads, NEW b \in BOOLEAN, NEW kept \in SUBSET Store!Uploaded(r),
               Store!Validate(r, b, kept) \/ Store!Wrap(r, b)
        PROVE  StoreSafe'
    BY <2>3, StoreValidate, StoreWrap
  <2>9. ASSUME NEW r \in Uploads, NEW b \in BOOLEAN, Store!Wrap(r, b) PROVE StoreSafe'
    BY <2>9, StoreWrap
  <2>4. ASSUME \/ Store!RotateEncryptionKey \/ Store!Reencrypt \/ Store!Decrypt
               \/ Store!WrittenAgain \/ Store!RenameAgain
        PROVE  StoreSafe'
    BY <2>4, StoreRotate, StoreReencrypt, StoreDecrypts, StoreWrittenAgain,
       StoreRenamesAgain
  <2>5. ASSUME \/ Store!Finish \/ Store!RotationFails
               \/ \E e \in Store!Entries : Store!Unreadable(e)
        PROVE  StoreSafe'
    BY <2>5, StoreStops
  <2>6. ASSUME NEW e \in Store!Entries, Store!ReadStored(e) PROVE StoreSafe'
    BY <2>6, StoreReads
  <2>7. ASSUME NEW vault \in BOOLEAN, Store!WrapAgain(vault) PROVE StoreSafe'
    BY <2>7, StoreWrapsAgain
  <2> QED BY <1>2, <2>1, <2>2, <2>3, <2>4, <2>5, <2>6, <2>7, <2>8, <2>9 DEF Store!Next
<1> QED BY <1>1, <1>2

StoreInv == service = "documents" => StoreSafe

LEMMA StoreInitInv == ServicesInit => StoreInv
  BY StoreInit DEF ServicesInit, Start, StoreInv, Breaker!Init, Breaker!Running, Init,
     Running, Sep31!Init, Sep31!Running, Cache!Init, Cache!Running, Wallet!Init,
     Wallet!Running, Indexer!Init, Indexer!Running

LEMMA StoreInvSteps == StoreInv /\ [ServicesNext]_servicesVars => StoreInv'
  BY OwnSteps, StoreSteps DEF StoreInv

\* However its rounds fail and restart, the indexer's cursor passes no event that is not
\* stored.  An accepted document is whole and encrypted, a refused one is not readable
\* unless it could not be removed, and a rotation that has ended has encrypted all that it
\* was due to, whatever uploads, failures and crashes come between.
THEOREM NothingLost == ServicesSpec => []CleanIsComplete
<1>1. IndexerInv => (service = "indexer" => Indexer!CleanIsComplete)
  BY DEF IndexerInv, IndexerSafe, NoHoles, Indexer!CleanIsComplete
<1>2. ASSUME StoreSafe PROVE Store!AcceptedIsWhole
  <2> SUFFICES ASSUME NEW d \in Docs, outside[d[1]] = "accepted", d \notin history.torn
               PROVE  Store!Encrypted(db.files[d]) /\ db.files[d].text = "whole"
    BY <1>2, StoreHere DEF Store!AcceptedIsWhole, StoreSafe
  <2>1. InTurn(d) /\ InOnePiece(d)
    BY <1>2 DEF StoreSafe
  <2>2. Received(d)
    BY <2>1 DEF InTurn, Received
  <2> QED BY <2>1, <2>2 DEF InTurn, InOnePiece
<1>3. ASSUME StoreSafe PROVE Store!NothingPlainStays
  <2> SUFFICES ASSUME NEW d \in Docs \ history.kept,
                      outside[d[1]] \in {"accepted", "rejected", "failed"}
               PROVE  db.files[d] = Store!Absent \/ Store!Encrypted(db.files[d])
    BY <1>3, StoreHere DEF Store!NothingPlainStays, StoreSafe
  <2> QED BY <1>3 DEF StoreSafe, InTurn
<1>4. ASSUME StoreSafe PROVE Store!PassIsComplete
  <2> SUFFICES ASSUME Rot.at = "done", NEW d \in history.due
               PROVE  db.files[d].form \in Rot.key .. db.key \cup {Store!Local}
    BY DEF Store!PassIsComplete, Store!Rotation, Rot
  <2>1. InRotation /\ db.key \in Store!Versions
    BY <1>4, StoreHere DEF StoreSafe
  <2>2. ~Holds("document", d) /\ Rot.todo = {} /\ Rot.key = db.key
    BY <2>1 DEF InRotation, Holds
  <2>3. UnderNewKey(db.files[d])
    BY <2>1, <2>2 DEF InRotation
  <2>4. db.key \in db.key .. db.key
    BY <2>1, StoreAssumption DEF Store!Versions
  <2> QED BY <2>2, <2>3, <2>4 DEF UnderNewKey
<1>5. IndexerInv /\ StoreInv => CleanIsComplete
  BY <1>1, <1>2, <1>3, <1>4 DEF StoreInv, CleanIsComplete
<1> QED BY IndexerInitInv, IndexerInvSteps, StoreInitInv, StoreInvSteps, <1>5, PTL
        DEF ServicesSpec

------------------------------------------------------------------------------
(* The cache and the hot wallet: what they store has its type *)

\* What is being written behind is a value.
Behind == {"behind", "stored", "write"}
CacheAt == Behind \cup {"idle", "l2", "fetch", "keep", "store", "invalidate", "publish"}
CacheCall == [l1 : Values \cup {None}, fresh : BOOLEAN, at : CacheAt,
              value : Values \cup {None}]
CacheDb == [source : Values, l2 : Values \cup {None}]

CacheSafe ==
    /\ db \in CacheDb /\ calls \in [Requests -> CacheCall]
    /\ \A p \in Requests : calls[p].at \in Behind => calls[p].value \in Values
    /\ outside \subseteq Requests /\ history \in 0 .. MaxWrites
    /\ failures \in 0 .. MaxFailures

LEMMA CacheTypes == CacheSafe => Cache!TypeOK
<1>1. CacheAt = {Cache!Idle, "l2", "fetch", "keep", "store", "behind", "stored", "write",
                 "invalidate", "publish"}
  BY DEF CacheAt, Behind, Cache!Idle
<1> QED BY <1>1 DEF CacheSafe, Cache!TypeOK, CacheDb, CacheCall

CallsAreTyped ==
    /\ calls \in [Requests -> CacheCall]
    /\ \A p \in Requests : calls[p].at \in Behind => calls[p].value \in Values

\* What a process's call goes on with.
LEMMA CacheCallGoes ==
  ASSUME CallsAreTyped, NEW p \in Requests, NEW c \in CacheCall,
         c.at \in Behind => c.value \in Values,
         calls' = [calls EXCEPT ![p] = c]
  PROVE  CallsAreTyped'
<1>1. /\ calls' \in [Requests -> CacheCall] /\ calls'[p] = c
      /\ \A q \in Requests : q # p => calls'[q] = calls[q]
  BY DEF CallsAreTyped
<1> QED BY <1>1 DEF CallsAreTyped

LEMMA CacheGoto ==
  ASSUME CallsAreTyped, NEW p \in Requests, NEW at \in CacheAt, Cache!Goto(p, at),
         at \in Behind => calls[p].at \in Behind
  PROVE  CallsAreTyped'
<1> DEFINE c == [calls[p] EXCEPT !.at = at]
<1>1. calls' = [calls EXCEPT ![p] = c]
  BY DEF Cache!Goto, Cache!Goes
<1>2. c \in CacheCall /\ c.at = at /\ c.value = calls[p].value
  BY DEF CallsAreTyped, CacheCall
<1> HIDE DEF c
<1>3. c.at \in Behind => c.value \in Values
  BY <1>2 DEF CallsAreTyped
<1> QED BY <1>1, <1>2, <1>3, CacheCallGoes

LEMMA CacheHolding ==
  ASSUME CallsAreTyped, NEW p \in Requests, NEW at \in CacheAt, NEW v \in Values,
         Cache!Holding(p, at, v)
  PROVE  CallsAreTyped'
<1> DEFINE a == [calls[p] EXCEPT !.at = at]
           c == [a EXCEPT !.value = v]
<1>1. calls' = [calls EXCEPT ![p] = c]
  BY DEF Cache!Holding, Cache!Goes
<1>2. a \in CacheCall
  BY DEF CallsAreTyped, CacheCall
<1> HIDE DEF a
<1>3. c \in CacheCall /\ c.value = v
  BY <1>2 DEF CacheCall
<1> HIDE DEF c
<1> QED BY <1>1, <1>3, CacheCallGoes

LEMMA CacheInL1 ==
  ASSUME CallsAreTyped, NEW p \in Requests, NEW at \in CacheAt,
         NEW v \in Values \cup {None}, Cache!InL1(p, at, v),
         at \in Behind => v \in Values
  PROVE  CallsAreTyped'
<1> DEFINE c == [l1 |-> v, fresh |-> v # None, at |-> at, value |-> v]
<1>1. calls' = [calls EXCEPT ![p] = c]
  BY DEF Cache!InL1, Cache!Goes
<1>2. c \in CacheCall /\ c.at = at /\ c.value = v
  BY DEF CacheCall
<1> HIDE DEF c
<1>3. c.at \in Behind => c.value \in Values
  BY <1>2
<1> QED BY <1>1, <1>2, <1>3, CacheCallGoes

LEMMA CacheInit == Cache!Init => CacheSafe
<1> SUFFICES ASSUME Cache!Init PROVE CacheSafe
  OBVIOUS
<1>1. Cache!Empty \in CacheCall /\ Cache!Empty.at \notin Behind
  BY DEF Cache!Empty, Cache!Idle, CacheCall, CacheAt, Behind
<1>2. calls = [p \in Requests |-> Cache!Empty] /\ db \in CacheDb
  BY DEF Cache!Init, CacheDb
<1> QED BY <1>1, <1>2, CacheAssumption, BackendAssumption
        DEF Cache!Init, Cache!Running, CacheSafe

LEMMA CacheSteps == CacheSafe /\ [Cache!Next]_vars => CacheSafe'
<1> SUFFICES ASSUME CacheSafe, [Cache!Next]_vars PROVE CacheSafe'
  OBVIOUS
<1>1. /\ db \in CacheDb /\ CallsAreTyped
      /\ outside \subseteq Requests /\ history \in 0 .. MaxWrites
      /\ failures \in 0 .. MaxFailures /\ MaxFailures \in Nat /\ MaxWrites \in Nat
  BY CacheAssumption, BackendAssumption DEF CacheSafe, CallsAreTyped
<1>2. /\ None \in Values \cup {None} /\ db.source \in Values
      /\ db.l2 \in Values \cup {None}
      /\ \A p \in Requests : /\ calls[p] \in CacheCall
                             /\ calls[p].value \in Values \cup {None}
  BY <1>1 DEF CacheDb, CacheCall, CallsAreTyped
<1>3. \A v \in Values \cup {None} : [db EXCEPT !.l2 = v] \in CacheDb
  BY <1>1 DEF CacheDb
<1>4. \A v \in Values : [db EXCEPT !.source = v] \in CacheDb
  BY <1>1 DEF CacheDb
<1>5. Cache!Step("cache") \/ Cache!Fail("cache") => failures' \in 0 .. MaxFailures
  BY <1>1 DEF Cache!Step, Cache!Fail
<1>6. /\ db' \in CacheDb /\ CallsAreTyped' /\ outside' \subseteq Requests
      /\ history' \in 0 .. MaxWrites /\ failures' \in 0 .. MaxFailures
      => CacheSafe'
  BY DEF CacheSafe, CallsAreTyped
<1>7. ASSUME NEW p \in Requests, NEW at \in CacheAt, Cache!Goto(p, at),
             at \in Behind => calls[p].at \in Behind
      PROVE  CallsAreTyped'
  BY <1>1, <1>7, CacheGoto
<1>8. ASSUME NEW p \in Requests, NEW at \in CacheAt, NEW v \in Values,
             Cache!Holding(p, at, v)
      PROVE  CallsAreTyped'
  BY <1>1, <1>8, CacheHolding
<1>9. ASSUME NEW p \in Requests, NEW at \in CacheAt, NEW v \in Values \cup {None},
             Cache!InL1(p, at, v), at \in Behind => v \in Values
      PROVE  CallsAreTyped'
  BY <1>1, <1>9, CacheInL1
<1>10. /\ Cache!Idle \in CacheAt /\ "l2" \in CacheAt /\ "fetch" \in CacheAt
       /\ "keep" \in CacheAt /\ "store" \in CacheAt /\ "behind" \in CacheAt
       /\ "stored" \in CacheAt /\ "write" \in CacheAt /\ "invalidate" \in CacheAt
       /\ "publish" \in CacheAt
       /\ Cache!Idle \notin Behind /\ "l2" \notin Behind /\ "fetch" \notin Behind
       /\ "store" \notin Behind /\ "invalidate" \notin Behind /\ "publish" \notin Behind
       /\ "behind" \in Behind /\ "stored" \in Behind /\ "write" \in Behind
  BY DEF CacheAt, Behind, Cache!Idle
<1>11. \A p \in Requests : calls[p].at \in Behind => calls[p].value \in Values
  BY <1>1 DEF CallsAreTyped
<1>12. CASE UNCHANGED vars
  BY <1>12 DEF vars, CacheSafe
<1>13. ASSUME NEW p \in Requests, Cache!Proceeds(p) PROVE CacheSafe'
  <2>1. CASE Cache!CacheAside(p)
    <3>1. Cache!Goto(p, "l2") /\ Cache!Step("cache") /\ UNCHANGED <<db, outside, history>>
      BY <2>1 DEF Cache!CacheAside
    <3>2. CallsAreTyped'
      BY <1>7, <1>10, <3>1
    <3> QED BY <1>1, <1>5, <1>6, <3>1, <3>2
  <2>2. CASE Cache!GetL2(p)
    <3>1. /\ Cache!Step("cache") /\ UNCHANGED <<db, outside, history>>
          /\ \/ Cache!Goto(p, "fetch")
             \/ Cache!InL1(p, Cache!Idle, db.l2)
             \/ Cache!InL1(p, "fetch", db.l2)
      BY <2>2 DEF Cache!GetL2, Cache!OnMiss
    <3>2. CallsAreTyped'
      BY <1>2, <1>7, <1>9, <1>10, <3>1
    <3> QED BY <1>1, <1>5, <1>6, <3>1, <3>2
  <2>3. CASE Cache!Fetch(p)
    <3>1. /\ Cache!Step("cache") /\ UNCHANGED <<db, outside, history>>
          /\ Cache!Holding(p, "keep", db.source)
      BY <2>3 DEF Cache!Fetch
    <3>2. CallsAreTyped'
      BY <1>2, <1>8, <1>10, <3>1
    <3> QED BY <1>1, <1>5, <1>6, <3>1, <3>2
  <2>4. CASE Cache!Keep(p)
    <3>1. /\ Cache!Step("cache") /\ UNCHANGED <<db, outside, history>>
          /\ \/ Cache!InL1(p, "store", calls[p].value)
             \/ calls[p].at = "behind" /\ Cache!InL1(p, "stored", calls[p].value)
      BY <2>4 DEF Cache!Keep, Cache!At
    <3>2. CallsAreTyped'
      BY <1>2, <1>9, <1>10, <1>11, <3>1
    <3> QED BY <1>1, <1>5, <1>6, <3>1, <3>2
  <2>5. CASE Cache!SetL2(p)
    <3>1. /\ Cache!Step("cache") /\ UNCHANGED <<outside, history>>
          /\ db' = [db EXCEPT !.l2 = calls[p].value]
          /\ \/ Cache!Goto(p, Cache!Idle)
             \/ calls[p].at = "stored" /\ Cache!Goto(p, "write")
      BY <2>5 DEF Cache!SetL2, Cache!At
    <3>2. CallsAreTyped'
      BY <1>7, <1>10, <3>1
    <3> QED BY <1>1, <1>2, <1>3, <1>5, <1>6, <3>1, <3>2
  <2>6. CASE Cache!WriteLater(p)
    <3>1. /\ Cache!Step("cache") /\ UNCHANGED <<outside, history>>
          /\ db' = [db EXCEPT !.source = calls[p].value]
          /\ calls[p].at = "write" /\ Cache!Goto(p, Cache!Idle)
      BY <2>6 DEF Cache!WriteLater, Cache!At
    <3>2. CallsAreTyped' /\ db' \in CacheDb
      BY <1>4, <1>7, <1>10, <1>11, <3>1
    <3> QED BY <1>1, <1>5, <1>6, <3>1, <3>2
  <2>7. CASE Cache!Invalidate(p)
    <3>1. /\ Cache!Step("cache") /\ UNCHANGED <<outside, history>>
          /\ db' = [db EXCEPT !.l2 = None] /\ Cache!InL1(p, "publish", None)
      BY <2>7 DEF Cache!Invalidate
    <3>2. CallsAreTyped' /\ db' \in CacheDb
      BY <1>2, <1>3, <1>9, <1>10, <3>1
    <3> QED BY <1>1, <1>5, <1>6, <3>1, <3>2
  <2>8. CASE Cache!Publish(p)
    <3>1. /\ Cache!Step("cache") /\ UNCHANGED <<db, history>> /\ outside' = Requests
          /\ Cache!Goto(p, Cache!Idle)
      BY <2>8 DEF Cache!Publish
    <3>2. CallsAreTyped'
      BY <1>7, <1>10, <3>1
    <3> QED BY <1>1, <1>5, <1>6, <3>1, <3>2
  <2> QED BY <1>13, <2>1, <2>2, <2>3, <2>4, <2>5, <2>6, <2>7, <2>8 DEF Cache!Proceeds
<1>14. ASSUME NEW p \in Requests,
              Cache!CallFails(p) \/ Cache!WriteFails(p) \/ Cache!AskInvalidate(p)
       PROVE  CacheSafe'
  <2>1. /\ Cache!Step("cache") \/ Cache!Fail("cache")
        /\ UNCHANGED <<db, outside>>
        /\ history' = history \/ Cache!Writes
        /\ \/ Cache!Goto(p, "fetch")
           \/ Cache!Goto(p, Cache!Idle)
           \/ calls[p].at = "stored" /\ Cache!Goto(p, "write")
           \/ Cache!InL1(p, Cache!Idle, None)
           \/ Cache!Goto(p, "invalidate")
    BY <1>14 DEF Cache!CallFails, Cache!WriteFails, Cache!AskInvalidate, Cache!OnMiss,
       Cache!At
  <2>2. CallsAreTyped'
    BY <1>2, <1>7, <1>9, <1>10, <2>1
  <2>3. history' \in 0 .. MaxWrites
    BY <1>1, <2>1 DEF Cache!Writes
  <2> QED BY <1>1, <1>5, <1>6, <2>1, <2>2, <2>3
<1>15. ASSUME NEW p \in Requests, NEW v \in Values,
              Cache!WriteThrough(p, v) \/ Cache!WriteBehind(p, v)
       PROVE  CacheSafe'
  <2>1. /\ Cache!Step("cache") /\ UNCHANGED outside /\ Cache!Writes
        /\ db' = db \/ db' = [db EXCEPT !.source = v]
        /\ Cache!Holding(p, "keep", v) \/ Cache!Holding(p, "behind", v)
    BY <1>15 DEF Cache!WriteThrough, Cache!WriteBehind
  <2>2. CallsAreTyped' /\ db' \in CacheDb
    BY <1>1, <1>4, <1>8, <1>10, <2>1
  <2>3. history' \in 0 .. MaxWrites
    BY <1>1, <2>1 DEF Cache!Writes
  <2> QED BY <1>1, <1>5, <1>6, <2>1, <2>2, <2>3
<1>16. ASSUME NEW p \in Requests, NEW v \in Values \cup {None},
              calls' = [calls EXCEPT ![p].fresh = FALSE, ![p].l1 = v]
       PROVE  CallsAreTyped'
  <2> DEFINE a == [calls[p] EXCEPT !.fresh = FALSE]
             c == [a EXCEPT !.l1 = v]
  <2>1. calls' = [calls EXCEPT ![p] = c]
    BY <1>1, <1>16 DEF CallsAreTyped
  <2>2. a \in CacheCall /\ a.at = calls[p].at /\ a.value = calls[p].value
    BY <1>2 DEF CacheCall
  <2> HIDE DEF a
  <2>3. c \in CacheCall /\ c.at = calls[p].at /\ c.value = calls[p].value
    BY <2>2 DEF CacheCall
  <2> HIDE DEF c
  <2> QED BY <1>1, <1>11, <2>1, <2>3, CacheCallGoes
<1>17. ASSUME NEW p \in Requests, Cache!HandleInvalidationMessage(p) PROVE CacheSafe'
  <2> DEFINE a == [calls[p] EXCEPT !.l1 = None]
             c == [a EXCEPT !.fresh = FALSE]
  <2>1. /\ Cache!Step("cache") /\ UNCHANGED <<db, history>> /\ outside' \subseteq outside
        /\ calls' = [calls EXCEPT ![p] = c]
    BY <1>17 DEF Cache!HandleInvalidationMessage
  <2>2. a \in CacheCall /\ a.at = calls[p].at /\ a.value = calls[p].value
    BY <1>2 DEF CacheCall
  <2> HIDE DEF a
  <2>3. c \in CacheCall /\ c.at = calls[p].at /\ c.value = calls[p].value
    BY <2>2 DEF CacheCall
  <2> HIDE DEF c
  <2>4. CallsAreTyped'
    BY <1>1, <1>11, <2>1, <2>3, CacheCallGoes
  <2> QED BY <1>1, <1>5, <1>6, <2>1, <2>4
<1>18. ASSUME NEW p \in Requests, NEW gone \in BOOLEAN, Cache!L1Expires(p, gone)
       PROVE  CacheSafe'
  <2>1. PICK v \in Values \cup {None} : v = IF gone THEN None ELSE calls[p].l1
    BY <1>2 DEF CacheCall
  <2>2. /\ Cache!Step("cache") /\ UNCHANGED <<db, outside, history>>
        /\ calls' = [calls EXCEPT ![p].fresh = FALSE, ![p].l1 = v]
    BY <1>1, <1>2, <1>18, <2>1 DEF Cache!L1Expires, CallsAreTyped, CacheCall
  <2>3. CallsAreTyped'
    BY <1>16, <2>2
  <2> QED BY <1>1, <1>5, <1>6, <2>2, <2>3
<1>19. CASE Cache!L2Expires
  <2>1. /\ Cache!Step("cache") /\ UNCHANGED <<calls, outside, history>>
        /\ db' = [db EXCEPT !.l2 = None]
    BY <1>19 DEF Cache!L2Expires
  <2>2. CallsAreTyped'
    BY <1>1, <2>1 DEF CallsAreTyped
  <2> QED BY <1>1, <1>2, <1>3, <1>5, <1>6, <2>1, <2>2
<1> QED BY <1>12, <1>13, <1>14, <1>15, <1>17, <1>18, <1>19 DEF Cache!Next

CacheInv == service = "cache" => CacheSafe

LEMMA CacheInitInv == ServicesInit => CacheInv
  BY CacheInit DEF ServicesInit, Start, CacheInv, Breaker!Init, Breaker!Running, Init,
     Running, Sep31!Init, Sep31!Running, Store!Init, Store!Running, Wallet!Init,
     Wallet!Running, Indexer!Init, Indexer!Running

LEMMA CacheInvSteps == CacheInv /\ [ServicesNext]_servicesVars => CacheInv'
  BY OwnSteps, CacheSteps DEF CacheInv

WalletCalls == {Wallet!Idle, "ask", "send", "cooldown", "breach", "recovery", "clear",
                "delBreach", "delCooldown"}
WalletDb == [cooldown : BOOLEAN, breach : BOOLEAN]
Balances == {"low", "above", "recovered"}
WalletOutside == [balance : Balances, told : {"clear", "alert"}]
WalletHistory == [moves : 0 .. MaxMoves, overlapped : BOOLEAN]

WalletSafe ==
    /\ db \in WalletDb /\ calls \in [Requests -> WalletCalls]
    /\ outside \in WalletOutside /\ history \in WalletHistory
    /\ failures \in 0 .. MaxFailures

LEMMA WalletInit == Wallet!Init => WalletSafe
  BY BackendAssumption, WalletAssumption
     DEF Wallet!Init, Wallet!Running, WalletSafe, WalletDb, WalletCalls, WalletOutside,
         WalletHistory, Balances

LEMMA WalletSteps == WalletSafe /\ [Wallet!Next]_vars => WalletSafe'
<1> SUFFICES ASSUME WalletSafe, [Wallet!Next]_vars PROVE WalletSafe'
  OBVIOUS
<1>1. /\ db \in WalletDb /\ calls \in [Requests -> WalletCalls]
      /\ outside \in WalletOutside /\ history \in WalletHistory
      /\ failures \in 0 .. MaxFailures /\ MaxFailures \in Nat /\ MaxMoves \in Nat
      /\ db.breach \in BOOLEAN /\ history.moves \in 0 .. MaxMoves
      /\ history.overlapped \in BOOLEAN
  BY BackendAssumption, WalletAssumption DEF WalletSafe, WalletDb, WalletHistory
<1>2. ASSUME NEW r \in Requests, NEW to \in WalletCalls, Wallet!Goes(r, to)
      PROVE  calls' \in [Requests -> WalletCalls]
  BY <1>1, <1>2 DEF Wallet!Goes
<1>3. /\ Wallet!Idle \in WalletCalls /\ "ask" \in WalletCalls /\ "send" \in WalletCalls
      /\ "cooldown" \in WalletCalls /\ "breach" \in WalletCalls
      /\ "recovery" \in WalletCalls /\ "clear" \in WalletCalls
      /\ "delBreach" \in WalletCalls /\ "delCooldown" \in WalletCalls
  BY DEF WalletCalls
<1>4. Wallet!Step("wallet") \/ Wallet!Fail("wallet") => failures' \in 0 .. MaxFailures
  BY <1>1 DEF Wallet!Step, Wallet!Fail
<1>5. /\ [db EXCEPT !.cooldown = TRUE] \in WalletDb
      /\ [db EXCEPT !.cooldown = FALSE] \in WalletDb
      /\ [db EXCEPT !.breach = TRUE] \in WalletDb
      /\ [db EXCEPT !.breach = FALSE] \in WalletDb
      /\ [outside EXCEPT !.told = "alert"] \in WalletOutside
      /\ [outside EXCEPT !.told = "clear"] \in WalletOutside
  BY <1>1 DEF WalletDb, WalletOutside
<1>6. CASE UNCHANGED vars
  BY <1>6 DEF vars, WalletSafe
<1>7. ASSUME NEW r \in Requests, Wallet!CheckWallet(r) PROVE WalletSafe'
  <2> DEFINE overlapped == history.overlapped \/ \E q \in Requests : calls[q] # Wallet!Idle
  <2>1. /\ Wallet!Step("wallet") /\ UNCHANGED <<db, outside>>
        /\ Wallet!Goes(r, "ask") \/ Wallet!Goes(r, "recovery")
        /\ history' = [history EXCEPT !.overlapped = overlapped]
    BY <1>7 DEF Wallet!CheckWallet
  <2>2. overlapped \in BOOLEAN
    BY <1>1
  <2> HIDE DEF overlapped
  <2>3. history' \in WalletHistory
    BY <1>1, <2>1, <2>2 DEF WalletHistory
  <2>4. calls' \in [Requests -> WalletCalls]
    BY <1>2, <1>3, <2>1
  <2> QED BY <1>1, <1>4, <2>1, <2>3, <2>4 DEF WalletSafe
<1>8. ASSUME NEW r \in Requests, Wallet!Proceeds(r) PROVE WalletSafe'
  <2>1. /\ Wallet!Step("wallet") /\ UNCHANGED history
        /\ \E to \in WalletCalls : Wallet!Goes(r, to)
        /\ outside' \in WalletOutside /\ db' \in WalletDb
    <3>1. CASE Wallet!AlreadyAlerted(r)
      BY <1>1, <1>3, <3>1 DEF Wallet!AlreadyAlerted
    <3>2. CASE Wallet!Send(r)
      BY <1>1, <1>3, <1>5, <3>2 DEF Wallet!Send
    <3>3. CASE Wallet!SetCooldown(r)
      BY <1>1, <1>3, <1>5, <3>3 DEF Wallet!SetCooldown
    <3>4. CASE Wallet!SetBreach(r)
      BY <1>1, <1>3, <1>5, <3>4 DEF Wallet!SetBreach, Wallet!Remembered
    <3>5. CASE Wallet!InBreach(r)
      BY <1>1, <1>3, <3>5 DEF Wallet!InBreach
    <3>6. CASE Wallet!AllClear(r)
      BY <1>1, <1>3, <1>5, <3>6 DEF Wallet!AllClear
    <3>7. CASE Wallet!Delete(r)
      BY <1>1, <1>3, <1>5, <3>7 DEF Wallet!Delete
    <3> QED BY <1>8, <3>1, <3>2, <3>3, <3>4, <3>5, <3>6, <3>7 DEF Wallet!Proceeds
  <2>2. calls' \in [Requests -> WalletCalls]
    BY <1>2, <2>1
  <2> QED BY <1>1, <1>4, <2>1, <2>2 DEF WalletSafe
<1>9. ASSUME NEW r \in Requests, Wallet!CheckFails(r) \/ Wallet!SendFails(r)
      PROVE  WalletSafe'
  <2>1. /\ Wallet!Fail("wallet") /\ UNCHANGED <<db, outside, history>>
        /\ \E to \in WalletCalls : Wallet!Goes(r, to)
    BY <1>3, <1>9 DEF Wallet!CheckFails, Wallet!SendFails
  <2>2. calls' \in [Requests -> WalletCalls]
    BY <1>2, <1>3, <2>1
  <2> QED BY <1>1, <1>4, <2>1, <2>2 DEF WalletSafe
<1>10. CASE Wallet!CooldownExpires
  BY <1>1, <1>4, <1>5, <1>10 DEF Wallet!CooldownExpires, WalletSafe
<1>11. ASSUME NEW b \in Balances, Wallet!BalanceMoves(b) PROVE WalletSafe'
  <2>1. /\ Wallet!Step("wallet") /\ UNCHANGED <<db, calls>> /\ history.moves < MaxMoves
        /\ outside' = [outside EXCEPT !.balance = b]
        /\ history' = [history EXCEPT !.moves = history.moves + 1]
    BY <1>11 DEF Wallet!BalanceMoves
  <2>2. outside' \in WalletOutside
    BY <1>1, <2>1 DEF WalletOutside
  <2>3. PICK n \in 0 .. MaxMoves : n = history.moves + 1
    BY <1>1, <2>1
  <2>4. history' = [history EXCEPT !.moves = n]
    BY <2>1, <2>3
  <2>5. history' \in WalletHistory
    BY <1>1, <2>4 DEF WalletHistory
  <2> QED BY <1>1, <1>4, <2>1, <2>2, <2>5 DEF WalletSafe
<1> QED BY <1>6, <1>7, <1>8, <1>9, <1>10, <1>11 DEF Wallet!Next, Balances

WalletInv == service = "wallet" => WalletSafe

LEMMA WalletInitInv == ServicesInit => WalletInv
  BY WalletInit DEF ServicesInit, Start, WalletInv, Breaker!Init, Breaker!Running, Init,
     Running, Sep31!Init, Sep31!Running, Store!Init, Store!Running, Cache!Init,
     Cache!Running, Indexer!Init, Indexer!Running

LEMMA WalletInvSteps == WalletInv /\ [ServicesNext]_servicesVars => WalletInv'
  BY OwnSteps, WalletSteps DEF WalletInv

------------------------------------------------------------------------------

LEMMA StoreTypes == StoreTyped => Store!TypeOK
<1> SUFFICES ASSUME StoreTyped PROVE Store!TypeOK
  OBVIOUS
<1>1. /\ db.key \in Store!Versions /\ db.files \in [Store!Documents -> Store!File]
      /\ db.temps \in [Store!Documents -> Store!Temp] /\ db.left \subseteq BOOLEAN
  BY StoreHere
<1>2. \A r \in Uploads : calls[r] \in UploadCall
  BY DEF StoreTyped
<1>3. /\ Rot.at \in {"idle", "rotated", "next", "decrypt", "wrap", "write", "done"}
      /\ Rot.todo \subseteq Store!Entries
  BY StoreHere
<1>4. /\ outside \in [Uploads -> Outcomes] /\ failures \in 0 .. MaxFailures
      /\ history.torn \subseteq Store!Documents /\ history.due \subseteq Store!Documents
      /\ history.kept \subseteq Store!Documents
  BY StoreHere DEF StoreTyped
<1> QED BY <1>1, <1>2, <1>3, <1>4 DEF Store!TypeOK, UploadCall, Rot, Outcomes

\* What every service stores and holds in its calls has its type.
THEOREM ServicesTypesCorrect == ServicesSpec => []ServicesTypeOK
<1>1. IndexerInv => (service = "indexer" => Indexer!TypeOK)
  BY DEF IndexerInv, IndexerSafe, IndexerTyped, IndexerCall, IndexerHistory, Indexer!TypeOK
<1>2. WalletInv => (service = "wallet" => Wallet!TypeOK)
  BY DEF WalletInv, WalletSafe, Wallet!TypeOK, WalletDb, WalletCalls, WalletOutside,
     WalletHistory, Balances
<1>3. /\ BreakerInv => (service = "breaker" => Breaker!TypeOK)
      /\ KycInv => (service = "kyc" => TypeOK)
      /\ QuoteInv => (service = "sep31" => Sep31!TypeOK)
      /\ CacheInv => (service = "cache" => Cache!TypeOK)
      /\ StoreInv => (service = "documents" => Store!TypeOK)
      /\ QueueInv => (service = "queue" => Queue!TypeOK)
      /\ RecurringInv => (service = "recurring" => Recurring!TypeOK)
  BY CacheTypes, StoreTypes, RecurringTypes
     DEF BreakerInv, KycInv, KycSafe, QuoteInv, QuoteSafe, CacheInv, StoreInv, StoreSafe,
         QueueInv, QueueSafe, RecurringInv, RecurringSafe
<1>4. /\ BreakerInv /\ IndexerInv /\ KycInv /\ QuoteInv /\ CacheInv /\ WalletInv
      /\ StoreInv /\ QueueInv /\ RecurringInv
      => ServicesTypeOK
  BY <1>1, <1>2, <1>3 DEF ServicesTypeOK
<1> QED BY BreakerInitInv, BreakerInvSteps, IndexerInitInv, IndexerInvSteps,
           KycInitInv, KycInvSteps, QuoteInitInv, QuoteInvSteps, CacheInitInv,
           CacheInvSteps, WalletInitInv, WalletInvSteps, StoreInitInv, StoreInvSteps,
           QueueInitInv, QueueInvSteps, RecurringInitInv, RecurringInvSteps, <1>4, PTL
        DEF ServicesSpec
=============================================================================
