---------------------------- MODULE BatchPayments ----------------------------
(***************************************************************************)
(* Batches of payments from one source account:                            *)
(* backend/src/services/batch-payment.service.ts (executeBatchInChunks,    *)
(* executeBatch) and the sequence number manager it uses,                  *)
(* backend/src/services/sequence-number.service.ts, whose Redlock and      *)
(* counter live in Redis.  Each worker executes one request, a list of     *)
(* chunks that are one Stellar transaction each.                           *)
(*                                                                         *)
(* The lock on the batch id (executeBatch runs on without it when it is    *)
(* taken) and dry runs change nothing and are left out.                    *)
(***************************************************************************)
EXTENDS Integers, FiniteSets, TLAPS

CONSTANTS
    Workers,
    Chunks,         \* chunks of a request
    MaxAttempts,    \* config.maxRetries
    MaxOthers,      \* bound on transactions of the account made elsewhere
    MaxFailures,    \* bound on crashes, failed calls and lost answers
    MaxExpiries,    \* bound on expiries of the lock and of the counter
    Nobody

\* A batch without payments is refused before it is cut into chunks.
ASSUME BatchAssumption ==
    /\ Nobody \notin Workers
    /\ Chunks \in Nat \ {0}
    /\ MaxAttempts \in Nat \ {0}

VARIABLES
    lock,       \* stellar:batch:lock:<account>, held for LOCK_TTL_MS
    counter,    \* stellar:batch:counter:<account>
    ledgerSeq,  \* the account's sequence number on the ledger
    pending,    \* transactions with Horizon whose answer was lost
    paid,       \* times each chunk of each request was applied
    others,     \* transactions of the account made elsewhere so far
    pc, job,    \* the workers: position, and what they hold
    failures, expiries

redis == <<lock, counter>>
chain == <<ledgerSeq, pending, paid, others>>
vars == <<redis, chain, pc, job, failures, expiries>>

Finished == {"succeeded", "failed", "dead"}
Locked == {"next", "submit", "reset", "release"}
Labels == {"fetch", "acquire"} \cup Locked \cup Finished

\* What executeBatchInChunks and executeBatch know while they await.
Job == [chunk : 1..Chunks, attempts : 1..MaxAttempts, base : Nat, offset : Nat,
        done : BOOLEAN]

TypeOK ==
    /\ lock \in Workers \cup {Nobody}
    /\ counter \in Nat /\ ledgerSeq \in Nat /\ others \in Nat
    /\ failures \in Nat /\ expiries \in Nat
    /\ pending \subseteq [worker : Workers, chunk : 1..Chunks, seq : Nat]
    /\ paid \in [Workers -> [1..Chunks -> Nat]]
    /\ pc \in [Workers -> Labels]
    /\ job \in [Workers -> Job]

Init ==
    /\ lock = Nobody
    /\ counter = 0
    /\ ledgerSeq = 0
    /\ pending = {}
    /\ paid = [w \in Workers |-> [c \in 1..Chunks |-> 0]]
    /\ others = 0
    /\ pc = [w \in Workers |-> "fetch"]
    /\ job = [w \in Workers |-> [chunk |-> 1, attempts |-> 1, base |-> 0,
                                 offset |-> 0, done |-> FALSE]]
    /\ failures = 0
    /\ expiries = 0

At(w, label, local) ==
    /\ pc' = [pc EXCEPT ![w] = label]
    /\ job' = [job EXCEPT ![w] = local]

Fail == failures < MaxFailures /\ failures' = failures + 1

\* The account is loaded before the lock is taken.
FetchSequence(w) ==
    /\ pc[w] = "fetch"
    /\ At(w, "acquire", [job[w] EXCEPT !.base = ledgerSeq])
    /\ UNCHANGED <<redis, chain, failures, expiries>>

\* mutant: one attempt too many
AttemptFails_OneMore(w) ==
    IF job[w].attempts <= MaxAttempts
    THEN At(w, "fetch", [job[w] EXCEPT !.attempts = @ + 1])
    ELSE At(w, "failed", job[w])

\* mutant: an attempt that met a conflict is not counted
AttemptFails_Uncounted(w) ==
    At(w, "fetch", [job[w] EXCEPT !.base = 0, !.offset = 0])

\* The catch of the retry loop, for every kind of error.
AttemptFails(w) ==
    IF job[w].attempts < MaxAttempts
    THEN At(w, "fetch", [job[w] EXCEPT !.attempts = @ + 1, !.base = 0,
                                       !.offset = 0])
    ELSE At(w, "failed", job[w])

FetchFails(w) ==
    /\ pc[w] = "fetch"
    /\ Fail
    /\ AttemptFails(w)
    /\ UNCHANGED <<redis, chain, expiries>>

\* mutant: a lock that cannot be had is done without, as for the batch lock
AcquireLock_BestEffort(w) ==
    /\ pc[w] = "acquire"
    /\ lock' = IF lock = Nobody THEN w ELSE lock
    /\ At(w, "next", job[w])
    /\ UNCHANGED <<counter, chain, failures, expiries>>

AcquireLock(w) ==
    /\ pc[w] = "acquire"
    /\ lock = Nobody
    /\ lock' = w
    /\ At(w, "next", job[w])
    /\ UNCHANGED <<counter, chain, failures, expiries>>

\* Redlock gives up after its retries.
AcquireFails(w) ==
    /\ pc[w] = "acquire"
    /\ \/ lock # Nobody /\ UNCHANGED failures
       \/ Fail
    /\ AttemptFails(w)
    /\ UNCHANGED <<redis, chain, expiries>>

GetNextSequenceNumber(w) ==
    /\ pc[w] = "next"
    /\ counter' = counter + 1
    /\ At(w, "submit", [job[w] EXCEPT !.offset = counter + 1])
    /\ UNCHANGED <<lock, chain, failures, expiries>>

GetNextFails(w) ==
    /\ pc[w] = "next"
    /\ Fail
    /\ counter' \in {counter, counter + 1}
    /\ At(w, "release", job[w])
    /\ UNCHANGED <<lock, chain, expiries>>

\* new Account(source, base + offset), whose builder adds one more.
TxSequence(w) == job[w].base + job[w].offset + 1

Apply(w, chunk) ==
    /\ ledgerSeq' = ledgerSeq + 1
    /\ paid' = [paid EXCEPT ![w][chunk] = @ + 1]

\* mutant: a refusal is reported as success
Submit_IgnoresRefusal(w) ==
    /\ pc[w] = "submit"
    /\ At(w, "reset", job[w])
    /\ IF TxSequence(w) = ledgerSeq + 1
       THEN Apply(w, job[w].chunk) ELSE UNCHANGED <<ledgerSeq, paid>>
    /\ UNCHANGED <<redis, pending, others, failures, expiries>>

\* submitTransaction: the network applies the transaction, refuses its
\* sequence number, or charges it without making the payments.
Submit(w) ==
    /\ pc[w] = "submit"
    /\ IF TxSequence(w) = ledgerSeq + 1
       THEN \/ Apply(w, job[w].chunk) /\ At(w, "reset", job[w])
            \/ /\ ledgerSeq' = ledgerSeq + 1
               /\ At(w, "release", job[w])
               /\ UNCHANGED paid
       ELSE At(w, "release", job[w]) /\ UNCHANGED <<ledgerSeq, paid>>
    /\ UNCHANGED <<redis, pending, others, failures, expiries>>

\* The answer is lost: the transaction stays with Horizon.
SubmitTimesOut(w) ==
    /\ pc[w] = "submit"
    /\ Fail
    /\ pending' = pending \cup {[worker |-> w, chunk |-> job[w].chunk,
                                 seq |-> TxSequence(w)]}
    /\ At(w, "release", job[w])
    /\ UNCHANGED <<redis, ledgerSeq, paid, others, expiries>>

\* resetSequenceCounter swallows its errors.
ResetSequenceCounter(w) ==
    /\ pc[w] = "reset"
    /\ \/ counter' = 0 /\ UNCHANGED failures
       \/ Fail /\ UNCHANGED counter
    /\ At(w, "release", [job[w] EXCEPT !.done = TRUE])
    /\ UNCHANGED <<lock, chain, expiries>>

\* mutant: the remaining chunks are forgotten
ChunkDone_Last(w) == At(w, "succeeded", job[w])

\* The next chunk of executeBatchInChunks, or the answer to the caller.
ChunkDone(w) ==
    IF job[w].chunk < Chunks
    THEN At(w, "fetch", [chunk |-> job[w].chunk + 1, attempts |-> 1,
                         base |-> 0, offset |-> 0, done |-> FALSE])
    ELSE At(w, "succeeded", job[w])

\* The lock is released only by its own holder, and errors are swallowed.
ReleaseLock(w) ==
    /\ pc[w] = "release"
    /\ \/ lock' = (IF lock = w THEN Nobody ELSE lock) /\ UNCHANGED failures
       \/ Fail /\ UNCHANGED lock
    /\ IF job[w].done THEN ChunkDone(w) ELSE AttemptFails(w)
    /\ UNCHANGED <<counter, chain, expiries>>

WorkerDies(w) ==
    /\ pc[w] \notin Finished
    /\ Fail
    /\ At(w, "dead", job[w])
    /\ UNCHANGED <<redis, chain, expiries>>

------------------------------------------------------------------------------
(* Redis and the Stellar network *)

Expire == expiries < MaxExpiries /\ expiries' = expiries + 1

LockExpires ==
    /\ lock # Nobody
    /\ Expire
    /\ lock' = Nobody
    /\ UNCHANGED <<counter, chain, pc, job, failures>>

CounterExpires ==
    /\ counter # 0
    /\ Expire
    /\ counter' = 0
    /\ UNCHANGED <<lock, chain, pc, job, failures>>

\* A transaction whose answer was lost is applied after all.
AppliesLate ==
    \E tx \in pending :
        /\ tx.seq = ledgerSeq + 1
        /\ Apply(tx.worker, tx.chunk)
        /\ pending' = pending \ {tx}
        /\ UNCHANGED <<redis, others, pc, job, failures, expiries>>

\* The same account is used by another service.
OtherTransaction ==
    /\ others < MaxOthers
    /\ others' = others + 1
    /\ ledgerSeq' = ledgerSeq + 1
    /\ UNCHANGED <<redis, pending, paid, pc, job, failures, expiries>>

------------------------------------------------------------------------------
Step(w) ==
    \/ FetchSequence(w) \/ AcquireLock(w) \/ AcquireFails(w)
    \/ GetNextSequenceNumber(w) \/ Submit(w) \/ ResetSequenceCounter(w)
    \/ ReleaseLock(w)

Next ==
    \/ \E w \in Workers :
          Step(w) \/ FetchFails(w) \/ GetNextFails(w) \/ SubmitTimesOut(w)
            \/ WorkerDies(w)
    \/ LockExpires \/ CounterExpires \/ AppliesLate \/ OtherTransaction

Spec == Init /\ [][Next]_vars

\* Every awaited call settles.
FairSpec == Spec /\ \A w \in Workers : WF_vars(Step(w))

------------------------------------------------------------------------------
(* Properties *)

\* What a worker knows of its request while no answer is lost: the chunks
\* behind it were paid once, the one in hand only if its submission was
\* reported a success, the ones ahead not at all.
Acknowledged(w, c) ==
    \/ c < job[w].chunk
    \/ c = job[w].chunk /\ (pc[w] = "reset" \/ job[w].done)

\* executeBatchInChunks: unless a call fails, a request that succeeded paid
\* every chunk exactly once, and one that failed paid exactly the chunks
\* before the one it gave up on, however workers, lock and counter raced.
PaidIsAcknowledged ==
    failures = 0 =>
        \A w \in Workers, c \in 1..Chunks :
            paid[w][c] = IF Acknowledged(w, c) THEN 1 ELSE 0

\* "succeeded" is never said of a request with an unpaid chunk, even when
\* calls fail and answers are lost.
SucceededIsPaid ==
    \A w \in Workers : pc[w] = "succeeded" =>
        \A c \in 1..Chunks : paid[w][c] > 0

\* While the lock does not outlive its time, one worker at a time is between
\* taking a sequence number and learning what became of it.
OneSubmitter ==
    expiries = 0 =>
        \A v, w \in Workers :
            pc[v] \in Locked /\ pc[w] \in Locked => v = w

\* Every request ends, whatever the contention for the lock.
RequestEnds == \A w \in Workers : <>[](pc[w] \in Finished)

\* BATCH_PAYMENT_README: "Worker A: Lock -> seq+1 -> Build TX -> Submit": a
\* worker that has the account to itself submits the sequence number the
\* ledger expects.
SubmitsNextSequence ==
    \A w \in Workers : pc[w] = "submit" => TxSequence(w) = ledgerSeq + 1

------------------------------------------------------------------------------
(* Theorems, for every set of workers, number of chunks, number of attempts and *)
(* bound on what fails, expires or interferes.                                  *)

------------------------------------------------------------------------------
(* What the parts of a step do to the worker that takes it. *)

\* The other workers stay where they are.
OthersStay(w) ==
    \A v \in Workers \ {w} : pc'[v] = pc[v] /\ job'[v] = job[v]

Typed == pc' \in [Workers -> Labels] /\ job' \in [Workers -> Job]

\* What becomes of a job along the way is a job.
LEMMA Jobs ==
    ASSUME NEW j \in Job, NEW n \in Nat
    PROVE  /\ [j EXCEPT !.base = n] \in Job
           /\ [j EXCEPT !.offset = n] \in Job
           /\ [j EXCEPT !.done = TRUE] \in Job
  BY DEF Job

LEMMA Retried ==
    ASSUME NEW j \in Job, NEW n \in 1..MaxAttempts
    PROVE  [j EXCEPT !.attempts = n, !.base = 0, !.offset = 0] \in Job
  BY DEF Job

LEMMA Moves ==
    ASSUME TypeOK, NEW w \in Workers, NEW label \in Labels, NEW local \in Job,
           At(w, label, local)
    PROVE  pc'[w] = label /\ job'[w] = local /\ OthersStay(w) /\ Typed
  BY DEF At, TypeOK, OthersStay, Typed

\* A worker that goes on with its chunk settles nothing.
LEMMA GoesAlong ==
    ASSUME TypeOK, NEW w \in Workers,
           FetchSequence(w) \/ AcquireLock(w) \/ GetNextSequenceNumber(w)
           \/ GetNextFails(w) \/ SubmitTimesOut(w) \/ WorkerDies(w)
    PROVE  /\ OthersStay(w) /\ pc'[w] \notin {"reset", "succeeded"}
           /\ job'[w].chunk = job[w].chunk /\ job'[w].done = job[w].done
<1>1. PICK j \in Job : j = job[w]
  BY DEF TypeOK
<1>2. ledgerSeq \in Nat /\ counter + 1 \in Nat
  BY DEF TypeOK
<1>3. ASSUME NEW label \in Labels \ {"reset", "succeeded"}, NEW local \in Job,
             local.chunk = j.chunk, local.done = j.done, At(w, label, local)
      PROVE  /\ OthersStay(w) /\ pc'[w] \notin {"reset", "succeeded"}
             /\ job'[w].chunk = j.chunk /\ job'[w].done = j.done
  BY <1>3, Moves
<1>4. CASE FetchSequence(w)
  <2> DEFINE local == [j EXCEPT !.base = ledgerSeq]
  <2>1. local \in Job /\ local.chunk = j.chunk /\ local.done = j.done
    BY <1>2 DEF Job
  <2>2. At(w, "acquire", local)
    BY <1>1, <1>4 DEF FetchSequence
  <2> HIDE DEF local
  <2> QED BY <1>1, <1>3, <2>1, <2>2 DEF Labels, Locked
<1>5. CASE GetNextSequenceNumber(w)
  <2> DEFINE local == [j EXCEPT !.offset = counter + 1]
  <2>1. local \in Job /\ local.chunk = j.chunk /\ local.done = j.done
    BY <1>2 DEF Job
  <2>2. At(w, "submit", local)
    BY <1>1, <1>5 DEF GetNextSequenceNumber
  <2> HIDE DEF local
  <2> QED BY <1>1, <1>3, <2>1, <2>2 DEF Labels, Locked
<1>6. CASE AcquireLock(w) \/ GetNextFails(w) \/ SubmitTimesOut(w) \/ WorkerDies(w)
  <2>1. PICK label \in {"next", "release", "dead"} : At(w, label, j)
    BY <1>1, <1>6 DEF AcquireLock, GetNextFails, SubmitTimesOut, WorkerDies
  <2>2. label \in Labels
    BY DEF Labels, Locked, Finished
  <2> QED BY <1>1, <1>3, <2>1, <2>2
<1> QED BY <1>4, <1>5, <1>6

\* A failed attempt is tried again or gives the chunk up, and settles nothing.
LEMMA FailedAttempt ==
    ASSUME TypeOK, NEW w \in Workers, AttemptFails(w)
    PROVE  /\ pc'[w] \in {"fetch", "failed"}
           /\ job'[w].chunk = job[w].chunk /\ job'[w].done = job[w].done
           /\ OthersStay(w) /\ Typed
<1> DEFINE again == [job[w] EXCEPT !.attempts = @ + 1, !.base = 0, !.offset = 0]
<1>1. job[w] \in Job
  BY DEF TypeOK
<1>2. CASE job[w].attempts < MaxAttempts
  <2>1. again \in Job /\ again.chunk = job[w].chunk /\ again.done = job[w].done
    <3>1. job[w].attempts + 1 \in 1..MaxAttempts
      BY <1>1, <1>2, BatchAssumption DEF Job
    <3>2. again \in Job
      BY <1>1, <3>1, Retried
    <3>3. again.chunk = job[w].chunk /\ again.done = job[w].done
      BY <1>1 DEF Job
    <3> QED BY <3>2, <3>3
  <2>2. At(w, "fetch", again)
    BY <1>2 DEF AttemptFails
  <2> HIDE DEF again
  <2> QED BY <2>1, <2>2, Moves DEF Labels
<1>3. CASE ~(job[w].attempts < MaxAttempts)
  <2>1. At(w, "failed", job[w])
    BY <1>3 DEF AttemptFails
  <2> QED BY <1>1, <2>1, Moves DEF Labels, Finished
<1> QED BY <1>2, <1>3

\* A chunk that is done is followed by the next one, or is the last.
LEMMA EndedChunk ==
    ASSUME TypeOK, NEW w \in Workers, ChunkDone(w)
    PROVE  /\ \/ /\ pc'[w] = "fetch" /\ ~job'[w].done
                 /\ job'[w].chunk = job[w].chunk + 1
              \/ /\ pc'[w] = "succeeded" /\ job'[w] = job[w]
                 /\ job[w].chunk = Chunks
           /\ OthersStay(w) /\ Typed
<1> DEFINE next == [chunk |-> job[w].chunk + 1, attempts |-> 1,
                    base |-> 0, offset |-> 0, done |-> FALSE]
<1>1. job[w] \in Job
  BY DEF TypeOK
<1>2. CASE job[w].chunk < Chunks
  <2>1. next \in Job
    BY <1>1, <1>2, BatchAssumption DEF Job
  <2>2. At(w, "fetch", next)
    BY <1>2 DEF ChunkDone
  <2> QED BY <2>1, <2>2, Moves DEF Labels
<1>3. CASE ~(job[w].chunk < Chunks)
  <2>1. At(w, "succeeded", job[w]) /\ job[w].chunk = Chunks
    BY <1>1, <1>3, BatchAssumption DEF ChunkDone, Job
  <2> QED BY <1>1, <2>1, Moves DEF Labels, Finished
<1> QED BY <1>2, <1>3

\* A transaction that is applied is paid for once more, and no other is.
LEMMA Applied ==
    ASSUME TypeOK, NEW w \in Workers, NEW c \in 1..Chunks, Apply(w, c)
    PROVE  /\ ledgerSeq' \in Nat
           /\ paid' \in [Workers -> [1..Chunks -> Nat]]
           /\ paid'[w][c] = paid[w][c] + 1
           /\ \A v \in Workers, d \in 1..Chunks :
                  v # w \/ d # c => paid'[v][d] = paid[v][d]
<1>1. paid[w] \in [1..Chunks -> Nat] /\ paid[w][c] \in Nat
  BY DEF TypeOK
<1>2. /\ ledgerSeq' = ledgerSeq + 1
      /\ paid' = [paid EXCEPT ![w] = [paid[w] EXCEPT ![c] = paid[w][c] + 1]]
  BY DEF Apply
<1>3. /\ paid'[w] = [paid[w] EXCEPT ![c] = paid[w][c] + 1]
      /\ \A v \in Workers \ {w} : paid'[v] = paid[v]
      /\ paid'[w] \in [1..Chunks -> Nat]
      /\ paid' \in [Workers -> [1..Chunks -> Nat]]
  BY <1>1, <1>2 DEF TypeOK
<1>4. ledgerSeq' \in Nat
  BY <1>2 DEF TypeOK
<1>5. paid'[w][c] = paid[w][c] + 1
  BY <1>1, <1>3
<1>6. ASSUME NEW v \in Workers, NEW d \in 1..Chunks, v # w \/ d # c
      PROVE  paid'[v][d] = paid[v][d]
  BY <1>1, <1>3, <1>6
<1> QED BY <1>3, <1>4, <1>5, <1>6

------------------------------------------------------------------------------
(* Type correctness *)

LEMMA TypeInit == Init => TypeOK
  BY BatchAssumption DEF Init, TypeOK, Job, Labels, Finished, Locked

LEMMA TypeNext == TypeOK /\ [Next]_vars => TypeOK'
<1> SUFFICES ASSUME TypeOK, [Next]_vars PROVE TypeOK'
  OBVIOUS
<1>j. \A w \in Workers : job[w] \in Job
  BY DEF TypeOK
<1> USE DEF redis, chain
<1>1. ASSUME NEW w \in Workers, FetchSequence(w) PROVE TypeOK'
  <2>1. [job[w] EXCEPT !.base = ledgerSeq] \in Job
    <3>1. ledgerSeq \in Nat /\ job[w] \in Job
      BY DEF TypeOK
    <3> QED BY <3>1, Jobs
  <2>2. Typed
    BY <1>1, <2>1, Moves DEF FetchSequence, Labels
  <2> QED BY <1>1, <2>2 DEF TypeOK, Typed, FetchSequence
<1>2. ASSUME NEW w \in Workers, FetchFails(w) PROVE TypeOK'
  BY <1>2, FailedAttempt DEF TypeOK, Typed, FetchFails, Fail
<1>3. ASSUME NEW w \in Workers, AcquireLock(w) PROVE TypeOK'
  <2>1. Typed
    BY <1>3, <1>j, Moves DEF AcquireLock, Labels, Locked
  <2> QED BY <1>3, <2>1 DEF TypeOK, Typed, AcquireLock
<1>4. ASSUME NEW w \in Workers, AcquireFails(w) PROVE TypeOK'
  <2>1. Typed
    BY <1>4, FailedAttempt DEF AcquireFails
  <2> QED BY <1>4, <2>1 DEF TypeOK, Typed, AcquireFails, Fail
<1>5. ASSUME NEW w \in Workers, GetNextSequenceNumber(w) PROVE TypeOK'
  <2>1. [job[w] EXCEPT !.offset = counter + 1] \in Job
    <3>1. counter + 1 \in Nat /\ job[w] \in Job
      BY DEF TypeOK
    <3> QED BY <3>1, Jobs
  <2>2. Typed
    BY <1>5, <2>1, Moves DEF GetNextSequenceNumber, Labels, Locked
  <2> QED BY <1>5, <2>2 DEF TypeOK, Typed, GetNextSequenceNumber
<1>6. ASSUME NEW w \in Workers, GetNextFails(w) PROVE TypeOK'
  <2>1. Typed
    BY <1>6, <1>j, Moves DEF GetNextFails, Labels, Locked
  <2> QED BY <1>6, <2>1 DEF TypeOK, Typed, GetNextFails, Fail
<1>7. ASSUME NEW w \in Workers, Submit(w) PROVE TypeOK'
  <2>1. Typed
    BY <1>7, <1>j, Moves DEF Submit, Labels, Locked
  <2>2. ledgerSeq' \in Nat /\ paid' \in [Workers -> [1..Chunks -> Nat]]
    <3>1. job[w].chunk \in 1..Chunks
      BY <1>j DEF Job
    <3> QED BY <1>7, <3>1, Applied DEF Submit, TypeOK
  <2> QED BY <1>7, <2>1, <2>2 DEF TypeOK, Typed, Submit
<1>8. ASSUME NEW w \in Workers, SubmitTimesOut(w) PROVE TypeOK'
  <2>1. Typed
    BY <1>8, <1>j, Moves DEF SubmitTimesOut, Labels, Locked
  <2>2. pending' \subseteq [worker : Workers, chunk : 1..Chunks, seq : Nat]
    BY <1>8, <1>j DEF SubmitTimesOut, TypeOK, Job, TxSequence
  <2> QED BY <1>8, <2>1, <2>2 DEF TypeOK, Typed, SubmitTimesOut, Fail
<1>9. ASSUME NEW w \in Workers, ResetSequenceCounter(w) PROVE TypeOK'
  <2>1. [job[w] EXCEPT !.done = TRUE] \in Job
    BY <1>j, Jobs
  <2>2. Typed
    BY <1>9, <2>1, Moves DEF ResetSequenceCounter, Labels, Locked
  <2> QED BY <1>9, <2>2 DEF TypeOK, Typed, ResetSequenceCounter, Fail
<1>10. ASSUME NEW w \in Workers, ReleaseLock(w) PROVE TypeOK'
  <2>1. Typed
    BY <1>10, FailedAttempt, EndedChunk DEF ReleaseLock
  <2> QED BY <1>10, <2>1 DEF TypeOK, Typed, ReleaseLock, Fail
<1>11. ASSUME NEW w \in Workers, WorkerDies(w) PROVE TypeOK'
  <2>1. Typed
    BY <1>11, <1>j, Moves DEF WorkerDies, Labels, Finished
  <2> QED BY <1>11, <2>1 DEF TypeOK, Typed, WorkerDies, Fail
<1>12. ASSUME LockExpires PROVE TypeOK'
  BY <1>12 DEF LockExpires, Expire, TypeOK
<1>13. ASSUME CounterExpires PROVE TypeOK'
  BY <1>13 DEF CounterExpires, Expire, TypeOK
<1>14. ASSUME AppliesLate PROVE TypeOK'
  <2>1. PICK tx \in pending : Apply(tx.worker, tx.chunk)
    BY <1>14 DEF AppliesLate
  <2>2. tx.worker \in Workers /\ tx.chunk \in 1..Chunks
    BY DEF TypeOK
  <2>3. ledgerSeq' \in Nat /\ paid' \in [Workers -> [1..Chunks -> Nat]]
    BY <2>1, <2>2, Applied
  <2> QED BY <1>14, <2>3 DEF AppliesLate, TypeOK
<1>15. ASSUME OtherTransaction PROVE TypeOK'
  BY <1>15 DEF OtherTransaction, TypeOK
<1>16. CASE UNCHANGED vars
  BY <1>16 DEF vars, TypeOK
<1> QED
  BY <1>1, <1>2, <1>3, <1>4, <1>5, <1>6, <1>7, <1>8, <1>9, <1>10, <1>11, <1>12,
     <1>13, <1>14, <1>15, <1>16 DEF Next, Step

\* What the service, Redis and the ledger hold is always well-formed: a worker is
\* at one of its awaits and within its chunks and attempts.
THEOREM TypeCorrect == Spec => []TypeOK
  BY TypeInit, TypeNext, PTL DEF Spec

------------------------------------------------------------------------------
(* The lock.  While nothing expires, a worker that went past it holds it:    *)
(* a release that fails keeps it, and a worker that dies takes it along.     *)

HolderIsLocked ==
    expiries = 0 => \A w \in Workers : pc[w] \in Locked => lock = w

LEMMA HolderNext == TypeOK /\ HolderIsLocked /\ [Next]_vars => HolderIsLocked'
<1> SUFFICES ASSUME TypeOK, HolderIsLocked, [Next]_vars, expiries' = 0
             PROVE  \A w \in Workers : pc'[w] \in Locked => lock' = w
  BY DEF HolderIsLocked
<1>e. expiries = 0 /\ ~LockExpires /\ ~CounterExpires
  <2>1. expiries \in Nat
    BY DEF TypeOK
  <2>2. ~LockExpires /\ ~CounterExpires
    BY <2>1 DEF LockExpires, CounterExpires, Expire
  <2>3. expiries' = expiries
    BY <2>2 DEF Next, Step, vars, redis, chain, FetchSequence, FetchFails,
       AcquireLock, AcquireFails, GetNextSequenceNumber, GetNextFails, Submit,
       SubmitTimesOut, ResetSequenceCounter, ReleaseLock, WorkerDies,
       AppliesLate, OtherTransaction
  <2> QED BY <2>2, <2>3
<1>h. \A w \in Workers : pc[w] \in Locked => lock = w
  BY <1>e DEF HolderIsLocked
<1>j. \A w \in Workers : job[w] \in Job
  BY DEF TypeOK
<1> USE DEF redis, chain, Labels, Locked, Finished
<1>1. ASSUME NEW w \in Workers,
             FetchSequence(w) \/ FetchFails(w) \/ AcquireFails(w) \/ WorkerDies(w)
      PROVE  lock' = lock /\ pc'[w] \notin Locked /\ OthersStay(w)
  <2>1. CASE FetchFails(w) \/ AcquireFails(w)
    BY <2>1, FailedAttempt DEF FetchFails, AcquireFails
  <2>2. CASE FetchSequence(w) \/ WorkerDies(w)
    BY <2>2 DEF FetchSequence, WorkerDies, At, OthersStay, TypeOK
  <2> QED BY <1>1, <2>1, <2>2
<1>2. ASSUME NEW w \in Workers,
             GetNextSequenceNumber(w) \/ GetNextFails(w) \/ Submit(w)
             \/ SubmitTimesOut(w) \/ ResetSequenceCounter(w)
      PROVE  lock' = lock /\ pc[w] \in Locked /\ OthersStay(w)
  BY <1>2 DEF GetNextSequenceNumber, GetNextFails, Submit, SubmitTimesOut,
     ResetSequenceCounter, At, OthersStay, TypeOK
<1>3. ASSUME NEW w \in Workers, AcquireLock(w)
      PROVE  \A v \in Workers : pc'[v] \in Locked => lock' = v
  <2>1. lock = Nobody /\ lock' = w /\ OthersStay(w)
    BY <1>3 DEF AcquireLock, At, OthersStay, TypeOK
  <2> QED BY <1>h, <2>1, BatchAssumption DEF OthersStay
<1>4. ASSUME NEW w \in Workers, ReleaseLock(w)
      PROVE  \A v \in Workers : pc'[v] \in Locked => lock' = v
  <2>1. pc[w] \in Locked /\ pc'[w] \notin Locked /\ OthersStay(w)
    BY <1>4, FailedAttempt, EndedChunk DEF ReleaseLock
  <2>2. \A v \in Workers \ {w} : pc[v] \notin Locked
    BY <1>h, <2>1
  <2> QED BY <2>1, <2>2 DEF OthersStay
<1>5. CASE UNCHANGED <<lock, pc>>
  BY <1>h, <1>5
<1> QED
  <2>1. CASE \E w \in Workers : FetchSequence(w) \/ FetchFails(w)
                 \/ AcquireFails(w) \/ WorkerDies(w)
    BY <1>1, <1>h, <2>1 DEF OthersStay
  <2>2. CASE \E w \in Workers : GetNextSequenceNumber(w) \/ GetNextFails(w)
                 \/ Submit(w) \/ SubmitTimesOut(w) \/ ResetSequenceCounter(w)
    BY <1>2, <1>h, <2>2 DEF OthersStay
  <2> QED
    BY <1>e, <1>3, <1>4, <1>5, <2>1, <2>2
    DEF Next, Step, vars, AppliesLate, OtherTransaction

\* One worker at a time is between taking a sequence number and learning what
\* became of it.
THEOREM SubmitsAlone == Spec => []OneSubmitter
<1>1. Init => HolderIsLocked
  BY DEF Init, HolderIsLocked, Locked
<1>2. HolderIsLocked => OneSubmitter
  BY DEF HolderIsLocked, OneSubmitter
<1> QED BY <1>1, <1>2, TypeCorrect, HolderNext, PTL DEF Spec

------------------------------------------------------------------------------
(* Payments, whatever fails.  What lies behind a worker is paid for, and     *)
(* nothing is ever unpaid.                                                   *)

Behind(w) ==
    /\ \A c \in 1..Chunks : c < job[w].chunk => paid[w][c] > 0
    /\ pc[w] = "reset" \/ job[w].done => paid[w][job[w].chunk] > 0
    /\ pc[w] = "succeeded" => job[w].chunk = Chunks /\ job[w].done

PaidBehind == \A w \in Workers : Behind(w)

LEMMA PaidGrows ==
    TypeOK /\ [Next]_vars =>
        \A w \in Workers, c \in 1..Chunks : paid'[w][c] >= paid[w][c]
<1> SUFFICES ASSUME TypeOK, [Next]_vars
             PROVE  \A w \in Workers, c \in 1..Chunks : paid'[w][c] >= paid[w][c]
  OBVIOUS
<1>1. \A w \in Workers, c \in 1..Chunks : paid[w][c] \in Nat
  BY DEF TypeOK
<1>2. ASSUME NEW v \in Workers, NEW d \in 1..Chunks, Apply(v, d)
      PROVE  \A w \in Workers, c \in 1..Chunks : paid'[w][c] >= paid[w][c]
  BY <1>1, <1>2, Applied
<1>3. CASE UNCHANGED paid
  BY <1>1, <1>3
<1>4. ASSUME NEW w \in Workers, Submit(w), ~UNCHANGED paid
      PROVE  \E v \in Workers, d \in 1..Chunks : Apply(v, d)
  BY <1>4 DEF Submit, TypeOK, Job
<1>5. ASSUME AppliesLate
      PROVE  \E v \in Workers, d \in 1..Chunks : Apply(v, d)
  BY <1>5 DEF AppliesLate, TypeOK
<1>6. UNCHANGED paid \/ \E v \in Workers, d \in 1..Chunks : Apply(v, d)
  BY <1>4, <1>5 DEF Next, Step, vars, redis, chain, FetchSequence, FetchFails,
     AcquireLock, AcquireFails, GetNextSequenceNumber, GetNextFails,
     SubmitTimesOut, ResetSequenceCounter, ReleaseLock, WorkerDies,
     LockExpires, CounterExpires, OtherTransaction
<1> QED BY <1>2, <1>3, <1>6

LEMMA BehindNext == TypeOK /\ PaidBehind /\ [Next]_vars => PaidBehind'
<1> SUFFICES ASSUME TypeOK, PaidBehind, [Next]_vars PROVE PaidBehind'
  OBVIOUS
<1>t. /\ \A w \in Workers : job[w] \in Job /\ job[w].chunk \in 1..Chunks
      /\ \A w \in Workers, c \in 1..Chunks : paid[w][c] \in Nat
      /\ \A w \in Workers : job'[w].chunk \in 1..Chunks
      /\ \A w \in Workers, c \in 1..Chunks : paid'[w][c] \in Nat
  BY TypeNext DEF TypeOK, Job
<1>g. \A w \in Workers, c \in 1..Chunks : paid[w][c] > 0 => paid'[w][c] > 0
  BY <1>t, PaidGrows
<1>b. \A w \in Workers : Behind(w)
  BY DEF PaidBehind
\* A worker at rest
<1>s. ASSUME NEW w \in Workers, pc'[w] = pc[w], job'[w] = job[w]
      PROVE  Behind(w)'
  BY <1>b, <1>g, <1>s, <1>t DEF Behind
<1>o. ASSUME NEW w \in Workers, OthersStay(w), Behind(w)'
      PROVE  PaidBehind'
  BY <1>o, <1>s DEF OthersStay, PaidBehind
\* A worker that goes on with its chunk
<1>k. ASSUME NEW w \in Workers, pc'[w] \notin {"reset", "succeeded"},
             job'[w].chunk = job[w].chunk, job'[w].done = job[w].done
      PROVE  Behind(w)'
  BY <1>b, <1>g, <1>k, <1>t DEF Behind
<1> USE DEF redis, chain
<1>1. ASSUME NEW w \in Workers,
             FetchSequence(w) \/ AcquireLock(w) \/ GetNextSequenceNumber(w)
             \/ GetNextFails(w) \/ SubmitTimesOut(w) \/ WorkerDies(w)
      PROVE  PaidBehind'
  <2>1. /\ OthersStay(w)
        /\ pc'[w] \notin {"reset", "succeeded"}
        /\ job'[w].chunk = job[w].chunk /\ job'[w].done = job[w].done
    BY <1>1, GoesAlong
  <2> QED BY <1>k, <1>o, <2>1
<1>2. ASSUME NEW w \in Workers, FetchFails(w) \/ AcquireFails(w)
      PROVE  PaidBehind'
  <2>1. AttemptFails(w)
    BY <1>2 DEF FetchFails, AcquireFails
  <2> QED BY <1>k, <1>o, <2>1, FailedAttempt
<1>3. ASSUME NEW w \in Workers, Submit(w) PROVE PaidBehind'
  <2>1. OthersStay(w) /\ job'[w] = job[w] /\ pc'[w] \in {"reset", "release"}
    BY <1>3 DEF Submit, At, OthersStay, TypeOK
  <2>2. pc'[w] = "reset" => Apply(w, job[w].chunk)
    BY <1>3 DEF Submit, At, TypeOK
  <2>3. pc'[w] = "reset" => paid'[w][job[w].chunk] > 0
    BY <1>t, <2>2, Applied
  <2>4. Behind(w)'
    BY <1>b, <1>g, <1>t, <2>1, <2>3 DEF Behind
  <2> QED BY <1>o, <2>1, <2>4
<1>4. ASSUME NEW w \in Workers, ResetSequenceCounter(w) PROVE PaidBehind'
  <2>1. /\ OthersStay(w) /\ pc[w] = "reset" /\ pc'[w] = "release"
        /\ job'[w].chunk = job[w].chunk
    BY <1>4, <1>t DEF ResetSequenceCounter, At, OthersStay, TypeOK, Job
  <2>2. Behind(w)'
    BY <1>b, <1>g, <1>t, <2>1 DEF Behind
  <2> QED BY <1>o, <2>1, <2>2
<1>5. ASSUME NEW w \in Workers, ReleaseLock(w) PROVE PaidBehind'
  <2>1. CASE ~job[w].done
    <3>1. AttemptFails(w)
      BY <1>5, <2>1 DEF ReleaseLock
    <3> QED BY <1>k, <1>o, <3>1, FailedAttempt
  <2>2. CASE job[w].done
    <3>1. ChunkDone(w)
      BY <1>5, <2>2 DEF ReleaseLock
    <3>2. paid'[w][job[w].chunk] > 0
      BY <1>b, <1>g, <1>t, <2>2 DEF Behind
    <3>3. \/ /\ pc'[w] = "fetch" /\ ~job'[w].done
             /\ job'[w].chunk = job[w].chunk + 1
          \/ /\ pc'[w] = "succeeded" /\ job'[w] = job[w]
             /\ job[w].chunk = Chunks
      BY <3>1, EndedChunk
    <3>4. Behind(w)'
      BY <1>b, <1>g, <1>t, <2>2, <3>2, <3>3 DEF Behind
    <3> QED BY <1>o, <3>1, <3>4, EndedChunk
  <2> QED BY <2>1, <2>2
<1>6. CASE UNCHANGED <<pc, job>>
  BY <1>6, <1>s DEF PaidBehind
<1> QED
  BY <1>1, <1>2, <1>3, <1>4, <1>5, <1>6
  DEF Next, Step, vars, LockExpires, CounterExpires, AppliesLate, OtherTransaction

\* executeBatchInChunks: whatever fails, no request is reported a success with a
\* chunk unpaid.
THEOREM SuccessIsPaid == Spec => []SucceededIsPaid
<1>1. Init => PaidBehind
  BY BatchAssumption DEF Init, PaidBehind, Behind
<1>2. TypeOK /\ PaidBehind => SucceededIsPaid
  BY DEF TypeOK, Job, PaidBehind, Behind, SucceededIsPaid
<1> QED BY <1>1, <1>2, TypeCorrect, BehindNext, PTL DEF Spec

------------------------------------------------------------------------------
(* Payments, when no call fails: no transaction is left with Horizon, and    *)
(* each worker knows exactly what was paid.  That a done chunk is on its way *)
(* out is what keeps a retry from paying it again.                           *)

DoneIsLate(w) == job[w].done => pc[w] \in {"release", "succeeded"}

Exact(w) ==
    \A c \in 1..Chunks : paid[w][c] = IF Acknowledged(w, c) THEN 1 ELSE 0

PaidExactly ==
    failures = 0 => pending = {} /\ \A w \in Workers : DoneIsLate(w) /\ Exact(w)

LEMMA ExactNext == TypeOK /\ PaidExactly /\ [Next]_vars => PaidExactly'
<1> SUFFICES ASSUME TypeOK, PaidExactly, [Next]_vars, failures' = 0
             PROVE  pending' = {} /\ \A w \in Workers : (DoneIsLate(w) /\ Exact(w))'
  BY DEF PaidExactly
<1>t. /\ \A w \in Workers : job[w] \in Job /\ job[w].chunk \in 1..Chunks
      /\ failures \in Nat
  BY DEF TypeOK, Job
<1>f. ~Fail
  BY <1>t DEF Fail
<1> USE DEF redis, chain
<1>z. failures = 0
  BY <1>f DEF Next, Step, vars, FetchSequence, FetchFails, AcquireLock, AcquireFails,
     GetNextSequenceNumber, GetNextFails, Submit, SubmitTimesOut,
     ResetSequenceCounter, ReleaseLock, WorkerDies, LockExpires, CounterExpires,
     AppliesLate, OtherTransaction
<1>b. pending = {} /\ \A w \in Workers : DoneIsLate(w) /\ Exact(w)
  BY <1>z DEF PaidExactly
<1> DEFINE Keeps(w) == DoneIsLate(w)' /\ Exact(w)'
\* A worker at rest
<1>s. ASSUME NEW w \in Workers, pc'[w] = pc[w], job'[w] = job[w], paid'[w] = paid[w]
      PROVE  Keeps(w)
  BY <1>b, <1>s DEF DoneIsLate, Exact, Acknowledged
<1>o. ASSUME NEW w \in Workers, OthersStay(w), Keeps(w), pending' = pending,
             \A v \in Workers \ {w} : paid'[v] = paid[v]
      PROVE  pending' = {} /\ \A v \in Workers : Keeps(v)
  BY <1>b, <1>o, <1>s DEF OthersStay
\* A worker that goes on with a chunk that is not paid
<1>k. ASSUME NEW w \in Workers, pc[w] # "reset", pc'[w] # "reset", paid' = paid,
             job'[w].chunk = job[w].chunk, ~job[w].done, ~job'[w].done
      PROVE  Keeps(w)
  BY <1>b, <1>k, <1>t DEF DoneIsLate, Exact, Acknowledged
<1>1. ASSUME NEW w \in Workers,
             FetchSequence(w) \/ AcquireLock(w) \/ GetNextSequenceNumber(w)
      PROVE  pending' = {} /\ \A v \in Workers : Keeps(v)
  <2>1. /\ OthersStay(w) /\ pending' = pending /\ paid' = paid
        /\ pc[w] \in {"fetch", "acquire", "next"} /\ pc'[w] # "reset"
        /\ job'[w].chunk = job[w].chunk /\ job'[w].done = job[w].done
    BY <1>1, GoesAlong DEF FetchSequence, AcquireLock, GetNextSequenceNumber
  <2>2. ~job[w].done
    BY <1>b, <2>1 DEF DoneIsLate
  <2> QED BY <1>k, <1>o, <2>1, <2>2
<1>2. ASSUME NEW w \in Workers, AcquireFails(w)
      PROVE  pending' = {} /\ \A v \in Workers : Keeps(v)
  <2>1. AttemptFails(w) /\ pc[w] = "acquire" /\ pending' = pending /\ paid' = paid
    BY <1>2 DEF AcquireFails
  <2>2. ~job[w].done
    BY <1>b, <2>1 DEF DoneIsLate
  <2> QED BY <1>k, <1>o, <2>1, <2>2, FailedAttempt
<1>3. ASSUME NEW w \in Workers, Submit(w)
      PROVE  pending' = {} /\ \A v \in Workers : Keeps(v)
  <2>1. /\ OthersStay(w) /\ pending' = pending
        /\ job'[w] = job[w] /\ pc[w] = "submit"
    BY <1>3 DEF Submit, At, OthersStay, TypeOK
  <2>2. ~job[w].done
    BY <1>b, <2>1 DEF DoneIsLate
  <2>3. CASE pc'[w] = "reset" /\ Apply(w, job[w].chunk)
    <3>1. /\ paid'[w][job[w].chunk] = paid[w][job[w].chunk] + 1
          /\ \A v \in Workers, c \in 1..Chunks :
                 v # w \/ c # job[w].chunk => paid'[v][c] = paid[v][c]
          /\ paid' \in [Workers -> [1..Chunks -> Nat]]
      BY <1>t, <2>3, Applied
    <3>2. \A c \in 1..Chunks : Acknowledged(w, c) => c < job[w].chunk
      BY <2>1, <2>2 DEF Acknowledged
    <3>3. \A c \in 1..Chunks : Acknowledged(w, c)' <=> c <= job[w].chunk
      BY <1>t, <2>1, <2>3 DEF Acknowledged
    <3>4. Keeps(w)
      BY <1>b, <1>t, <2>1, <2>2, <3>1, <3>2, <3>3
      DEF DoneIsLate, Exact, Acknowledged
    <3>5. ASSUME NEW v \in Workers \ {w} PROVE paid'[v] = paid[v]
      BY <2>3 DEF Apply, TypeOK
    <3> QED BY <1>o, <2>1, <3>4, <3>5
  <2>4. CASE pc'[w] = "release" /\ UNCHANGED paid
    BY <1>k, <1>o, <2>1, <2>2, <2>4
  <2> QED BY <1>3, <2>3, <2>4 DEF Submit, At, TypeOK
<1>4. ASSUME NEW w \in Workers, ResetSequenceCounter(w)
      PROVE  pending' = {} /\ \A v \in Workers : Keeps(v)
  <2>1. /\ OthersStay(w) /\ pc[w] = "reset" /\ pc'[w] = "release" /\ job'[w].done
        /\ job'[w].chunk = job[w].chunk /\ pending' = pending /\ paid' = paid
    BY <1>4, <1>t DEF ResetSequenceCounter, At, OthersStay, TypeOK, Job
  <2>2. Keeps(w)
    BY <1>b, <2>1 DEF DoneIsLate, Exact, Acknowledged
  <2> QED BY <1>o, <2>1, <2>2
<1>5. ASSUME NEW w \in Workers, ReleaseLock(w)
      PROVE  pending' = {} /\ \A v \in Workers : Keeps(v)
  <2>0. pending' = pending /\ paid' = paid /\ pc[w] = "release"
    BY <1>5 DEF ReleaseLock
  <2>1. CASE ~job[w].done
    <3>1. AttemptFails(w)
      BY <1>5, <2>1 DEF ReleaseLock
    <3> QED BY <1>k, <1>o, <2>0, <2>1, <3>1, FailedAttempt
  <2>2. CASE job[w].done
    <3>1. ChunkDone(w)
      BY <1>5, <2>2 DEF ReleaseLock
    <3>2. \/ /\ pc'[w] = "fetch" /\ ~job'[w].done
             /\ job'[w].chunk = job[w].chunk + 1
          \/ /\ pc'[w] = "succeeded" /\ job'[w] = job[w]
      BY <3>1, EndedChunk
    <3>3. \A c \in 1..Chunks : Acknowledged(w, c)' <=> Acknowledged(w, c)
      BY <1>t, <2>0, <2>2, <3>2 DEF Acknowledged
    <3>4. Keeps(w)
      BY <1>b, <2>0, <3>2, <3>3 DEF DoneIsLate, Exact
    <3> QED BY <1>o, <2>0, <3>1, <3>4, EndedChunk
  <2> QED BY <2>1, <2>2
<1>6. CASE UNCHANGED <<pc, job, pending, paid>>
  BY <1>6, <1>b, <1>s
<1>7. ~AppliesLate
  BY <1>b DEF AppliesLate
<1> QED
  BY <1>f, <1>1, <1>2, <1>3, <1>4, <1>5, <1>6, <1>7
  DEF Next, Step, vars, FetchFails, GetNextFails, SubmitTimesOut, WorkerDies,
      LockExpires, CounterExpires, OtherTransaction

\* executeBatchInChunks: while no call fails, a request has paid exactly what it
\* was told of, however workers, lock and counter race.
THEOREM PaymentsAreExact == Spec => []PaidIsAcknowledged
<1>1. Init => PaidExactly
  BY BatchAssumption
  DEF Init, PaidExactly, DoneIsLate, Exact, Acknowledged
<1>2. PaidExactly => PaidIsAcknowledged
  BY DEF PaidExactly, Exact, PaidIsAcknowledged
<1> QED BY <1>1, <1>2, TypeCorrect, ExactNext, PTL DEF Spec
==============================================================================
