------------------------ MODULE MultisigCoordination ------------------------
(***************************************************************************)
(* The multisig transaction coordinator of backend/src/services/           *)
(* multisig.service.ts: one multisigTransaction row, its multisigSignature *)
(* rows, the HTTP requests that read and write them, the periodic          *)
(* reconciliation, and the Stellar network the transaction is sent to.     *)
(*                                                                         *)
(* Every `await` of the code is a point where other requests run, so an    *)
(* action is the code between two awaits; the request's position is        *)
(* pc[p], and loc[p] keeps what it read before an await and uses after it. *)
(* The transactions of the service do not share state: one is modelled.    *)
(***************************************************************************)
EXTENDS Integers, FiniteSets

CONSTANTS
    Signers,              \* requiredSigners of the transaction
    Faulty,               \* signers of whom a caller may upload a signature that
                          \* does not verify
    Requests,             \* HTTP requests that can be in flight together
    Scheduler,            \* the reconciliation job (may be one of Requests
                          \* when a run wants everything serialised)
    LedgerThreshold,      \* signatures the Stellar account demands (external)
    MaxThresholdUpdates,  \* bound on accepted updateThreshold calls
    MaxFailures           \* bound on crashed requests and failed DB writes

Procs == Requests \cup {Scheduler}
Sizes == 0..Cardinality(Signers)

\* COLLECTING_STATUSES and the MultisigStatus enum; "NONE": no row yet.
Collecting == {"PENDING", "PARTIALLY_SIGNED", "READY"}
Statuses == Collecting \cup {"SUBMITTED", "FAILED", "EXPIRED", "NONE"}

\* Types of the multisigNotification rows.
NotificationTypes ==
    {"SIGNATURE_REQUIRED", "SIGNATURE_ADDED", "THRESHOLD_REACHED",
     "SUBMITTED", "FAILED"}

Labels ==
    {"idle", "notifyRequired", "createSignature", "rereadRow", "writeSigned",
     "notifySigned", "writeThreshold", "reconcile", "writeReconciled",
     "markExpired", "notifyReady", "loadEnvelope", "post", "writeSubmitted",
     "notifySubmitted", "writeFailed", "notifyFailed"}

ASSUME SignersAssumption ==
    IsFiniteSet(Signers) /\ Signers # {} /\ Faulty \subseteq Signers
ASSUME BoundsAssumption ==
    /\ LedgerThreshold \in Nat \ {0}
    /\ MaxThresholdUpdates \in Nat
    /\ MaxFailures \in Nat

VARIABLES
    row,            \* the multisigTransaction row
    signatures,     \* signers with a multisigSignature row
    notified,       \* types of the multisigNotification rows written so far
    wallets,        \* signers who have signed the transaction in their wallet
                    \* (no one knows but they and, in the end, the ledger)
    ledger,         \* the Stellar network: "open", "queued" or "applied"
    expired,        \* expiresAt <= new Date()
    pc, loc,        \* the requests
    lowest,         \* ghost: the lowest threshold the row ever had
    updates, failures

dbVars == <<row, signatures, notified>>
ghostVars == <<lowest, updates, failures>>
vars == <<row, signatures, notified, wallets, ledger, expired, pc, loc,
          lowest, updates, failures>>

\* What a request holds across awaits: the signer and envelope it was called
\* with, the envelope it read, and the values it will write.
NoSigner == "none"
NoLocal ==
    [signer |-> NoSigner, upload |-> {}, base |-> {},
     count |-> 0, status |-> "NONE", threshold |-> 1, wasReady |-> FALSE]

\* The decorated signatures of an envelope: each bears the hint of a signer's key, and
\* verifies against that key or does not.
Decorated == [hint : Signers, valid : BOOLEAN]
Hints(envelope) == {d.hint : d \in envelope}
Verified(envelope) == {s \in Signers : [hint |-> s, valid |-> TRUE] \in envelope}

RowType ==
    [status : Statuses, threshold : 1..Cardinality(Signers),
     currentSignatures : Sizes, envelope : SUBSET Decorated]
LocalType ==
    [signer : Signers \cup {NoSigner}, upload : SUBSET Decorated,
     base : SUBSET Decorated, count : Sizes, status : Statuses,
     threshold : 1..Cardinality(Signers), wasReady : BOOLEAN]

TypeOK ==
    /\ row \in RowType
    /\ signatures \subseteq Signers
    /\ notified \subseteq NotificationTypes
    /\ wallets \subseteq Signers
    /\ ledger \in {"open", "queued", "applied"}
    /\ expired \in BOOLEAN
    /\ pc \in [Procs -> Labels]
    /\ loc \in [Procs -> LocalType]
    /\ lowest \in 1..Cardinality(Signers)
    /\ updates \in 0..MaxThresholdUpdates
    /\ failures \in 0..MaxFailures

Init ==
    /\ row = [status |-> "NONE", threshold |-> Cardinality(Signers),
              currentSignatures |-> 0, envelope |-> {}]
    /\ signatures = {}
    /\ notified = {}
    /\ wallets = {}
    /\ ledger = "open"
    /\ expired = FALSE
    /\ pc = [p \in Procs |-> "idle"]
    /\ loc = [p \in Procs |-> NoLocal]
    /\ lowest = Cardinality(Signers)
    /\ updates = 0
    /\ failures = 0

------------------------------------------------------------------------------
Evaluate_OffByOne(count, threshold) ==   \* mutant
    CASE count + 1 >= threshold -> "READY"
      [] count + 1 < threshold /\ count > 0 -> "PARTIALLY_SIGNED"
      [] OTHER -> "PENDING"

\* evaluateStatus
Evaluate(count, threshold) ==
    CASE count >= threshold -> "READY"
      [] count < threshold /\ count > 0 -> "PARTIALLY_SIGNED"
      [] OTHER -> "PENDING"

\* countValidSignatures
CountValid(signed) == Cardinality(signed \cap Signers)

Merge_Replaces(base, new) == new   \* mutant

\* mergeSignatures: the union of two envelopes' signatures
Merge(base, new) == base \cup new

Goto(p, label) == pc' = [pc EXCEPT ![p] = label]
Keep(p, label, local) ==
    /\ Goto(p, label)
    /\ loc' = [loc EXCEPT ![p] = local]
Finish(p) == Keep(p, "idle", NoLocal)

Notify(p, type, label) ==
    /\ notified' = notified \cup {type}
    /\ Goto(p, label)
    /\ UNCHANGED <<row, signatures, loc>>

External == UNCHANGED <<wallets, ledger, expired>>

------------------------------------------------------------------------------
(* createTransaction *)

CreateTransaction_AnyThreshold(p) ==   \* mutant: threshold < 1 accepted
    /\ pc[p] = "idle"
    /\ row.status = "NONE"
    /\ \E t \in Sizes :
        /\ row' = [row EXCEPT !.status = "PENDING", !.threshold = t]
        /\ lowest' = t
    /\ Goto(p, "notifyRequired")
    /\ UNCHANGED <<signatures, notified, loc, updates, failures>>
    /\ External

CreateTransaction(p) ==
    /\ pc[p] = "idle"
    /\ row.status = "NONE"
    /\ \E t \in 1..Cardinality(Signers) :
        /\ row' = [row EXCEPT !.status = "PENDING", !.threshold = t]
        /\ lowest' = t
    /\ Goto(p, "notifyRequired")
    /\ UNCHANGED <<signatures, notified, loc, updates, failures>>
    /\ External

NotifyRequiredSigners(p) ==
    /\ pc[p] = "notifyRequired"
    /\ Notify(p, "SIGNATURE_REQUIRED", "idle")
    /\ External /\ UNCHANGED ghostVars

------------------------------------------------------------------------------
(* addSignature *)

\* extractSignature: a signature with the signer's hint is taken for the signer's; it is
\* not verified.
Signs(upload, s) == s \in Hints(upload)

\* From the first findUnique to the next await.  The uploaded envelope
\* may carry whatever signatures there are, of others too.
AddSignature(p, s, upload) ==
    /\ pc[p] = "idle"
    /\ row.status \in {"PENDING", "PARTIALLY_SIGNED"}
    /\ IF expired
       THEN /\ Goto(p, "markExpired")
            /\ UNCHANGED loc
       ELSE /\ s \notin signatures
            /\ Signs(upload, s)
            /\ Keep(p, "createSignature",
                    [NoLocal EXCEPT !.signer = s, !.upload = upload,
                                    !.base = row.envelope])
    /\ UNCHANGED <<dbVars, ghostVars>>
    /\ External

\* prisma.multisigSignature.create: (transaction, signer) is unique.
CreateSignature(p) ==
    /\ pc[p] = "createSignature"
    /\ IF loc[p].signer \in signatures
       THEN /\ Finish(p)
            /\ UNCHANGED signatures
       ELSE /\ signatures' = signatures \cup {loc[p].signer}
            /\ Goto(p, "rereadRow")
            /\ UNCHANGED loc
    /\ UNCHANGED <<row, notified, ghostVars>>
    /\ External

RereadRow_Increments(p) ==   \* mutant: signatures.length + 1
    /\ pc[p] = "rereadRow"
    /\ LET n == Cardinality(signatures) + 1
       IN Keep(p, "writeSigned",
               [loc[p] EXCEPT !.count = n,
                              !.status = Evaluate(n, row.threshold)])
    /\ UNCHANGED <<dbVars, ghostVars>>
    /\ External

\* The fresh read, and the count and status computed from it.
RereadRow(p) ==
    /\ pc[p] = "rereadRow"
    /\ LET n == CountValid(signatures \cup {loc[p].signer})
       IN Keep(p, "writeSigned",
               [loc[p] EXCEPT !.count = n,
                              !.status = Evaluate(n, row.threshold)])
    /\ UNCHANGED <<dbVars, ghostVars>>
    /\ External

\* The update: the envelope is merged into the one of the FIRST read.
WriteSigned(p) ==
    /\ pc[p] = "writeSigned"
    /\ row' = [row EXCEPT !.currentSignatures = loc[p].count,
                          !.status = loc[p].status,
                          !.envelope = Merge(loc[p].base, loc[p].upload)]
    /\ Goto(p, "notifySigned")
    /\ UNCHANGED <<signatures, notified, loc, ghostVars>>
    /\ External

NotifySignatureAdded(p) ==
    /\ pc[p] = "notifySigned"
    /\ notified' = IF Signers = {loc[p].signer} THEN notified
                   ELSE notified \cup {"SIGNATURE_ADDED"}
    /\ Keep(p, IF loc[p].status = "READY" THEN "notifyReady" ELSE "idle",
            NoLocal)
    /\ UNCHANGED <<row, signatures, ghostVars>>
    /\ External

------------------------------------------------------------------------------
(* updateThreshold and reconcileTransaction *)

UpdateThreshold(p, n) ==
    /\ pc[p] = "idle"
    /\ row.status \in Collecting
    /\ updates < MaxThresholdUpdates
    /\ updates' = updates + 1
    /\ Keep(p, "writeThreshold", [NoLocal EXCEPT !.threshold = n])
    /\ UNCHANGED <<dbVars, lowest, failures>>
    /\ External

WriteThreshold(p) ==
    /\ pc[p] = "writeThreshold"
    /\ row' = [row EXCEPT !.threshold = loc[p].threshold]
    /\ lowest' = IF loc[p].threshold < lowest THEN loc[p].threshold ELSE lowest
    /\ Keep(p, "reconcile", NoLocal)
    /\ UNCHANGED <<signatures, notified, updates, failures>>
    /\ External

ReconcileTransaction_CountOnly(p) ==   \* mutant: status not compared
    /\ \/ pc[p] = "reconcile"
       \/ pc[p] = "idle" /\ p = Scheduler /\ row.status \in Collecting
    /\ LET n == CountValid(signatures)
       IN IF row.status \notin Collecting \/ n = row.currentSignatures
          THEN Finish(p)
          ELSE Keep(p, "writeReconciled",
                    [NoLocal EXCEPT !.count = n,
                                    !.status = Evaluate(n, row.threshold),
                                    !.wasReady = row.status = "READY"])
    /\ UNCHANGED <<dbVars, ghostVars>>
    /\ External

\* Reached from updateThreshold, and from the scheduler's tick.
ReconcileTransaction(p) ==
    /\ \/ pc[p] = "reconcile"
       \/ pc[p] = "idle" /\ p = Scheduler /\ row.status \in Collecting
    /\ LET n  == CountValid(signatures)
           st == Evaluate(n, row.threshold)
       IN IF row.status \notin Collecting
          THEN Finish(p)
          ELSE IF expired
          THEN Keep(p, "markExpired", NoLocal)
          ELSE IF st = row.status /\ n = row.currentSignatures
          THEN Finish(p)
          ELSE Keep(p, "writeReconciled",
                    [NoLocal EXCEPT !.count = n, !.status = st,
                                    !.wasReady = row.status = "READY"])
    /\ UNCHANGED <<dbVars, ghostVars>>
    /\ External

WriteReconciled(p) ==
    /\ pc[p] = "writeReconciled"
    /\ row' = [row EXCEPT !.status = loc[p].status,
                          !.currentSignatures = loc[p].count]
    /\ Keep(p, IF loc[p].status = "READY" /\ ~loc[p].wasReady
               THEN "notifyReady" ELSE "idle", NoLocal)
    /\ UNCHANGED <<signatures, notified, ghostVars>>
    /\ External

\* markAsExpired: unconditional
MarkAsExpired(p) ==
    /\ pc[p] = "markExpired"
    /\ row' = [row EXCEPT !.status = "EXPIRED"]
    /\ Finish(p)
    /\ UNCHANGED <<signatures, notified, ghostVars>>
    /\ External

------------------------------------------------------------------------------
(* submitTransaction and attemptSubmission *)

NotifyThresholdReached(p) ==
    /\ pc[p] = "notifyReady"
    /\ Notify(p, "THRESHOLD_REACHED", "loadEnvelope")
    /\ External /\ UNCHANGED ghostVars

SubmitTransaction_AnyStatus(p) ==   \* mutant: READY not required
    /\ pc[p] = "idle"
    /\ row.status # "NONE"
    /\ Goto(p, "loadEnvelope")
    /\ UNCHANGED <<dbVars, loc, ghostVars>>
    /\ External

SubmitTransaction(p) ==
    /\ pc[p] = "idle"
    /\ row.status = "READY"
    /\ Goto(p, "loadEnvelope")
    /\ UNCHANGED <<dbVars, loc, ghostVars>>
    /\ External

\* attemptSubmission's own read: the status is not looked at again.
LoadEnvelope(p) ==
    /\ pc[p] = "loadEnvelope"
    /\ Keep(p, "post", [NoLocal EXCEPT !.base = row.envelope])
    /\ UNCHANGED <<dbVars, ghostVars>>
    /\ External

\* The network does verify the signatures.
Authorized(envelope) == Cardinality(Verified(envelope)) >= LedgerThreshold

Post_TimeoutIsSuccess(p) ==   \* mutant: any answer is a success
    /\ pc[p] = "post"
    /\ \/ /\ Authorized(loc[p].base)
          /\ ledger' \in {"queued", "applied"}
       \/ UNCHANGED ledger
    /\ Keep(p, "writeSubmitted", NoLocal)
    /\ UNCHANGED <<dbVars, wallets, expired, ghostVars>>

\* server.submitTransaction: the network takes the transaction and says so,
\* takes it (or keeps it for a later ledger) but the answer is an error or a
\* timeout, or refuses it.  A transaction that was applied is not applied
\* again; submitting it again answers with its result or with an error.
Post(p) ==
    /\ pc[p] = "post"
    /\ \/ /\ Authorized(loc[p].base) \/ ledger = "applied"
          /\ ledger' = "applied"
          /\ Keep(p, "writeSubmitted", NoLocal)
       \/ /\ Authorized(loc[p].base) /\ ledger # "applied"
          /\ ledger' \in {"queued", "applied"}
          /\ Keep(p, "writeFailed", NoLocal)
       \/ /\ UNCHANGED ledger
          /\ Keep(p, "writeFailed", NoLocal)
    /\ UNCHANGED <<dbVars, wallets, expired, ghostVars>>

WriteSubmitted(p) ==
    /\ pc[p] = "writeSubmitted"
    /\ row' = [row EXCEPT !.status = "SUBMITTED"]
    /\ Goto(p, "notifySubmitted")
    /\ UNCHANGED <<signatures, notified, loc, ghostVars>>
    /\ External

NotifySubmitted(p) ==
    /\ pc[p] = "notifySubmitted"
    /\ notified' = notified \cup {"SUBMITTED"}
    /\ Finish(p)
    /\ UNCHANGED <<row, signatures, ghostVars>>
    /\ External

\* A write inside the try fails: the same catch as for a refused submission.
SubmissionWriteFails(p) ==
    /\ pc[p] \in {"writeSubmitted", "notifySubmitted"}
    /\ failures < MaxFailures
    /\ failures' = failures + 1
    /\ Goto(p, "writeFailed")
    /\ UNCHANGED <<dbVars, loc, lowest, updates>>
    /\ External

WriteFailed(p) ==
    /\ pc[p] = "writeFailed"
    /\ row' = [row EXCEPT !.status = "FAILED"]
    /\ Goto(p, "notifyFailed")
    /\ UNCHANGED <<signatures, notified, loc, ghostVars>>
    /\ External

NotifyFailed(p) ==
    /\ pc[p] = "notifyFailed"
    /\ notified' = notified \cup {"FAILED"}
    /\ Finish(p)
    /\ UNCHANGED <<row, signatures, ghostVars>>
    /\ External

------------------------------------------------------------------------------
(* The environment *)

\* The signatures that a caller can put into an envelope: nobody but the signer's wallet
\* makes one that verifies.
Available == {d \in Decorated : d.hint \in IF d.valid THEN wallets ELSE Faulty}

\* A signer signs in the wallet.
SignInWallet(s) ==
    /\ row.status # "NONE"
    /\ s \notin wallets
    /\ wallets' = wallets \cup {s}
    /\ UNCHANGED <<dbVars, ledger, expired, pc, loc, ghostVars>>

NetworkApplies ==
    /\ ledger = "queued"
    /\ ledger' = "applied"
    /\ UNCHANGED <<dbVars, wallets, expired, pc, loc, ghostVars>>

TimePasses ==
    /\ row.status # "NONE"
    /\ ~expired
    /\ expired' = TRUE
    /\ UNCHANGED <<dbVars, wallets, ledger, pc, loc, ghostVars>>

\* The process dies, or a database call outside attemptSubmission's try
\* throws: the request ends where it is.
RequestDies(p) ==
    /\ pc[p] # "idle"
    /\ failures < MaxFailures
    /\ failures' = failures + 1
    /\ Finish(p)
    /\ UNCHANGED <<dbVars, lowest, updates>>
    /\ External

------------------------------------------------------------------------------
\* What a request that has started does next, until it ends.
Continue(p) ==
    \/ NotifyRequiredSigners(p)
    \/ CreateSignature(p) \/ RereadRow(p) \/ WriteSigned(p)
    \/ NotifySignatureAdded(p)
    \/ WriteThreshold(p) \/ WriteReconciled(p)
    \/ MarkAsExpired(p)
    \/ NotifyThresholdReached(p) \/ LoadEnvelope(p) \/ Post(p)
    \/ WriteSubmitted(p) \/ NotifySubmitted(p)
    \/ WriteFailed(p) \/ NotifyFailed(p)

Start(p) ==
    \/ CreateTransaction(p)
    \/ \E s \in Signers, upload \in SUBSET Available : AddSignature(p, s, upload)
    \/ \E n \in 1..Cardinality(Signers) : UpdateThreshold(p, n)
    \/ SubmitTransaction(p)

Next ==
    \/ \E p \in Requests : Start(p)
    \/ \E p \in Procs :
        \/ Continue(p)
        \/ ReconcileTransaction(p)
        \/ SubmissionWriteFails(p)
        \/ RequestDies(p)
    \/ \E s \in Signers : SignInWallet(s)
    \/ NetworkApplies
    \/ TimePasses

Spec == Init /\ [][Next]_vars

\* Node resumes a request whose await has settled, and node-cron ticks.
Fairness ==
    /\ \A p \in Procs : WF_vars(Continue(p))
    /\ \A p \in Procs : WF_vars(ReconcileTransaction(p))

FairSpec == Spec /\ Fairness

------------------------------------------------------------------------------
(* Properties *)

\* The row says SUBMITTED, and the signers are told so, only of a transaction
\* the network has applied.
SubmittedIsApplied ==
    row.status = "SUBMITTED" \/ "SUBMITTED" \in notified => ledger = "applied"

\* No stale count makes the row claim more signatures than it has rows for.
CountIsBacked == row.currentSignatures <= Cardinality(signatures)

\* Whatever the interleaving of signers, threshold changes and the scheduler,
\* a row is READY, and a transaction reaches the network, only after the service has
\* taken a signature of as many signers as the lowest threshold ever configured demands.
ReadyIsEarned ==
    row.status = "READY" \/ ledger # "open"
        => Cardinality(signatures) >= lowest

\* The row's count and status agree with its signatures and threshold.
RowAccurate ==
    /\ row.currentSignatures = CountValid(signatures)
    /\ row.status = Evaluate(CountValid(signatures), row.threshold)

\* multisig-reconcile.scheduler.ts: whatever dies or goes stale on the way, a
\* row that is still collecting ends up, for good, with the count and status
\* its signatures and threshold call for.
DriftIsRepaired == <>[](row.status \in Collecting => RowAccurate)

\* docs: "Merge signatures into a single transaction envelope".
NoSignatureLost ==
    (\A p \in Procs : pc[p] \notin {"rereadRow", "writeSigned"}) =>
        signatures \subseteq Hints(row.envelope)

\* With signers one at a time and none dying, the envelope keeps every
\* signature, whatever the scheduler does meanwhile.
SerialEnvelopeComplete == failures = 0 => NoSignatureLost

\* docs: "FAILED: Submission to Stellar network failed".
FailedMeansNotPaid == row.status = "FAILED" => ledger # "applied"

\* docs: "Validate signatures against required signers": whoever has a signature on
\* record has signed.
SignaturesAreValidated == signatures \subseteq wallets

\* docs: "EXPIRED: Transaction expired before reaching threshold".
ExpiredBeforeThreshold == [][row.status = "READY" => row'.status # "EXPIRED"]_vars

\* The coordinator keeps the promise to the signers, as far as it goes: a signature that
\* was taken need not verify.
Promise == INSTANCE MultisigPromise
    WITH taken <- signatures, signed <- wallets, quorum <- lowest, paid <- ledger = "applied",
         told <- notified \cap {"SUBMITTED", "FAILED"}

KeepsPromise == Promise!Spec
==============================================================================
