--------------------- MODULE MultisigCoordination_proofs ---------------------
(* Theorems about MultisigCoordination, for every set of signers, number of *)
(* overlapping requests, ledger threshold and failure bound.                *)
EXTENDS MultisigCoordination, FiniteSetTheorems, TLAPS

(* Cardinalities of sets of signers are sizes, and grow with the sets.      *)
LEMMA SignerSets ==
    /\ Cardinality(Signers) \in Nat \ {0}
    /\ \A S \in SUBSET Signers : Cardinality(S) \in Sizes
    /\ \A S, T \in SUBSET Signers :
          S \subseteq T => Cardinality(S) <= Cardinality(T)
<1>1. /\ Cardinality(Signers) \in Nat
      /\ Cardinality(Signers) # 0
  BY SignersAssumption, FS_CardinalityType, FS_EmptySet
<1>2. ASSUME NEW S \in SUBSET Signers
      PROVE  IsFiniteSet(S) /\ Cardinality(S) \in Sizes
  <2>1. IsFiniteSet(S) /\ Cardinality(S) <= Cardinality(Signers)
    BY SignersAssumption, FS_Subset
  <2>2. Cardinality(S) \in Nat
    BY <2>1, FS_CardinalityType
  <2> QED BY <1>1, <2>1, <2>2 DEF Sizes
<1>3. ASSUME NEW S \in SUBSET Signers, NEW T \in SUBSET Signers,
             S \subseteq T
      PROVE  Cardinality(S) <= Cardinality(T)
  BY <1>2, <1>3, FS_Subset
<1> QED BY <1>1, <1>2, <1>3

(* countValidSignatures returns a size, the number of signatures when they   *)
(* are all of required signers.                                             *)
LEMMA CountValidSize ==
    ASSUME NEW S
    PROVE  /\ CountValid(S) \in Sizes
           /\ S \subseteq Signers => CountValid(S) = Cardinality(S)
<1>1. S \cap Signers \in SUBSET Signers
  OBVIOUS
<1>2. S \subseteq Signers => S \cap Signers = S
  OBVIOUS
<1> QED BY <1>1, <1>2, SignerSets DEF CountValid

(* evaluateStatus answers with a collecting status, READY exactly when the  *)
(* count has reached the threshold.                                         *)
LEMMA EvaluateReady ==
    ASSUME NEW n \in Sizes, NEW t \in 1..Cardinality(Signers)
    PROVE  /\ Evaluate(n, t) \in Collecting
           /\ Evaluate(n, t) \in Statuses \ {"SUBMITTED"}
           /\ Evaluate(n, t) = "READY" <=> n >= t
  BY SignerSets DEF Evaluate, Collecting, Statuses, Sizes

------------------------------------------------------------------------------
(* Type correctness.  A request that is adding a signature knows its signer. *)

SignerKnown ==
    \A p \in Procs : pc[p] \in {"createSignature", "rereadRow"} =>
        loc[p].signer \in Signers

TypeInv == TypeOK /\ SignerKnown

LEMMA NoLocalType == NoLocal \in LocalType
  BY SignerSets DEF NoLocal, LocalType, Sizes, Statuses, Collecting

LEMMA TypeInit == Init => TypeInv
<1> SUFFICES ASSUME Init PROVE TypeInv
  OBVIOUS
<1>1. row \in RowType
  BY SignerSets DEF Init, RowType, Statuses, Sizes
<1>2. loc \in [Procs -> LocalType]
  BY NoLocalType DEF Init
<1>3. pc \in [Procs -> Labels] /\ SignerKnown
  BY DEF Init, Labels, SignerKnown
<1>4. /\ updates \in 0..MaxThresholdUpdates
      /\ failures \in 0..MaxFailures
      /\ lowest \in 1..Cardinality(Signers)
  BY SignerSets, BoundsAssumption DEF Init
<1>5. /\ signatures \subseteq Signers /\ wallets \subseteq Signers
      /\ notified \subseteq NotificationTypes
      /\ ledger \in {"open", "queued", "applied"} /\ expired \in BOOLEAN
  BY DEF Init
<1> QED
  BY <1>1, <1>2, <1>3, <1>4, <1>5 DEF TypeInv, TypeOK

(* One step per action of the module.                                       *)
LEMMA TypeNext == TypeInv /\ [Next]_vars => TypeInv'
<1> SUFFICES ASSUME TypeInv, [Next]_vars PROVE TypeInv'
  OBVIOUS
<1> USE SignerSets, NoLocalType DEF TypeInv, TypeOK, SignerKnown
<1> USE DEF Keep, Goto, Finish, External, Labels, ghostVars, dbVars
<1>1. ASSUME NEW p \in Procs, CreateTransaction(p)
       PROVE  TypeInv'
  <2>1. PICK t \in 1..Cardinality(Signers) :
            /\ row' = [row EXCEPT !.status = "PENDING", !.threshold = t] /\ lowest' = t
    BY <1>1 DEF CreateTransaction
  <2> DEFINE u == [row EXCEPT !.status = "PENDING"]
             v == [u EXCEPT !.threshold = t]
  <2>2. u \in RowType
    BY DEF Statuses, Collecting, RowType
  <2>3. v \in RowType
    <3> HIDE DEF u
    <3> QED BY <2>2 DEF RowType
  <2>4. row' = v
    BY <2>1, Zenon
  <2>5. /\ pc' = [pc EXCEPT ![p] = "notifyRequired"]
        /\ UNCHANGED <<loc, signatures, notified, wallets, ledger, expired, updates,
                       failures>>
    BY <1>1 DEF CreateTransaction
  <2> HIDE DEF v
  <2> QED BY <2>1, <2>3, <2>4, <2>5
<1>2. ASSUME NEW p \in Procs, NotifyRequiredSigners(p)
       PROVE  TypeInv'
  BY <1>2 DEF NotifyRequiredSigners, Notify, NotificationTypes
<1>3. ASSUME NEW p \in Procs, CreateSignature(p)
       PROVE  TypeInv'
  BY <1>3 DEF CreateSignature
<1>4. ASSUME NEW p \in Procs, RereadRow(p)
       PROVE  TypeInv'
  <2> DEFINE n == CountValid(signatures \cup {loc[p].signer})
             new == [loc[p] EXCEPT !.count = n,
                                   !.status = Evaluate(n, row.threshold)]
  <2>1. n \in Sizes
    BY CountValidSize
  <2>2. Evaluate(n, row.threshold) \in Statuses
    BY <2>1, EvaluateReady DEF RowType
  <2>3. new \in LocalType
    BY <2>1, <2>2 DEF LocalType
  <2>4. /\ loc' = [loc EXCEPT ![p] = new]
        /\ pc' = [pc EXCEPT ![p] = "writeSigned"]
        /\ UNCHANGED <<row, signatures, notified, wallets, ledger, expired,
                      lowest, updates, failures>>
    BY <1>4 DEF RereadRow
  <2> HIDE DEF new
  <2> QED BY <2>3, <2>4
<1>5. ASSUME NEW p \in Procs, WriteSigned(p)
       PROVE  TypeInv'
  BY <1>5 DEF WriteSigned, RowType, LocalType, Merge
<1>6. ASSUME NEW p \in Procs, NotifySignatureAdded(p)
       PROVE  TypeInv'
  BY <1>6 DEF NotifySignatureAdded, NotificationTypes
<1>7. ASSUME NEW p \in Procs, WriteThreshold(p)
       PROVE  TypeInv'
  BY <1>7 DEF WriteThreshold, RowType, LocalType
<1>8. ASSUME NEW p \in Procs, ReconcileTransaction(p)
       PROVE  TypeInv'
  <2> DEFINE n == CountValid(signatures)
             st == Evaluate(n, row.threshold)
             new == [NoLocal EXCEPT !.count = n, !.status = st,
                                    !.wasReady = row.status = "READY"]
  <2>1. n \in Sizes
    BY CountValidSize
  <2>2. st \in Statuses
    BY <2>1, EvaluateReady DEF RowType
  <2>3. new \in LocalType
    BY <2>1, <2>2 DEF LocalType
  <2>4. /\ \/ loc' = [loc EXCEPT ![p] = NoLocal]
           \/ loc' = [loc EXCEPT ![p] = new]
        /\ \E l \in {"idle", "markExpired", "writeReconciled"} :
              pc' = [pc EXCEPT ![p] = l]
        /\ UNCHANGED <<row, signatures, notified, wallets, ledger, expired,
                      lowest, updates, failures>>
    BY <1>8 DEF ReconcileTransaction
  <2> HIDE DEF new
  <2> QED BY <2>3, <2>4
<1>9. ASSUME NEW p \in Procs, WriteReconciled(p)
       PROVE  TypeInv'
  BY <1>9 DEF WriteReconciled, RowType, LocalType
<1>10. ASSUME NEW p \in Procs, MarkAsExpired(p)
       PROVE  TypeInv'
  BY <1>10 DEF MarkAsExpired, RowType, Statuses
<1>11. ASSUME NEW p \in Procs, NotifyThresholdReached(p)
       PROVE  TypeInv'
  BY <1>11 DEF NotifyThresholdReached, Notify, NotificationTypes
<1>12. ASSUME NEW p \in Procs, SubmitTransaction(p)
       PROVE  TypeInv'
  BY <1>12 DEF SubmitTransaction
<1>13. ASSUME NEW p \in Procs, LoadEnvelope(p)
       PROVE  TypeInv'
  <2>1. [NoLocal EXCEPT !.base = row.envelope] \in LocalType
    BY DEF LocalType, RowType
  <2> QED BY <1>13, <2>1 DEF LoadEnvelope
<1>14. ASSUME NEW p \in Procs, Post(p)
       PROVE  TypeInv'
  BY <1>14 DEF Post
<1>15. ASSUME NEW p \in Procs, WriteSubmitted(p)
       PROVE  TypeInv'
  BY <1>15 DEF WriteSubmitted, RowType, Statuses
<1>16. ASSUME NEW p \in Procs, NotifySubmitted(p)
       PROVE  TypeInv'
  BY <1>16 DEF NotifySubmitted, NotificationTypes
<1>17. ASSUME NEW p \in Procs, SubmissionWriteFails(p)
       PROVE  TypeInv'
  BY <1>17, BoundsAssumption DEF SubmissionWriteFails
<1>18. ASSUME NEW p \in Procs, WriteFailed(p)
       PROVE  TypeInv'
  BY <1>18 DEF WriteFailed, RowType, Statuses
<1>19. ASSUME NEW p \in Procs, NotifyFailed(p)
       PROVE  TypeInv'
  BY <1>19 DEF NotifyFailed, NotificationTypes
<1>20. ASSUME NEW p \in Procs, RequestDies(p)
       PROVE  TypeInv'
  BY <1>20, BoundsAssumption DEF RequestDies
<1>21. ASSUME NEW p \in Procs, NEW s \in Signers, NEW upload \in SUBSET Available,
              AddSignature(p, s, upload)
       PROVE  TypeInv'
  <2>1. [NoLocal EXCEPT !.signer = s, !.upload = upload,
                        !.base = row.envelope] \in LocalType
    BY DEF LocalType, RowType, Available
  <2>2. [NoLocal EXCEPT !.signer = s, !.upload = upload,
                        !.base = row.envelope].signer \in Signers
    BY DEF NoLocal
  <2>3. PICK new \in LocalType :
            new = [NoLocal EXCEPT !.signer = s, !.upload = upload, !.base = row.envelope]
            /\ new.signer \in Signers
    BY <2>1, <2>2
  <2>4. UNCHANGED <<row, signatures, notified, wallets, ledger, expired, lowest,
                    updates, failures>>
    BY <1>21 DEF AddSignature
  <2>5. \/ pc' = [pc EXCEPT ![p] = "markExpired"] /\ loc' = loc
        \/ pc' = [pc EXCEPT ![p] = "createSignature"] /\ loc' = [loc EXCEPT ![p] = new]
    BY <1>21, <2>3, Zenon DEF AddSignature
  <2>6. CASE pc' = [pc EXCEPT ![p] = "markExpired"] /\ loc' = loc
    BY <2>4, <2>6
  <2>7. CASE pc' = [pc EXCEPT ![p] = "createSignature"] /\ loc' = [loc EXCEPT ![p] = new]
    BY <2>3, <2>4, <2>7
  <2> QED BY <2>5, <2>6, <2>7
<1>22. ASSUME NEW p \in Procs, NEW n \in 1..Cardinality(Signers),
              UpdateThreshold(p, n)
       PROVE  TypeInv'
  <2>1. [NoLocal EXCEPT !.threshold = n] \in LocalType
    BY DEF LocalType
  <2> QED BY <1>22, <2>1, BoundsAssumption DEF UpdateThreshold
<1>23. ASSUME NEW s \in Signers, SignInWallet(s)
       PROVE  TypeInv'
  BY <1>23 DEF SignInWallet
<1>24. ASSUME NetworkApplies
       PROVE  TypeInv'
  BY <1>24 DEF NetworkApplies
<1>25. ASSUME TimePasses
       PROVE  TypeInv'
  BY <1>25 DEF TimePasses
<1>26. ASSUME UNCHANGED vars
       PROVE  TypeInv'
  BY <1>26 DEF vars
<1> QED
  BY <1>1, <1>2, <1>3, <1>4, <1>5, <1>6, <1>7, <1>8, <1>9, <1>10, <1>11, <1>12, <1>13,
     <1>14, <1>15, <1>16, <1>17, <1>18, <1>19, <1>20, <1>21, <1>22, <1>23, <1>24, <1>25, <1>26
     DEF Next, Start, Continue, Procs

(* Every reachable state is well typed.                                     *)
THEOREM TypeCorrect == Spec => []TypeOK
<1>1. TypeInv => TypeOK
  BY DEF TypeInv
<1> QED BY TypeInit, TypeNext, <1>1, PTL DEF Spec

------------------------------------------------------------------------------
(* SUBMITTED is truthful.  A request that is about to report success has    *)
(* been answered by the network, and no request carries SUBMITTED across an *)
(* await as a status computed from signatures.                              *)

SubmittedInv ==
    /\ SubmittedIsApplied
    /\ \A p \in Procs :
          /\ pc[p] \in {"writeSubmitted", "notifySubmitted"} => ledger = "applied"
          /\ loc[p].status # "SUBMITTED"

LEMMA SubmittedInit == Init => SubmittedInv
  BY DEF Init, SubmittedInv, SubmittedIsApplied, NoLocal

LEMMA SubmittedNext ==
    TypeInv /\ SubmittedInv /\ [Next]_vars => SubmittedInv'
<1> SUFFICES ASSUME TypeInv, SubmittedInv, [Next]_vars PROVE SubmittedInv'
  OBVIOUS
<1>0. NoLocal.status # "SUBMITTED"
  BY DEF NoLocal
<1> USE DEF TypeInv, TypeOK, SubmittedInv, SubmittedIsApplied
<1> USE DEF Keep, Goto, Finish, External, ghostVars, dbVars
<1>1. ASSUME NEW p \in Procs, CreateTransaction(p)
       PROVE  SubmittedInv'
  BY <1>0, <1>1 DEF CreateTransaction, RowType
<1>2. ASSUME NEW p \in Procs, NotifyRequiredSigners(p)
       PROVE  SubmittedInv'
  BY <1>0, <1>2 DEF NotifyRequiredSigners, Notify
<1>3. ASSUME NEW p \in Procs, CreateSignature(p)
       PROVE  SubmittedInv'
  BY <1>0, <1>3 DEF CreateSignature
<1>4. ASSUME NEW p \in Procs, RereadRow(p)
       PROVE  SubmittedInv'
  <2> DEFINE n == CountValid(signatures \cup {loc[p].signer})
             new == [loc[p] EXCEPT !.count = n,
                                   !.status = Evaluate(n, row.threshold)]
  <2>1. Evaluate(n, row.threshold) # "SUBMITTED"
    BY CountValidSize, EvaluateReady DEF RowType
  <2>2. new.status # "SUBMITTED"
    BY <2>1 DEF LocalType
  <2>3. /\ loc' = [loc EXCEPT ![p] = new]
        /\ pc' = [pc EXCEPT ![p] = "writeSigned"]
        /\ UNCHANGED <<row, notified, ledger>>
    BY <1>4 DEF RereadRow
  <2> HIDE DEF new
  <2> QED BY <2>2, <2>3
<1>5. ASSUME NEW p \in Procs, WriteSigned(p)
       PROVE  SubmittedInv'
  BY <1>0, <1>5 DEF WriteSigned, RowType
<1>6. ASSUME NEW p \in Procs, NotifySignatureAdded(p)
       PROVE  SubmittedInv'
  BY <1>0, <1>6 DEF NotifySignatureAdded
<1>7. ASSUME NEW p \in Procs, WriteThreshold(p)
       PROVE  SubmittedInv'
  BY <1>0, <1>7 DEF WriteThreshold, RowType
<1>8. ASSUME NEW p \in Procs, ReconcileTransaction(p)
       PROVE  SubmittedInv'
  <2> DEFINE n == CountValid(signatures)
             st == Evaluate(n, row.threshold)
             new == [NoLocal EXCEPT !.count = n, !.status = st,
                                    !.wasReady = row.status = "READY"]
  <2>1. st # "SUBMITTED"
    BY CountValidSize, EvaluateReady DEF RowType
  <2>2. new.status # "SUBMITTED"
    BY <2>1 DEF NoLocal
  <2>3. /\ \/ loc' = [loc EXCEPT ![p] = NoLocal]
           \/ loc' = [loc EXCEPT ![p] = new]
        /\ \E l \in {"idle", "markExpired", "writeReconciled"} :
              pc' = [pc EXCEPT ![p] = l]
        /\ UNCHANGED <<row, notified, ledger>>
    BY <1>8 DEF ReconcileTransaction
  <2> HIDE DEF new
  <2> QED BY <1>0, <2>2, <2>3
<1>9. ASSUME NEW p \in Procs, WriteReconciled(p)
       PROVE  SubmittedInv'
  BY <1>0, <1>9 DEF WriteReconciled, RowType
<1>10. ASSUME NEW p \in Procs, MarkAsExpired(p)
       PROVE  SubmittedInv'
  BY <1>0, <1>10 DEF MarkAsExpired, RowType
<1>11. ASSUME NEW p \in Procs, NotifyThresholdReached(p)
       PROVE  SubmittedInv'
  BY <1>0, <1>11 DEF NotifyThresholdReached, Notify
<1>12. ASSUME NEW p \in Procs, SubmitTransaction(p)
       PROVE  SubmittedInv'
  BY <1>0, <1>12 DEF SubmitTransaction
<1>13. ASSUME NEW p \in Procs, LoadEnvelope(p)
       PROVE  SubmittedInv'
  <2>1. [NoLocal EXCEPT !.base = row.envelope].status # "SUBMITTED"
    BY DEF NoLocal
  <2> QED BY <1>13, <2>1 DEF LoadEnvelope
<1>14. ASSUME NEW p \in Procs, Post(p)
       PROVE  SubmittedInv'
  BY <1>0, <1>14 DEF Post
<1>15. ASSUME NEW p \in Procs, WriteSubmitted(p)
       PROVE  SubmittedInv'
  BY <1>0, <1>15 DEF WriteSubmitted
<1>16. ASSUME NEW p \in Procs, NotifySubmitted(p)
       PROVE  SubmittedInv'
  BY <1>0, <1>16 DEF NotifySubmitted
<1>17. ASSUME NEW p \in Procs, SubmissionWriteFails(p)
       PROVE  SubmittedInv'
  BY <1>0, <1>17 DEF SubmissionWriteFails
<1>18. ASSUME NEW p \in Procs, WriteFailed(p)
       PROVE  SubmittedInv'
  BY <1>0, <1>18 DEF WriteFailed, RowType
<1>19. ASSUME NEW p \in Procs, NotifyFailed(p)
       PROVE  SubmittedInv'
  BY <1>0, <1>19 DEF NotifyFailed
<1>20. ASSUME NEW p \in Procs, RequestDies(p)
       PROVE  SubmittedInv'
  BY <1>0, <1>20 DEF RequestDies
<1>21. ASSUME NEW p \in Procs, NEW s \in Signers, NEW upload \in SUBSET Available,
              AddSignature(p, s, upload)
       PROVE  SubmittedInv'
  <2>1. [NoLocal EXCEPT !.signer = s, !.upload = upload,
                        !.base = row.envelope].status # "SUBMITTED"
    BY DEF NoLocal
  <2> QED BY <1>21, <2>1 DEF AddSignature
<1>22. ASSUME NEW p \in Procs, NEW n \in 1..Cardinality(Signers),
              UpdateThreshold(p, n)
       PROVE  SubmittedInv'
  <2>1. [NoLocal EXCEPT !.threshold = n].status # "SUBMITTED"
    BY DEF NoLocal
  <2> QED BY <1>22, <2>1 DEF UpdateThreshold
<1>23. ASSUME NEW s \in Signers, SignInWallet(s)
       PROVE  SubmittedInv'
  BY <1>0, <1>23 DEF SignInWallet
<1>24. ASSUME NetworkApplies
       PROVE  SubmittedInv'
  BY <1>0, <1>24 DEF NetworkApplies
<1>25. ASSUME TimePasses
       PROVE  SubmittedInv'
  BY <1>0, <1>25 DEF TimePasses
<1>26. ASSUME UNCHANGED vars
       PROVE  SubmittedInv'
  BY <1>26 DEF vars
<1> QED
  BY <1>1, <1>2, <1>3, <1>4, <1>5, <1>6, <1>7, <1>8, <1>9, <1>10, <1>11, <1>12, <1>13,
     <1>14, <1>15, <1>16, <1>17, <1>18, <1>19, <1>20, <1>21, <1>22, <1>23, <1>24, <1>25, <1>26
     DEF Next, Start, Continue, Procs

(* The row says SUBMITTED, and the signers are told SUBMITTED, only of a    *)
(* transaction the network has applied, whatever requests overlap or die.   *)
THEOREM SubmittedCorrect == Spec => []SubmittedIsApplied
<1>1. SubmittedInv => SubmittedIsApplied
  BY DEF SubmittedInv
<1> QED
  BY TypeInit, TypeNext, SubmittedInit, SubmittedNext, <1>1, PTL DEF Spec

------------------------------------------------------------------------------
(* READY is earned.  Counts and statuses computed from a read may be stale   *)
(* when they are written, but signatures are never removed and lowest never  *)
(* rises, so what was enough when it was counted is enough for ever.         *)

Earned == Cardinality(signatures) >= lowest

EarnedInv ==
    /\ CountIsBacked
    /\ ReadyIsEarned
    /\ lowest <= row.threshold
    /\ row.status = "NONE" => lowest = Cardinality(Signers)
    /\ \A p \in Procs :
          /\ pc[p] # "idle" => row.status # "NONE"
          /\ pc[p] \in {"notifyReady", "loadEnvelope", "post"} => Earned
          /\ pc[p] = "rereadRow" => loc[p].signer \in signatures
          /\ pc[p] \in {"writeSigned", "notifySigned", "writeReconciled"} =>
                /\ loc[p].count <= Cardinality(signatures)
                /\ loc[p].status \in Collecting
                /\ loc[p].status = "READY" => Earned

LEMMA EarnedInit == Init => EarnedInv
<1> SUFFICES ASSUME Init PROVE EarnedInv
  OBVIOUS
<1>1. Cardinality(signatures) = 0 /\ row.currentSignatures = 0
  BY FS_EmptySet DEF Init
<1>2. /\ row.status = "NONE" /\ lowest = row.threshold
      /\ lowest = Cardinality(Signers) /\ ledger = "open"
  BY DEF Init
<1>3. \A p \in Procs : pc[p] = "idle"
  BY DEF Init
<1> QED
  BY <1>1, <1>2, <1>3, SignerSets DEF EarnedInv, CountIsBacked, ReadyIsEarned

LEMMA EarnedNext ==
    TypeInv /\ EarnedInv /\ [Next]_vars => EarnedInv'
<1> SUFFICES ASSUME TypeInv, EarnedInv, [Next]_vars PROVE EarnedInv'
  OBVIOUS
<1>0. /\ Cardinality(Signers) \in Nat \ {0}
      /\ Cardinality(signatures) \in Nat
      /\ row.threshold \in 1..Cardinality(Signers)
      /\ row.currentSignatures \in Nat
      /\ lowest \in 1..Cardinality(Signers)
  BY SignerSets DEF TypeInv, TypeOK, RowType, Sizes
<1> USE <1>0 DEF TypeInv, TypeOK, EarnedInv, CountIsBacked, ReadyIsEarned, Earned
<1> USE DEF Keep, Goto, Finish, External, ghostVars, dbVars
<1>1. ASSUME NEW p \in Procs, CreateTransaction(p)
       PROVE  EarnedInv'
  <2>1. PICK t \in 1..Cardinality(Signers) :
          /\ row' = [row EXCEPT !.status = "PENDING", !.threshold = t]
          /\ lowest' = t
    BY <1>1 DEF CreateTransaction
  <2>2. /\ row'.status = "PENDING" /\ row'.threshold = t
        /\ row'.currentSignatures = row.currentSignatures
    BY <2>1 DEF RowType
  <2>3. /\ pc' = [pc EXCEPT ![p] = "notifyRequired"]
        /\ UNCHANGED <<signatures, loc, ledger>>
        /\ row.status = "NONE"
    BY <1>1 DEF CreateTransaction
  <2>4. lowest' <= lowest /\ lowest' = row'.threshold
    BY <2>1, <2>2, <2>3
  <2> QED BY <2>2, <2>3, <2>4
<1>2. ASSUME NEW p \in Procs, NotifyRequiredSigners(p)
       PROVE  EarnedInv'
  BY <1>2 DEF NotifyRequiredSigners, Notify
<1>3. ASSUME NEW p \in Procs, CreateSignature(p)
       PROVE  EarnedInv'
  <2>1. CASE loc[p].signer \in signatures
    BY <1>3, <2>1 DEF CreateSignature
  <2>2. CASE loc[p].signer \notin signatures
    <3>1. /\ signatures' = signatures \cup {loc[p].signer}
          /\ pc' = [pc EXCEPT ![p] = "rereadRow"]
          /\ UNCHANGED <<row, loc, ledger, lowest>>
      BY <1>3, <2>2 DEF CreateSignature
    <3>2. signatures' \in SUBSET Signers
      BY <1>3, <3>1 DEF CreateSignature, SignerKnown
    <3>3. /\ Cardinality(signatures') \in Nat
          /\ Cardinality(signatures) <= Cardinality(signatures')
      BY <3>1, <3>2, SignerSets DEF Sizes
    <3>4. EarnedInv!1' /\ EarnedInv!2' /\ EarnedInv!3' /\ EarnedInv!4'
      BY <3>1, <3>3
    <3>5. row.status # "NONE"
      BY <1>3 DEF CreateSignature
    <3>6. EarnedInv!5'
      BY <3>1, <3>3, <3>5 DEF LocalType, Sizes
    <3> QED BY <3>4, <3>6
  <2> QED BY <2>1, <2>2
<1>4. ASSUME NEW p \in Procs, RereadRow(p)
       PROVE  EarnedInv'
  <2> DEFINE n == CountValid(signatures \cup {loc[p].signer})
             new == [loc[p] EXCEPT !.count = n,
                                   !.status = Evaluate(n, row.threshold)]
  <2>1. signatures \cup {loc[p].signer} = signatures
    BY <1>4 DEF RereadRow
  <2>2. n = Cardinality(signatures) /\ n \in Sizes
    BY <2>1, CountValidSize
  <2>3. /\ Evaluate(n, row.threshold) \in Collecting
        /\ Evaluate(n, row.threshold) = "READY" => n >= row.threshold
    BY <2>2, EvaluateReady
  <2>4. /\ new.count <= Cardinality(signatures)
        /\ new.status \in Collecting
        /\ new.status = "READY" => Cardinality(signatures) >= lowest
    BY <2>2, <2>3 DEF LocalType
  <2>5. /\ loc' = [loc EXCEPT ![p] = new]
        /\ pc' = [pc EXCEPT ![p] = "writeSigned"]
        /\ UNCHANGED <<row, signatures, ledger, lowest>>
        /\ row.status # "NONE"
    BY <1>4 DEF RereadRow
  <2> HIDE DEF new
  <2> QED BY <2>4, <2>5
<1>5. ASSUME NEW p \in Procs, WriteSigned(p)
       PROVE  EarnedInv'
  <2>1. /\ row'.status = loc[p].status
        /\ row'.currentSignatures = loc[p].count
        /\ row'.threshold = row.threshold
    BY <1>5 DEF WriteSigned, RowType
  <2>2. /\ loc[p].status \in Collecting
        /\ loc[p].count <= Cardinality(signatures)
        /\ loc[p].status = "READY" => Cardinality(signatures) >= lowest
    BY <1>5 DEF WriteSigned
  <2>3. UNCHANGED <<signatures, ledger, lowest>>
    BY <1>5 DEF WriteSigned
  <2>4. \/ loc' = loc /\ pc' = [pc EXCEPT ![p] = "notifySigned"]
       \/ /\ loc' = [loc EXCEPT ![p] = NoLocal]
          /\ \/ pc' = [pc EXCEPT ![p] = "idle"]
             \/ pc' = [pc EXCEPT ![p] = "notifyReady"]
                 /\ loc[p].status = "READY"
    BY <1>5 DEF WriteSigned
  <2> QED BY <2>1, <2>2, <2>3, <2>4 DEF Collecting
<1>6. ASSUME NEW p \in Procs, NotifySignatureAdded(p)
       PROVE  EarnedInv'
  <2>1. /\ UNCHANGED <<row, signatures, ledger, lowest>>
        /\ loc' = [loc EXCEPT ![p] = NoLocal]
        /\ \/ pc' = [pc EXCEPT ![p] = "idle"]
           \/ pc' = [pc EXCEPT ![p] = "notifyReady"] /\ loc[p].status = "READY"
        /\ pc[p] = "notifySigned"
    BY <1>6 DEF NotifySignatureAdded
  <2> QED BY <2>1
<1>7. ASSUME NEW p \in Procs, WriteThreshold(p)
       PROVE  EarnedInv'
  <2>1. /\ row'.threshold = loc[p].threshold
        /\ row'.status = row.status
        /\ row'.currentSignatures = row.currentSignatures
        /\ row.status # "NONE"
    BY <1>7 DEF WriteThreshold, RowType
  <2>2. loc[p].threshold \in 1..Cardinality(Signers)
    BY DEF LocalType
  <2>3. lowest' \in Int /\ lowest' <= lowest /\ lowest' <= row'.threshold
    BY <1>7, <2>1, <2>2 DEF WriteThreshold
  <2>4. /\ pc' = [pc EXCEPT ![p] = "reconcile"]
        /\ loc' = [loc EXCEPT ![p] = NoLocal]
        /\ UNCHANGED <<signatures, ledger>>
    BY <1>7 DEF WriteThreshold
  <2> QED BY <2>1, <2>3, <2>4
<1>8. ASSUME NEW p \in Procs, ReconcileTransaction(p)
       PROVE  EarnedInv'
  <2> DEFINE n == CountValid(signatures)
             st == Evaluate(n, row.threshold)
             new == [NoLocal EXCEPT !.count = n, !.status = st,
                                    !.wasReady = row.status = "READY"]
  <2>1. n = Cardinality(signatures) /\ n \in Sizes
    BY CountValidSize
  <2>2. st \in Collecting /\ (st = "READY" => n >= row.threshold)
    BY <2>1, EvaluateReady
  <2>3. /\ new.count <= Cardinality(signatures)
        /\ new.status \in Collecting
        /\ new.status = "READY" => Cardinality(signatures) >= lowest
    BY <2>1, <2>2 DEF NoLocal
  <2>4. /\ \/ /\ loc' = [loc EXCEPT ![p] = NoLocal]
              /\ \E l \in {"idle", "markExpired"} : pc' = [pc EXCEPT ![p] = l]
           \/ /\ loc' = [loc EXCEPT ![p] = new]
              /\ pc' = [pc EXCEPT ![p] = "writeReconciled"]
        /\ UNCHANGED <<row, signatures, ledger, lowest>>
        /\ row.status # "NONE"
    BY <1>8 DEF ReconcileTransaction, Collecting
  <2> HIDE DEF new
  <2> QED BY <2>3, <2>4
<1>9. ASSUME NEW p \in Procs, WriteReconciled(p)
       PROVE  EarnedInv'
  <2>1. /\ row'.status = loc[p].status
        /\ row'.currentSignatures = loc[p].count
        /\ row'.threshold = row.threshold
    BY <1>9 DEF WriteReconciled, RowType
  <2>2. /\ loc[p].status \in Collecting
        /\ loc[p].count <= Cardinality(signatures)
        /\ loc[p].status = "READY" => Cardinality(signatures) >= lowest
    BY <1>9 DEF WriteReconciled
  <2>3. UNCHANGED <<signatures, ledger, lowest>>
    BY <1>9 DEF WriteReconciled
  <2>4. \/ loc' = loc /\ pc' = [pc EXCEPT ![p] = "notifySigned"]
       \/ /\ loc' = [loc EXCEPT ![p] = NoLocal]
          /\ \/ pc' = [pc EXCEPT ![p] = "idle"]
             \/ pc' = [pc EXCEPT ![p] = "notifyReady"]
                 /\ loc[p].status = "READY"
    BY <1>9 DEF WriteReconciled
  <2> QED BY <2>1, <2>2, <2>3, <2>4 DEF Collecting
<1>10. ASSUME NEW p \in Procs, MarkAsExpired(p)
       PROVE  EarnedInv'
  <2>1. /\ row'.status \notin {"NONE", "READY"}
        /\ row'.threshold = row.threshold
        /\ row'.currentSignatures = row.currentSignatures
    BY <1>10 DEF MarkAsExpired, RowType
  <2> QED BY <1>10, <2>1 DEF MarkAsExpired
<1>11. ASSUME NEW p \in Procs, NotifyThresholdReached(p)
       PROVE  EarnedInv'
  BY <1>11 DEF NotifyThresholdReached, Notify
<1>12. ASSUME NEW p \in Procs, SubmitTransaction(p)
       PROVE  EarnedInv'
  BY <1>12 DEF SubmitTransaction, Collecting
<1>13. ASSUME NEW p \in Procs, LoadEnvelope(p)
       PROVE  EarnedInv'
  BY <1>13 DEF LoadEnvelope, Collecting
<1>14. ASSUME NEW p \in Procs, Post(p)
       PROVE  EarnedInv'
  BY <1>14 DEF Post
<1>15. ASSUME NEW p \in Procs, WriteSubmitted(p)
       PROVE  EarnedInv'
  <2>1. /\ row'.status \notin {"NONE", "READY"}
        /\ row'.threshold = row.threshold
        /\ row'.currentSignatures = row.currentSignatures
    BY <1>15 DEF WriteSubmitted, RowType
  <2> QED BY <1>15, <2>1 DEF WriteSubmitted
<1>16. ASSUME NEW p \in Procs, NotifySubmitted(p)
       PROVE  EarnedInv'
  BY <1>16 DEF NotifySubmitted
<1>17. ASSUME NEW p \in Procs, SubmissionWriteFails(p)
       PROVE  EarnedInv'
  BY <1>17 DEF SubmissionWriteFails
<1>18. ASSUME NEW p \in Procs, WriteFailed(p)
       PROVE  EarnedInv'
  <2>1. /\ row'.status \notin {"NONE", "READY"}
        /\ row'.threshold = row.threshold
        /\ row'.currentSignatures = row.currentSignatures
    BY <1>18 DEF WriteFailed, RowType
  <2> QED BY <1>18, <2>1 DEF WriteFailed
<1>19. ASSUME NEW p \in Procs, NotifyFailed(p)
       PROVE  EarnedInv'
  BY <1>19 DEF NotifyFailed
<1>20. ASSUME NEW p \in Procs, RequestDies(p)
       PROVE  EarnedInv'
  BY <1>20 DEF RequestDies
<1>21. ASSUME NEW p \in Procs, NEW s \in Signers, NEW upload \in SUBSET Available,
              AddSignature(p, s, upload)
       PROVE  EarnedInv'
  BY <1>21 DEF AddSignature, Collecting
<1>22. ASSUME NEW p \in Procs, NEW n \in 1..Cardinality(Signers),
              UpdateThreshold(p, n)
       PROVE  EarnedInv'
  BY <1>22 DEF UpdateThreshold, Collecting
<1>23. ASSUME NEW s \in Signers, SignInWallet(s)
       PROVE  EarnedInv'
  BY <1>23 DEF SignInWallet
<1>24. ASSUME NetworkApplies
       PROVE  EarnedInv'
  BY <1>24 DEF NetworkApplies
<1>25. ASSUME TimePasses
       PROVE  EarnedInv'
  BY <1>25 DEF TimePasses
<1>26. ASSUME UNCHANGED vars
       PROVE  EarnedInv'
  BY <1>26 DEF vars
<1> QED
  BY <1>1, <1>2, <1>3, <1>4, <1>5, <1>6, <1>7, <1>8, <1>9, <1>10, <1>11, <1>12, <1>13,
     <1>14, <1>15, <1>16, <1>17, <1>18, <1>19, <1>20, <1>21, <1>22, <1>23, <1>24, <1>25, <1>26
     DEF Next, Start, Continue, Procs

LEMMA EarnedInvariant == Spec => []EarnedInv
  BY TypeInit, TypeNext, EarnedInit, EarnedNext, PTL DEF Spec

(* No interleaving of stale counts makes the row claim signatures that it   *)
(* does not have.                                                           *)
THEOREM CountCorrect == Spec => []CountIsBacked
<1>1. EarnedInv => CountIsBacked
  BY DEF EarnedInv
<1> QED BY EarnedInvariant, <1>1, PTL

(* No interleaving of stale counts makes the row READY, or the transaction  *)
(* reach the network, before the service has taken a signature of as many   *)
(* signers as the lowest threshold ever configured demands.                 *)
THEOREM ReadyCorrect == Spec => []ReadyIsEarned
<1>1. EarnedInv => ReadyIsEarned
  BY DEF EarnedInv
<1> QED BY EarnedInvariant, <1>1, PTL

------------------------------------------------------------------------------
(* The envelope, with signers one at a time.  A request that adds a          *)
(* signature has read the envelope as it still is, and from the row of the   *)
(* signature on, only that signature is not in it.                           *)

Adding == {"createSignature", "rereadRow", "writeSigned"}

OneRequest == \A p, q \in Requests : p = q

SerialInv ==
    /\ \A p \in Procs : pc[p] \in Adding => p \in Requests
    /\ failures = 0 =>
          /\ NoSignatureLost
          /\ \A p \in Procs : pc[p] \in Adding =>
                /\ loc[p].base = row.envelope
                /\ loc[p].signer \in Hints(loc[p].upload)
                /\ signatures \subseteq Hints(row.envelope) \cup {loc[p].signer}

LEMMA SerialNext ==
    OneRequest /\ TypeInv /\ SerialInv /\ [Next]_vars => SerialInv'
<1> SUFFICES ASSUME OneRequest, TypeInv, SerialInv, [Next]_vars PROVE SerialInv'
  OBVIOUS
<1> USE DEF Keep, Goto, Finish, External, ghostVars, dbVars, Adding
<1>t. /\ pc \in [Procs -> Labels] /\ loc \in [Procs -> LocalType]
      /\ row \in RowType /\ failures \in Nat /\ Requests \subseteq Procs
  BY BoundsAssumption DEF TypeInv, TypeOK, Procs
<1>r. \A p \in Procs : pc[p] \in Adding => p \in Requests
  BY DEF SerialInv
\* What adds no signature, and leaves those that are being added and the envelope
<1>k. ASSUME UNCHANGED <<signatures, failures>>, row'.envelope = row.envelope,
             \A p \in Procs : /\ pc'[p] \in Adding => pc'[p] = pc[p] /\ loc'[p] = loc[p]
                              /\ pc[p] \in Adding => pc'[p] = pc[p]
      PROVE  SerialInv'
  BY <1>k DEF SerialInv, NoSignatureLost
<1>1. ASSUME NEW p \in Requests, NEW s \in Signers, NEW upload \in SUBSET Available,
             AddSignature(p, s, upload)
      PROVE  SerialInv'
  <2>1. CASE expired
    <3>1. /\ UNCHANGED <<signatures, failures, row, loc>>
          /\ pc[p] = "idle" /\ pc' = [pc EXCEPT ![p] = "markExpired"]
      BY <1>1, <2>1 DEF AddSignature
    <3> QED BY <1>k, <1>t, <3>1
  <2>2. CASE ~expired
    <3>1. /\ UNCHANGED <<signatures, failures, row>>
          /\ pc[p] = "idle" /\ pc' = [pc EXCEPT ![p] = "createSignature"]
          /\ s \in Hints(upload)
          /\ loc' = [loc EXCEPT ![p] = [NoLocal EXCEPT !.signer = s,
                        !.upload = upload, !.base = row.envelope]]
      BY <1>1, <2>2 DEF AddSignature, Signs
    <3>2. /\ loc'[p].base = row.envelope /\ loc'[p].signer = s
          /\ loc'[p].upload = upload
      BY <1>t, <3>1 DEF NoLocal
    <3>3. \A q \in Procs \ {p} : pc'[q] = pc[q] /\ pc[q] \notin Adding
      BY <1>r, <1>t, <3>1 DEF OneRequest
    <3>4. pc'[p] = "createSignature"
      BY <1>t, <3>1
    <3>5. failures = 0 => signatures \subseteq Hints(row.envelope)
      BY <3>1, <3>3 DEF SerialInv, NoSignatureLost
    <3> QED BY <1>1, <3>1, <3>2, <3>3, <3>4, <3>5 DEF SerialInv, NoSignatureLost
  <2> QED BY <2>1, <2>2
<1>2. ASSUME NEW p \in Procs, CreateSignature(p) PROVE SerialInv'
  <2>0. /\ p \in Requests /\ pc[p] = "createSignature" /\ UNCHANGED <<row, failures>>
        /\ \A q \in Procs \ {p} : pc'[q] = pc[q] /\ pc[q] \notin Adding
    BY <1>2, <1>r, <1>t DEF CreateSignature, OneRequest
  <2>1. CASE loc[p].signer \in signatures
    <3>1. UNCHANGED signatures /\ pc'[p] = "idle"
      BY <1>2, <1>t, <2>1 DEF CreateSignature
    <3>2. failures = 0 => signatures \subseteq Hints(row.envelope)
      BY <2>0 DEF SerialInv, NoSignatureLost
    <3> QED BY <2>0, <3>1, <3>2 DEF SerialInv, NoSignatureLost
  <2>2. CASE loc[p].signer \notin signatures
    <3>1. /\ signatures' = signatures \cup {loc[p].signer} /\ UNCHANGED loc
          /\ pc'[p] = "rereadRow"
      BY <1>2, <1>t, <2>2 DEF CreateSignature
    <3> QED BY <2>0, <3>1 DEF SerialInv, NoSignatureLost
  <2> QED BY <2>1, <2>2
<1>3. ASSUME NEW p \in Procs, RereadRow(p) PROVE SerialInv'
  <2>1. /\ p \in Requests /\ pc[p] = "rereadRow" /\ pc'[p] = "writeSigned"
        /\ UNCHANGED <<row, failures, signatures>>
        /\ \A q \in Procs \ {p} : pc'[q] = pc[q] /\ pc[q] \notin Adding
    BY <1>3, <1>r, <1>t DEF RereadRow, OneRequest
  <2>2. /\ loc'[p].base = loc[p].base /\ loc'[p].upload = loc[p].upload
        /\ loc'[p].signer = loc[p].signer
    BY <1>3, <1>t DEF RereadRow, LocalType
  <2> QED BY <2>1, <2>2 DEF SerialInv, NoSignatureLost
<1>4. ASSUME NEW p \in Procs, WriteSigned(p) PROVE SerialInv'
  <2>1. /\ p \in Requests /\ pc[p] = "writeSigned" /\ pc'[p] = "notifySigned"
        /\ UNCHANGED <<failures, signatures>>
        /\ row'.envelope = loc[p].base \cup loc[p].upload
        /\ \A q \in Procs \ {p} : pc'[q] = pc[q] /\ pc[q] \notin Adding
    BY <1>4, <1>r, <1>t DEF WriteSigned, OneRequest, Merge, RowType
  <2>2. Hints(row'.envelope) = Hints(loc[p].base) \cup Hints(loc[p].upload)
    BY <2>1 DEF Hints
  <2> QED BY <2>1, <2>2 DEF SerialInv, NoSignatureLost
<1>5. ASSUME NEW p \in Procs,
             \/ SubmissionWriteFails(p) \/ RequestDies(p)
      PROVE  SerialInv'
  BY <1>5, <1>r, <1>t DEF SubmissionWriteFails, RequestDies, SerialInv
\* All other actions are about requests that add no signature.
<1>6. ASSUME NEW p \in Procs, Continue(p), pc[p] \notin Adding PROVE SerialInv'
  <2>1. /\ UNCHANGED <<signatures, failures>> /\ pc' = [pc EXCEPT ![p] = pc'[p]]
        /\ pc'[p] \notin Adding
        /\ \A q \in Procs \ {p} : loc'[q] = loc[q]
    BY <1>6, <1>t DEF Continue, NotifyRequiredSigners, Notify, CreateSignature,
       RereadRow, WriteSigned, NotifySignatureAdded, WriteThreshold, WriteReconciled,
       MarkAsExpired, NotifyThresholdReached, LoadEnvelope, Post, WriteSubmitted,
       NotifySubmitted, WriteFailed, NotifyFailed
  <2>2. row'.envelope = row.envelope
    BY <1>6, <1>t DEF RowType, Continue, NotifyRequiredSigners, Notify,
       CreateSignature, RereadRow, WriteSigned, NotifySignatureAdded, WriteThreshold,
       WriteReconciled, MarkAsExpired, NotifyThresholdReached, LoadEnvelope, Post,
       WriteSubmitted, NotifySubmitted, WriteFailed, NotifyFailed
  <2> QED BY <1>6, <1>k, <1>t, <2>1, <2>2
<1>7. ASSUME NEW p \in Procs, ReconcileTransaction(p) PROVE SerialInv'
  <2>1. /\ UNCHANGED <<signatures, failures, row>> /\ pc' = [pc EXCEPT ![p] = pc'[p]]
        /\ pc'[p] \notin Adding /\ pc[p] \notin Adding
        /\ \A q \in Procs \ {p} : loc'[q] = loc[q]
    BY <1>7, <1>t DEF ReconcileTransaction
  <2> QED BY <1>k, <1>t, <2>1
<1>8. ASSUME NEW p \in Requests,
             \/ CreateTransaction(p) \/ SubmitTransaction(p)
             \/ \E n \in 1..Cardinality(Signers) : UpdateThreshold(p, n)
      PROVE  SerialInv'
  <2>1. /\ UNCHANGED <<signatures, failures>> /\ row'.envelope = row.envelope
        /\ pc[p] = "idle" /\ pc' = [pc EXCEPT ![p] = pc'[p]]
        /\ pc'[p] \notin Adding
        /\ \A q \in Procs \ {p} : loc'[q] = loc[q]
    BY <1>8, <1>t DEF CreateTransaction, SubmitTransaction, UpdateThreshold, RowType
  <2> QED BY <1>k, <1>t, <2>1
<1>9. CASE UNCHANGED <<row, signatures, pc, loc, failures>>
  BY <1>9, <1>k
<1>10. ASSUME NEW p \in Procs, Continue(p), pc[p] \in Adding PROVE SerialInv'
  <2>1. CreateSignature(p) \/ RereadRow(p) \/ WriteSigned(p)
    BY <1>10 DEF Continue, NotifyRequiredSigners, NotifySignatureAdded,
       WriteThreshold, WriteReconciled, MarkAsExpired, NotifyThresholdReached,
       LoadEnvelope, Post, WriteSubmitted, NotifySubmitted, WriteFailed, NotifyFailed
  <2> QED BY <1>2, <1>3, <1>4, <2>1
<1> QED
  BY <1>1, <1>5, <1>6, <1>7, <1>8, <1>9, <1>10
  DEF Next, Start, vars, SignInWallet, NetworkApplies, TimePasses

(* With signers one at a time and none dying, the envelope keeps every       *)
(* signature, whatever the scheduler does meanwhile.                         *)
THEOREM SerialCorrect == OneRequest /\ Spec => []SerialEnvelopeComplete
<1> SUFFICES ASSUME OneRequest PROVE Spec => []SerialEnvelopeComplete
  OBVIOUS
<1>1. Init => SerialInv
  BY DEF Init, SerialInv, NoSignatureLost, Adding, Hints
<1>2. SerialInv => SerialEnvelopeComplete
  BY DEF SerialInv, SerialEnvelopeComplete
<1>3. TypeInv /\ SerialInv /\ [Next]_vars => SerialInv'
  BY SerialNext
<1> QED
  BY TypeInit, TypeNext, <1>1, <1>2, <1>3, PTL DEF Spec

------------------------------------------------------------------------------
(* The refinement.  Whatever callers upload, a signature that verifies was    *)
(* made in its signer's wallet, so a transaction the network accepts has been *)
(* signed by as many signers as the account demands.                          *)

Made == {d \in Decorated : d.valid => d.hint \in wallets}

WalletInv ==
    /\ row.envelope \subseteq Made
    /\ ledger # "open" => Cardinality(wallets) >= LedgerThreshold
    /\ \A p \in Procs : loc[p].upload \subseteq Made /\ loc[p].base \subseteq Made

LEMMA WalletInit == Init => WalletInv
  BY DEF Init, WalletInv, NoLocal

LEMMA WalletNext ==
    TypeInv /\ WalletInv /\ [Next]_vars => WalletInv'
<1> SUFFICES ASSUME TypeInv, WalletInv, [Next]_vars PROVE WalletInv'
  OBVIOUS
<1>0. NoLocal.upload = {} /\ NoLocal.base = {}
  BY DEF NoLocal
<1> USE <1>0 DEF TypeInv, TypeOK, WalletInv, Made
<1> USE DEF Keep, Goto, Finish, External, ghostVars, dbVars
<1>1. ASSUME NEW p \in Procs, CreateTransaction(p)
       PROVE  WalletInv'
  BY <1>1 DEF CreateTransaction, RowType
<1>2. ASSUME NEW p \in Procs, NotifyRequiredSigners(p)
       PROVE  WalletInv'
  BY <1>2 DEF NotifyRequiredSigners, Notify
<1>3. ASSUME NEW p \in Procs, CreateSignature(p)
       PROVE  WalletInv'
  BY <1>3 DEF CreateSignature
<1>4. ASSUME NEW p \in Procs, RereadRow(p)
       PROVE  WalletInv'
  <2> DEFINE n == CountValid(signatures \cup {loc[p].signer})
             new == [loc[p] EXCEPT !.count = n,
                                   !.status = Evaluate(n, row.threshold)]
  <2>1. new.upload = loc[p].upload /\ new.base = loc[p].base
    BY DEF LocalType
  <2>2. /\ loc' = [loc EXCEPT ![p] = new]
        /\ pc' = [pc EXCEPT ![p] = "writeSigned"]
        /\ UNCHANGED <<row, signatures, wallets, ledger>>
    BY <1>4 DEF RereadRow
  <2> HIDE DEF new
  <2> QED BY <2>1, <2>2
<1>5. ASSUME NEW p \in Procs, WriteSigned(p)
       PROVE  WalletInv'
  BY <1>5 DEF WriteSigned, RowType, Merge
<1>6. ASSUME NEW p \in Procs, NotifySignatureAdded(p)
       PROVE  WalletInv'
  BY <1>6 DEF NotifySignatureAdded
<1>7. ASSUME NEW p \in Procs, WriteThreshold(p)
       PROVE  WalletInv'
  BY <1>7 DEF WriteThreshold, RowType
<1>8. ASSUME NEW p \in Procs, ReconcileTransaction(p)
       PROVE  WalletInv'
  <2> DEFINE n == CountValid(signatures)
             new == [NoLocal EXCEPT !.count = n,
                                    !.status = Evaluate(n, row.threshold),
                                    !.wasReady = row.status = "READY"]
  <2>1. new.upload = {} /\ new.base = {}
    BY DEF NoLocal
  <2>2. /\ \/ loc' = [loc EXCEPT ![p] = NoLocal]
           \/ loc' = [loc EXCEPT ![p] = new]
        /\ \E l \in {"idle", "markExpired", "writeReconciled"} :
              pc' = [pc EXCEPT ![p] = l]
        /\ UNCHANGED <<row, signatures, wallets, ledger>>
    BY <1>8 DEF ReconcileTransaction
  <2> HIDE DEF new
  <2> QED BY <2>1, <2>2
<1>9. ASSUME NEW p \in Procs, WriteReconciled(p)
       PROVE  WalletInv'
  BY <1>9 DEF WriteReconciled, RowType
<1>10. ASSUME NEW p \in Procs, MarkAsExpired(p)
       PROVE  WalletInv'
  BY <1>10 DEF MarkAsExpired, RowType
<1>11. ASSUME NEW p \in Procs, NotifyThresholdReached(p)
       PROVE  WalletInv'
  BY <1>11 DEF NotifyThresholdReached, Notify
<1>12. ASSUME NEW p \in Procs, SubmitTransaction(p)
       PROVE  WalletInv'
  BY <1>12 DEF SubmitTransaction
<1>13. ASSUME NEW p \in Procs, LoadEnvelope(p)
       PROVE  WalletInv'
  <2>1. /\ [NoLocal EXCEPT !.base = row.envelope].base = row.envelope
        /\ [NoLocal EXCEPT !.base = row.envelope].upload = {}
    BY DEF NoLocal
  <2> QED BY <1>13, <2>1 DEF LoadEnvelope
<1>14. ASSUME NEW p \in Procs, Post(p)
       PROVE  WalletInv'
  <2>1. CASE ledger' = "open" \/ ledger # "open"
    BY <1>14, <2>1 DEF Post
  <2>2. CASE ledger' # "open" /\ ledger = "open"
    <3>1. Cardinality(Verified(loc[p].base)) >= LedgerThreshold
      BY <1>14, <2>2 DEF Post, Authorized
    <3>0. Verified(loc[p].base) \subseteq wallets
      BY DEF Verified, Decorated
    <3>2. /\ Cardinality(Verified(loc[p].base)) <= Cardinality(wallets)
          /\ Cardinality(Verified(loc[p].base)) \in Int /\ Cardinality(wallets) \in Int
      BY <3>0, SignerSets DEF Sizes
    <3>3. Cardinality(wallets) >= LedgerThreshold
      BY <3>1, <3>2, BoundsAssumption
    <3> QED BY <1>14, <3>3 DEF Post
  <2> QED BY <2>1, <2>2
<1>15. ASSUME NEW p \in Procs, WriteSubmitted(p)
       PROVE  WalletInv'
  BY <1>15 DEF WriteSubmitted, RowType
<1>16. ASSUME NEW p \in Procs, NotifySubmitted(p)
       PROVE  WalletInv'
  BY <1>16 DEF NotifySubmitted
<1>17. ASSUME NEW p \in Procs, SubmissionWriteFails(p)
       PROVE  WalletInv'
  BY <1>17 DEF SubmissionWriteFails
<1>18. ASSUME NEW p \in Procs, WriteFailed(p)
       PROVE  WalletInv'
  BY <1>18 DEF WriteFailed, RowType
<1>19. ASSUME NEW p \in Procs, NotifyFailed(p)
       PROVE  WalletInv'
  BY <1>19 DEF NotifyFailed
<1>20. ASSUME NEW p \in Procs, RequestDies(p)
       PROVE  WalletInv'
  BY <1>20 DEF RequestDies
<1>21. ASSUME NEW p \in Procs, NEW s \in Signers, NEW upload \in SUBSET Available,
              AddSignature(p, s, upload)
       PROVE  WalletInv'
  <2> DEFINE new == [NoLocal EXCEPT !.signer = s, !.upload = upload,
                                    !.base = row.envelope]
  <2>1. new.signer = s /\ new.upload = upload /\ new.base = row.envelope
    BY DEF NoLocal
  <2>0. upload \subseteq Made
    BY DEF Available
  <2>2. /\ \/ loc' = loc /\ pc' = [pc EXCEPT ![p] = "markExpired"]
           \/ /\ loc' = [loc EXCEPT ![p] = new]
              /\ pc' = [pc EXCEPT ![p] = "createSignature"]
        /\ UNCHANGED <<row, signatures, wallets, ledger>>
    BY <1>21 DEF AddSignature
  <2> HIDE DEF new
  <2> QED BY <2>0, <2>1, <2>2
<1>22. ASSUME NEW p \in Procs, NEW n \in 1..Cardinality(Signers),
              UpdateThreshold(p, n)
       PROVE  WalletInv'
  <2>1. /\ [NoLocal EXCEPT !.threshold = n].base = {}
        /\ [NoLocal EXCEPT !.threshold = n].upload = {}
    BY DEF NoLocal
  <2> QED BY <1>22, <2>1 DEF UpdateThreshold
<1>23. ASSUME NEW s \in Signers, SignInWallet(s)
       PROVE  WalletInv'
  <2>1. wallets \subseteq wallets' /\ wallets' \in SUBSET Signers
    BY <1>23 DEF SignInWallet
  <2>2. /\ Cardinality(wallets) <= Cardinality(wallets')
        /\ Cardinality(wallets) \in Int /\ Cardinality(wallets') \in Int
    BY <2>1, SignerSets DEF Sizes
  <2>3. ledger # "open" => Cardinality(wallets') >= LedgerThreshold
    BY <2>2, BoundsAssumption
  <2> QED BY <1>23, <2>1, <2>3 DEF SignInWallet
<1>24. ASSUME NetworkApplies
       PROVE  WalletInv'
  BY <1>24 DEF NetworkApplies
<1>25. ASSUME TimePasses
       PROVE  WalletInv'
  BY <1>25 DEF TimePasses
<1>26. ASSUME UNCHANGED vars
       PROVE  WalletInv'
  BY <1>26 DEF vars
<1> QED
  BY <1>1, <1>2, <1>3, <1>4, <1>5, <1>6, <1>7, <1>8, <1>9, <1>10, <1>11, <1>12, <1>13,
     <1>14, <1>15, <1>16, <1>17, <1>18, <1>19, <1>20, <1>21, <1>22, <1>23, <1>24, <1>25, <1>26
     DEF Next, Start, Continue, Procs

RefinementInv == TypeInv /\ SubmittedInv /\ EarnedInv /\ WalletInv

(* The instance has a copy of Cardinality of its own.                       *)
LEMMA SameCardinality == \A S : Promise!Cardinality(S) = Cardinality(S)
  BY DEF Promise!Cardinality, Cardinality

LEMMA PromiseInit == Init => Promise!Init
<1> SUFFICES ASSUME Init PROVE Promise!Init
  OBVIOUS
<1>1. wallets = {} /\ signatures = {} /\ lowest \in 1..Cardinality(Signers)
  BY SignerSets DEF Init
<1>2. (ledger = "applied") = FALSE
  BY DEF Init
<1>3. notified \cap {"SUBMITTED", "FAILED"} = {}
  BY DEF Init
<1> QED BY <1>1, <1>2, <1>3, SameCardinality DEF Promise!Init

LEMMA PromiseNext ==
    RefinementInv /\ RefinementInv' /\ [Next]_vars
        => [Promise!Next]_(Promise!vars)
<1> SUFFICES ASSUME RefinementInv, RefinementInv', [Next]_vars
             PROVE  [Promise!Next]_(Promise!vars)
  OBVIOUS
<1> DEFINE Told == notified \cap {"SUBMITTED", "FAILED"}
<1> USE DEF RefinementInv, Promise!vars
<1> USE DEF Keep, Goto, Finish, External, ghostVars, dbVars
<1>1. ASSUME NEW p \in Procs, CreateTransaction(p)
       PROVE  [Promise!Next]_(Promise!vars)
  <2>1. lowest' \in 1..Cardinality(Signers) /\ lowest' <= lowest
    BY <1>1, SignerSets DEF CreateTransaction, EarnedInv, TypeInv, TypeOK
  <2>2. UNCHANGED <<signatures, wallets, ledger, notified>>
    BY <1>1 DEF CreateTransaction
  <2>3. CASE lowest' = lowest
    BY <2>2, <2>3
  <2>4. CASE lowest' < lowest
    <3>1. Told' = Told /\ wallets' = wallets /\ signatures' = signatures
          /\ (ledger' = "applied") = (ledger = "applied")
      BY <2>2
    <3>2. Promise!Relax(lowest')
      BY <2>4, <3>1 DEF Promise!Relax
    <3> QED BY <2>1, <3>2, SameCardinality DEF Promise!Next
  <2> QED BY <2>1, <2>3, <2>4 DEF TypeInv, TypeOK
<1>2. ASSUME NEW p \in Procs, NotifyRequiredSigners(p)
       PROVE  [Promise!Next]_(Promise!vars)
  <2>1. UNCHANGED <<signatures, wallets, lowest, ledger>>
    BY <1>2 DEF NotifyRequiredSigners, Notify
  <2>2. Told' = Told
    BY <1>2 DEF NotifyRequiredSigners, Notify
  <2> QED BY <2>1, <2>2
<1>3. ASSUME NEW p \in Procs, CreateSignature(p)
       PROVE  [Promise!Next]_(Promise!vars)
  <2>1. UNCHANGED <<wallets, lowest, ledger, notified>>
    BY <1>3 DEF CreateSignature
  <2>2. CASE signatures' = signatures
    BY <2>1, <2>2
  <2>3. CASE signatures' # signatures
    <3>1. signatures' = signatures \cup {loc[p].signer} /\ loc[p].signer \in Signers
      BY <1>3, <2>3 DEF CreateSignature, TypeInv, SignerKnown
    <3>2. Promise!Take(loc[p].signer)
      BY <2>1, <3>1 DEF Promise!Take
    <3> QED BY <3>1, <3>2 DEF Promise!Next
  <2> QED BY <2>2, <2>3
<1>4. ASSUME NEW p \in Procs, RereadRow(p)
       PROVE  [Promise!Next]_(Promise!vars)
  BY <1>4 DEF RereadRow
<1>5. ASSUME NEW p \in Procs, WriteSigned(p)
       PROVE  [Promise!Next]_(Promise!vars)
  BY <1>5 DEF WriteSigned
<1>6. ASSUME NEW p \in Procs, NotifySignatureAdded(p)
       PROVE  [Promise!Next]_(Promise!vars)
  <2>1. UNCHANGED <<signatures, wallets, lowest, ledger>>
    BY <1>6 DEF NotifySignatureAdded
  <2>2. Told' = Told
    BY <1>6 DEF NotifySignatureAdded, Notify
  <2> QED BY <2>1, <2>2
<1>7. ASSUME NEW p \in Procs, WriteThreshold(p)
       PROVE  [Promise!Next]_(Promise!vars)
  <2>1. lowest' \in 1..Cardinality(Signers) /\ lowest \in 1..Cardinality(Signers)
    BY DEF TypeInv, TypeOK
  <2>2. UNCHANGED <<signatures, wallets, ledger, notified>>
    BY <1>7 DEF WriteThreshold
  <2>3. lowest' = lowest \/ lowest' < lowest
    BY <1>7 DEF WriteThreshold
  <2>4. CASE lowest' = lowest
    BY <2>2, <2>4
  <2>5. CASE lowest' < lowest
    <3>1. Told' = Told /\ wallets' = wallets /\ signatures' = signatures
          /\ (ledger' = "applied") = (ledger = "applied")
      BY <2>2
    <3>2. Promise!Relax(lowest')
      BY <2>5, <3>1 DEF Promise!Relax
    <3> QED BY <2>1, <3>2, SameCardinality DEF Promise!Next
  <2> QED BY <2>3, <2>4, <2>5
<1>8. ASSUME NEW p \in Procs, ReconcileTransaction(p)
       PROVE  [Promise!Next]_(Promise!vars)
  BY <1>8 DEF ReconcileTransaction
<1>9. ASSUME NEW p \in Procs, WriteReconciled(p)
       PROVE  [Promise!Next]_(Promise!vars)
  BY <1>9 DEF WriteReconciled
<1>10. ASSUME NEW p \in Procs, MarkAsExpired(p)
       PROVE  [Promise!Next]_(Promise!vars)
  BY <1>10 DEF MarkAsExpired
<1>11. ASSUME NEW p \in Procs, NotifyThresholdReached(p)
       PROVE  [Promise!Next]_(Promise!vars)
  <2>1. UNCHANGED <<signatures, wallets, lowest, ledger>>
    BY <1>11 DEF NotifyThresholdReached, Notify
  <2>2. Told' = Told
    BY <1>11 DEF NotifyThresholdReached, Notify
  <2> QED BY <2>1, <2>2
<1>12. ASSUME NEW p \in Procs, SubmitTransaction(p)
       PROVE  [Promise!Next]_(Promise!vars)
  BY <1>12 DEF SubmitTransaction
<1>13. ASSUME NEW p \in Procs, LoadEnvelope(p)
       PROVE  [Promise!Next]_(Promise!vars)
  BY <1>13 DEF LoadEnvelope
<1>14. ASSUME NEW p \in Procs, Post(p)
       PROVE  [Promise!Next]_(Promise!vars)
  <2>1. UNCHANGED <<signatures, wallets, lowest, notified>>
    BY <1>14 DEF Post
  <2>2. CASE ledger' = ledger \/ ledger' # "applied"
    BY <1>14, <2>1, <2>2 DEF Post
  <2>3. CASE ledger' = "applied" /\ ledger # "applied"
    <3>1. Earned
      BY <1>14 DEF Post, EarnedInv, ReadyIsEarned, Earned
    <3>2. Cardinality(signatures) >= lowest
      BY <3>1 DEF Earned
    <3>3. Cardinality(wallets) >= LedgerThreshold
      BY <2>1, <2>3 DEF WalletInv
    <3>4. Told' = Told /\ wallets' = wallets /\ signatures' = signatures /\ lowest' = lowest
      BY <2>1
    <3>5. /\ ~(ledger = "applied")
          /\ (ledger' = "applied") = TRUE
      BY <2>3
    <3>6. Promise!Pay
      BY <3>2, <3>3, <3>4, <3>5, SameCardinality DEF Promise!Pay
    <3> QED BY <3>6 DEF Promise!Next
  <2> QED BY <2>2, <2>3
<1>15. ASSUME NEW p \in Procs, WriteSubmitted(p)
       PROVE  [Promise!Next]_(Promise!vars)
  BY <1>15 DEF WriteSubmitted
<1>16. ASSUME NEW p \in Procs, NotifySubmitted(p)
       PROVE  [Promise!Next]_(Promise!vars)
  <2>1. ledger = "applied" /\ UNCHANGED <<signatures, wallets, lowest, ledger>>
    BY <1>16 DEF NotifySubmitted, SubmittedInv
  <2>2. Told' = Told \cup {"SUBMITTED"}
    BY <1>16 DEF NotifySubmitted
  <2> QED BY <2>1, <2>2 DEF Promise!Next, Promise!TellSubmitted
<1>17. ASSUME NEW p \in Procs, SubmissionWriteFails(p)
       PROVE  [Promise!Next]_(Promise!vars)
  BY <1>17 DEF SubmissionWriteFails
<1>18. ASSUME NEW p \in Procs, WriteFailed(p)
       PROVE  [Promise!Next]_(Promise!vars)
  BY <1>18 DEF WriteFailed
<1>19. ASSUME NEW p \in Procs, NotifyFailed(p)
       PROVE  [Promise!Next]_(Promise!vars)
  <2>1. UNCHANGED <<signatures, wallets, lowest, ledger>>
    BY <1>19 DEF NotifyFailed
  <2>2. Told' = Told \cup {"FAILED"}
    BY <1>19 DEF NotifyFailed
  <2> QED BY <2>1, <2>2 DEF Promise!Next, Promise!TellFailed
<1>20. ASSUME NEW p \in Procs, RequestDies(p)
       PROVE  [Promise!Next]_(Promise!vars)
  BY <1>20 DEF RequestDies
<1>21. ASSUME NEW p \in Procs, NEW s \in Signers, NEW upload \in SUBSET Available,
              AddSignature(p, s, upload)
       PROVE  [Promise!Next]_(Promise!vars)
  BY <1>21 DEF AddSignature
<1>22. ASSUME NEW p \in Procs, NEW n \in 1..Cardinality(Signers),
              UpdateThreshold(p, n)
       PROVE  [Promise!Next]_(Promise!vars)
  BY <1>22 DEF UpdateThreshold
<1>23. ASSUME NEW s \in Signers, SignInWallet(s)
       PROVE  [Promise!Next]_(Promise!vars)
  BY <1>23 DEF SignInWallet, Promise!Next, Promise!Sign
<1>24. ASSUME NetworkApplies
       PROVE  [Promise!Next]_(Promise!vars)
  <2>1. UNCHANGED <<signatures, wallets, lowest, notified>>
    BY <1>24 DEF NetworkApplies
  <2>2. CASE ledger' = ledger \/ ledger' # "applied"
    BY <1>24, <2>1, <2>2 DEF NetworkApplies
  <2>3. CASE ledger' = "applied" /\ ledger # "applied"
    <3>1. Earned
      BY <1>24 DEF NetworkApplies, EarnedInv, ReadyIsEarned, Earned
    <3>2. Cardinality(signatures) >= lowest
      BY <3>1 DEF Earned
    <3>3. Cardinality(wallets) >= LedgerThreshold
      BY <2>1, <2>3 DEF WalletInv
    <3>4. Told' = Told /\ wallets' = wallets /\ signatures' = signatures /\ lowest' = lowest
      BY <2>1
    <3>5. /\ ~(ledger = "applied")
          /\ (ledger' = "applied") = TRUE
      BY <2>3
    <3>6. Promise!Pay
      BY <3>2, <3>3, <3>4, <3>5, SameCardinality DEF Promise!Pay
    <3> QED BY <3>6 DEF Promise!Next
  <2> QED BY <2>2, <2>3
<1>25. ASSUME TimePasses
       PROVE  [Promise!Next]_(Promise!vars)
  BY <1>25 DEF TimePasses
<1>26. ASSUME UNCHANGED vars
       PROVE  [Promise!Next]_(Promise!vars)
  BY <1>26 DEF vars
<1> QED
  BY <1>1, <1>2, <1>3, <1>4, <1>5, <1>6, <1>7, <1>8, <1>9, <1>10, <1>11, <1>12, <1>13,
     <1>14, <1>15, <1>16, <1>17, <1>18, <1>19, <1>20, <1>21, <1>22, <1>23, <1>24, <1>25, <1>26
     DEF Next, Start, Continue, Procs

(* The coordinator implements the abstract promise: the payment is made at  *)
(* most once, only after a signature was taken of as many signers as the    *)
(* lowest threshold demands and after as many have signed as the account    *)
(* demands, and SUBMITTED is told only of a payment that was made.          *)
THEOREM PromiseKept == Spec => KeepsPromise
<1>1. Init => RefinementInv
  BY TypeInit, SubmittedInit, EarnedInit, WalletInit DEF RefinementInv
<1>2. RefinementInv /\ [Next]_vars => RefinementInv'
  BY TypeNext, SubmittedNext, EarnedNext, WalletNext DEF RefinementInv
<1> QED
  BY <1>1, <1>2, PromiseInit, PromiseNext, PTL
  DEF Spec, KeepsPromise, Promise!Spec

==============================================================================
