--------------------------- MODULE MultiLevelCache ---------------------------
(***************************************************************************)
(* AdvancedCacheService, backend/src/services/advanced-cache.service.ts:   *)
(* one key, cached in each process (L1) and in Redis (L2) with stale-while-*)
(* revalidate, read through it and written through or behind it, and       *)
(* invalidated over Redis pub/sub.  The requests are the processes; each   *)
(* is at one call, or at what the call goes on with in the background.     *)
(***************************************************************************)
EXTENDS Backend

CONSTANTS Values, None,
          MaxWrites     \* bound on writes and invalidations

Idle == "idle"
Empty == [l1 |-> None, fresh |-> FALSE, at |-> Idle, value |-> None]

\* db: the value of record and L2; calls: a process's L1 and the call it is at;
\* outside: invalidations on their way to a process; history: writes so far.
TypeOK ==
    /\ db \in [source : Values, l2 : Values \cup {None}]
    /\ calls \in [Requests -> [l1 : Values \cup {None}, fresh : BOOLEAN,
           at : {Idle, "l2", "fetch", "keep", "store", "behind", "stored", "write",
                 "invalidate", "publish"},
           value : Values \cup {None}]]
    /\ outside \subseteq Requests
    /\ history \in 0 .. MaxWrites
    /\ failures \in 0 .. MaxFailures

Init ==
    /\ Running("cache")
    /\ db \in [source : Values, l2 : {None}]
    /\ calls = [p \in Requests |-> Empty]
    /\ outside = {}
    /\ history = 0

At(p, label) == calls[p].at = label
Goto(p, label) == Goes(p, [calls[p] EXCEPT !.at = label])
Holding(p, label, v) == Goes(p, [calls[p] EXCEPT !.at = label, !.value = v])
InL1(p, label, v) ==
    Goes(p, [l1 |-> v, fresh |-> v # None, at |-> label, value |-> v])
Writes ==
    /\ history < MaxWrites
    /\ history' = history + 1

\* cacheAside that finds no fresh entry in L1
CacheAside(p) ==
    /\ Step("cache")
    /\ At(p, Idle) /\ ~calls[p].fresh
    /\ Goto(p, "l2")
    /\ UNCHANGED <<db, outside, history>>

\* mutant: a stale entry that is not in L2 any more is put back there
OnMiss_Revives(p) ==
    IF calls[p].l1 = None THEN Goto(p, "fetch") ELSE Holding(p, "store", calls[p].l1)

OnMiss(p) == Goto(p, "fetch")

\* getL2; after a stale entry of L1 the value is fetched in the background.
GetL2(p) ==
    /\ Step("cache")
    /\ At(p, "l2")
    /\ IF db.l2 = None THEN OnMiss(p)
       ELSE InL1(p, IF calls[p].l1 = None THEN Idle ELSE "fetch", db.l2)
    /\ UNCHANGED <<db, outside, history>>

Fetch(p) ==
    /\ Step("cache")
    /\ At(p, "fetch")
    /\ Holding(p, "keep", db.source)
    /\ UNCHANGED <<db, outside, history>>

\* setMultiLevel: L1 at once, then L2.
Keep(p) ==
    /\ Step("cache")
    /\ calls[p].at \in {"keep", "behind"}
    /\ InL1(p, IF At(p, "keep") THEN "store" ELSE "stored", calls[p].value)
    /\ UNCHANGED <<db, outside, history>>

SetL2(p) ==
    /\ Step("cache")
    /\ calls[p].at \in {"store", "stored"}
    /\ db' = [db EXCEPT !.l2 = calls[p].value]
    /\ Goto(p, IF At(p, "store") THEN Idle ELSE "write")
    /\ UNCHANGED <<outside, history>>

\* An error of Redis or of the fetch: the call goes on without.
CallFails(p) ==
    /\ Fail("cache")
    /\ \/ At(p, "l2") /\ OnMiss(p)
       \/ calls[p].at \in {"fetch", "store", "publish"} /\ Goto(p, Idle)
       \/ At(p, "stored") /\ Goto(p, "write")
       \/ At(p, "invalidate") /\ InL1(p, Idle, None)
    /\ UNCHANGED <<db, outside, history>>

WriteThrough(p, v) ==
    /\ Step("cache")
    /\ At(p, Idle)
    /\ Writes
    /\ db' = [db EXCEPT !.source = v]
    /\ Holding(p, "keep", v)
    /\ UNCHANGED outside

WriteBehind(p, v) ==
    /\ Step("cache")
    /\ At(p, Idle)
    /\ Writes
    /\ Holding(p, "behind", v)
    /\ UNCHANGED <<db, outside>>

WriteLater(p) ==
    /\ Step("cache")
    /\ At(p, "write")
    /\ db' = [db EXCEPT !.source = calls[p].value]
    /\ Goto(p, Idle)
    /\ UNCHANGED <<outside, history>>

WriteFails(p) ==
    /\ Fail("cache")
    /\ At(p, "write")
    /\ Goto(p, "invalidate")
    /\ UNCHANGED <<db, outside, history>>

AskInvalidate(p) ==
    /\ Step("cache")
    /\ At(p, Idle)
    /\ Writes
    /\ Goto(p, "invalidate")
    /\ UNCHANGED <<db, outside>>

\* invalidate: L1 and L2, then a message to every process.
Invalidate(p) ==
    /\ Step("cache")
    /\ At(p, "invalidate")
    /\ db' = [db EXCEPT !.l2 = None]
    /\ InL1(p, "publish", None)
    /\ UNCHANGED <<outside, history>>

Publish(p) ==
    /\ Step("cache")
    /\ At(p, "publish")
    /\ Goto(p, Idle)
    /\ outside' = Requests
    /\ UNCHANGED <<db, history>>

HandleInvalidationMessage(p) ==
    /\ Step("cache")
    /\ p \in outside
    /\ outside' = outside \ {p}
    /\ calls' = [calls EXCEPT ![p] = [@ EXCEPT !.l1 = None, !.fresh = FALSE]]
    /\ UNCHANGED <<db, history>>

\* The time-to-live of an entry of L1 ends: it is stale from then on, until it is
\* replaced, or, without stale-while-revalidate, gone.
L1Expires(p, gone) ==
    /\ Step("cache")
    /\ calls[p].fresh
    /\ calls' = [calls EXCEPT ![p].fresh = FALSE, ![p].l1 = IF gone THEN None ELSE @]
    /\ UNCHANGED <<db, outside, history>>

L2Expires ==
    /\ Step("cache")
    /\ db.l2 # None
    /\ db' = [db EXCEPT !.l2 = None]
    /\ UNCHANGED <<calls, outside, history>>

Proceeds(p) ==
    \/ CacheAside(p) \/ GetL2(p) \/ Fetch(p) \/ Keep(p) \/ SetL2(p)
    \/ WriteLater(p) \/ Invalidate(p) \/ Publish(p)
Next ==
    \/ \E p \in Requests :
           \/ Proceeds(p) \/ CallFails(p) \/ WriteFails(p) \/ AskInvalidate(p)
           \/ HandleInvalidationMessage(p)
           \/ \E v \in Values : WriteThrough(p, v) \/ WriteBehind(p, v)
           \/ \E gone \in BOOLEAN : L1Expires(p, gone)
    \/ L2Expires

\* The key is asked for in every process, calls are answered, and time passes.
Fairness ==
    /\ \A p \in Requests : /\ WF_vars(Proceeds(p))
                           /\ WF_vars(HandleInvalidationMessage(p))
                           /\ WF_vars(\E gone \in BOOLEAN : L1Expires(p, gone))
    /\ WF_vars(L2Expires)

Spec == Init /\ [][Next]_vars /\ Fairness

------------------------------------------------------------------------------
(* Properties *)

\* Once writes stop, no cache keeps an old value, or one that was never written,
\* for ever: not through fetches that were overtaken by a write, copies from L2 to
\* L1, lost messages or a write that fails after it was cached.
Converges ==
    <>[](service = "cache" =>
            /\ db.l2 \in {None, db.source}
            /\ \A p \in Requests : calls[p].l1 \in {None, db.source})
==============================================================================
