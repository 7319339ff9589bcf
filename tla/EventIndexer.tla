---------------------------- MODULE EventIndexer ----------------------------
(***************************************************************************)
(* The event indexer, backend/src/services/event-indexer.service.ts: a     *)
(* poll loop that reads the events of a batch of ledgers from Soroban RPC, *)
(* stores them concurrently and moves its cursor, which is in memory, past *)
(* the batch.  After a restart it goes on after the newest ledger of which *)
(* it has stored an event.                                                 *)
(***************************************************************************)
EXTENDS Backend, FiniteSetsExt

CONSTANTS
    MaxLedger,      \* bound on the network's ledgers
    EventsIn,       \* events in each ledger
    BatchSize,      \* EVENT_INDEXER_BATCH_SIZE
    Limit,          \* limit of getEvents
    Lookback        \* how far before the tip it starts without any event

Unset == 0          \* no cursor
AllEvents == {<<l, i>> : l \in 1 .. MaxLedger, i \in 1 .. 2}
Events(first, last) ==
    {e \in AllEvents : first <= e[1] /\ e[1] <= last /\ e[2] <= EventsIn[e[1]]}
Before(e, f) == e[1] < f[1] \/ (e[1] = f[1] /\ e[2] < f[2])
Greatest(m, n) == IF m > n THEN m ELSE n

\* db are the events stored, outside is the network's last ledger, calls the
\* process: its cursor, the batch it is at and the events it has still to store.
\* history.first is the first ledger of the first batch committed; .clean: no write
\* failed, no batch had more than a page of events, and no restart came in between
\* writes or before the first event was stored.
TypeOK ==
    /\ db \subseteq AllEvents
    /\ outside \in 1 .. MaxLedger
    /\ calls \in [cursor : 0 .. MaxLedger, at : {"idle", "fetch", "store"},
                  start : 0 .. MaxLedger, end : 0 .. MaxLedger,
                  todo : SUBSET AllEvents]
    /\ history \in [first : 0 .. MaxLedger, clean : BOOLEAN]
    /\ failures \in 0 .. MaxFailures

Idle(cursor) ==
    [cursor |-> cursor, at |-> "idle", start |-> 0, end |-> 0, todo |-> {}]

Init ==
    /\ Running("indexer")
    /\ db = {}
    /\ outside = 1
    /\ calls = Idle(Unset)
    /\ history = [first |-> 0, clean |-> TRUE]

NewestStored == Max({e[1] : e \in db} \cup {0})

ResolveStartLedger ==
    IF calls.cursor # Unset THEN calls.cursor + 1
    ELSE IF db # {} THEN NewestStored + 1
    ELSE Greatest(1, outside - Lookback)

KnownCursor == IF calls.cursor = Unset THEN NewestStored ELSE calls.cursor

\* A batch begins: the first ledger, the tip, and the last ledger.
Begin ==
    LET start == ResolveStartLedger
        last == start + BatchSize - 1
    IN  /\ Step("indexer")
        /\ calls.at = "idle"
        /\ start <= outside
        /\ calls' = [calls EXCEPT !.at = "fetch", !.start = start,
                !.cursor = KnownCursor,
                !.end = IF last < outside THEN last ELSE outside]
        /\ UNCHANGED <<db, outside, history>>

\* Nothing to index, but the cursor is known again.
UpToDate ==
    /\ Step("indexer")
    /\ calls.at = "idle"
    /\ ResolveStartLedger > outside
    /\ calls' = [calls EXCEPT !.cursor = KnownCursor]
    /\ UNCHANGED <<db, outside, history>>

\* The first page of getEvents is the only one that is asked for.
Fetch ==
    LET all == Events(calls.start, calls.end)
        page == {e \in all : Cardinality({f \in all : Before(f, e)}) < Limit}
    IN  /\ Step("indexer")
        /\ calls.at = "fetch"
        /\ calls' = [calls EXCEPT !.at = "store", !.todo = page]
        /\ history' = [history EXCEPT !.clean = @ /\ page = all]
        /\ UNCHANGED <<db, outside>>

\* An error of RPC or of a read ends the round.
RoundFails ==
    /\ Fail("indexer")
    /\ calls.at \in {"fetch", "store"}
    /\ calls.at = "store" => calls.todo = {}
    /\ calls' = Idle(calls.cursor)
    /\ UNCHANGED <<db, outside, history>>

\* processEvent, an upsert
ProcessEvent(e) ==
    /\ Step("indexer")
    /\ e \in calls.todo
    /\ db' = db \cup {e}
    /\ calls' = [calls EXCEPT !.todo = @ \ {e}]
    /\ UNCHANGED <<outside, history>>

\* allSettled takes note of it and goes on.
ProcessEventFails(e) ==
    /\ Fail("indexer")
    /\ e \in calls.todo
    /\ calls' = [calls EXCEPT !.todo = @ \ {e}]
    /\ history' = [history EXCEPT !.clean = @ /\ e \in db]
    /\ UNCHANGED <<db, outside>>

\* mutant: the cursor is the newest ledger with an event
NextCursor_Newest == NewestStored

NextCursor == Greatest(calls.end, NewestStored)

\* mutant: the commit does not wait for the writes
CommitLastIndexedLedger_Early ==
    /\ Step("indexer")
    /\ calls.at = "store"
    /\ calls' = Idle(NextCursor)
    /\ history' = [history EXCEPT !.first = IF @ = 0 THEN calls.start ELSE @]
    /\ UNCHANGED <<db, outside>>

CommitLastIndexedLedger ==
    /\ Step("indexer")
    /\ calls.at = "store" /\ calls.todo = {}
    /\ calls' = Idle(NextCursor)
    /\ history' = [history EXCEPT !.first = IF @ = 0 THEN calls.start ELSE @]
    /\ UNCHANGED <<db, outside>>

\* The process dies and is started again; writes on their way are not made.
Restart ==
    /\ Fail("indexer")
    /\ calls' = Idle(Unset)
    /\ history' = [history EXCEPT !.clean = @ /\ calls.todo = {} /\ db # {}]
    /\ UNCHANGED <<db, outside>>

LedgerCloses ==
    /\ Step("indexer")
    /\ outside < MaxLedger
    /\ outside' = outside + 1
    /\ UNCHANGED <<db, calls, history>>

Next ==
    \/ Begin \/ UpToDate \/ Fetch \/ RoundFails \/ CommitLastIndexedLedger
    \/ \E e \in AllEvents : ProcessEvent(e) \/ ProcessEventFails(e)
    \/ Restart \/ LedgerCloses

\* The poll loop goes on, and its calls are answered.
Fairness ==
    /\ WF_vars(Begin \/ UpToDate) /\ WF_vars(Fetch)
    /\ WF_vars(CommitLastIndexedLedger)
    /\ WF_vars(\E e \in AllEvents : ProcessEvent(e))

Spec == Init /\ [][Next]_vars /\ Fairness

------------------------------------------------------------------------------
(* Properties *)

\* Errors of RPC and of the commit, repeated batches and restarts between batches
\* lose no event: every one the cursor has passed is stored.
CleanIsComplete ==
    history.clean /\ history.first # 0 => Events(history.first, calls.cursor) \subseteq db

\* Through ledgers without events, failures and restarts, the cursor reaches the
\* tip.
CatchesUp == <>[](service = "indexer" => calls.cursor = outside)
==============================================================================
