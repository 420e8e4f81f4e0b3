------------------------------- MODULE LogQueue -------------------------------
(***************************************************************************)
(* Client-side logging: the capture of events into the IndexedDB queue     *)
(* (logger.ts), the loop of each page that sends the queue to the server   *)
(* in batches and prunes it (syncer.ts), and the server side that writes   *)
(* the entries to its log and its ring buffer (internal/logging).          *)
(*                                                                         *)
(* All pages of a browser share the queue; isSyncing and the timer belong  *)
(* to one page.  A request outlives the page that sent it, so the handlers *)
(* of the server have slots of their own.  An entry is its number, the     *)
(* auto-incremented key of the table.  Keys order the table, so a batch is *)
(* a set of keys, which is sent and written in increasing order.           *)
(***************************************************************************)
EXTENDS Naturals, Sequences, FiniteSets, Functions

CONSTANTS
    Pages,        \* page loads
    Handlers,     \* requests the server may be working on at a time
    BatchSize,    \* 50 in the code
    Capacity,     \* size of the ring buffer, 1000 in the code
    None,
    MaxEntries,   \* captured entries
    MaxSignIns,   \* ends of the session, and new sign-ins
    MaxFaults     \* lost answers, storage errors, restarts, closed pages

ASSUME LogAssumption ==
    /\ BatchSize \in Nat \ {0}
    /\ Capacity \in Nat \ {0}
    /\ Handlers # {} /\ None \notin Handlers
    /\ MaxEntries \in Nat /\ MaxSignIns \in Nat /\ MaxFaults \in Nat

VARIABLES
    last,         \* newest key of the table
    db,           \* keys in the table
    page,         \* the loop of each page
    handler,      \* the server's handlers
    session,      \* does the browser hold a live session
    stored,       \* entries written to the server's log, in order
    ring,         \* the ring buffer
    boot,         \* length of stored when the server started
    dropped,      \* history: entries given up by a clear
    calm,         \* history: no fault, never two pages
    left          \* what is left of the bounds

vars == <<last, db, page, handler, session, stored, ring, boot, dropped, calm, left>>

serverLog == <<stored, ring, boot>>

-----------------------------------------------------------------------------
Entries == 1..MaxEntries

\* Where the loop of a page stands.  "scheduled" is the timer and the idle
\* callback after it; every phase but the first three has isSyncing set.
Phases == {"unopened", "closed", "scheduled", "reading", "calling", "deleting", "clearing"}

Page == [phase: Phases, batch: SUBSET Entries, unloading: BOOLEAN, call: Handlers \cup {None}]

Handler == [state: {"free", "sent", "serving", "ok", "refused", "broken"},
            todo: SUBSET Entries, awaited: BOOLEAN]

Free == [state |-> "free", todo |-> {}, awaited |-> FALSE]

Bound == [signIns |-> MaxSignIns, faults |-> MaxFaults]

Spend(kind) == left[kind] > 0 /\ left' = [left EXCEPT ![kind] = @ - 1]

Fault == Spend("faults") /\ calm' = FALSE

Quiet == UNCHANGED <<calm, left>>

TypeOK ==
    /\ last \in 0..MaxEntries
    /\ db \subseteq 1..last
    /\ page \in [Pages -> Page]
    /\ handler \in [Handlers -> Handler]
    /\ session \in BOOLEAN
    /\ stored \in Seq(Entries)
    /\ ring \in [entries: Seq(Entries), cursor: 0..(Capacity - 1)]
    /\ Len(ring.entries) <= Capacity
    /\ boot \in 0..Len(stored)
    /\ dropped \subseteq 1..last
    /\ calm \in BOOLEAN
    /\ left \in [DOMAIN Bound -> Nat]

Up(p) == page[p].phase \notin {"unopened", "closed"}

-----------------------------------------------------------------------------
(* The ring buffer (RingBuffer).                                           *)

RingAdd(rb, e) ==
    IF Len(rb.entries) < Capacity
    THEN [rb EXCEPT !.entries = Append(@, e)]
    ELSE [entries |-> [rb.entries EXCEPT ![rb.cursor + 1] = e],
          cursor |-> (rb.cursor + 1) % Capacity]

\* Mutant: a full buffer is read from slot 0 instead of from the cursor.
RingAllFromZero(rb) == rb.entries

RingAll(rb) ==
    IF Len(rb.entries) < Capacity
    THEN rb.entries
    ELSE [i \in 1..Capacity |-> rb.entries[((rb.cursor + i - 1) % Capacity) + 1]]

\* The order in which RingBuffer.Get walks the entries.
NewestFirst(s) == [i \in 1..Len(s) |-> s[Len(s) - i + 1]]

\* RingBuffer.Get: the newest entries first, those that match, at most limit.
RingGet(rb, limit, match) ==
    LET found == SelectSeq(NewestFirst(RingAll(rb)), LAMBDA e : e \in match)
    IN  IF limit > 0 THEN SubSeq(found, 1, IF limit < Len(found) THEN limit ELSE Len(found))
                     ELSE found

EmptyRing == [entries |-> <<>>, cursor |-> 0]

-----------------------------------------------------------------------------
(* The page.                                                               *)

\* main.tsx: the logger is installed and the loop started once per load.
Open(p) ==
    /\ page[p].phase = "unopened"
    /\ page' = [page EXCEPT ![p].phase = "scheduled"]
    /\ calm' = (calm /\ \A q \in Pages : ~Up(q))
    /\ UNCHANGED <<last, db, handler, session, dropped, left, serverLog>>

\* addLogEntry, behind each of the listeners and wrappers of initLogger.
Capture(p) ==
    /\ Up(p)
    /\ ~page[p].unloading
    /\ last < MaxEntries
    /\ last' = last + 1
    /\ db' = db \cup {last'}
    /\ UNCHANGED <<page, handler, session, dropped, serverLog>> /\ Quiet

\* beforeunload or pagehide; the page may live on.
Unload(p) ==
    /\ Up(p)
    /\ ~page[p].unloading
    /\ Fault
    /\ page' = [page EXCEPT ![p].unloading = TRUE]
    /\ UNCHANGED <<last, db, handler, session, dropped, serverLog>>

\* The answer to a call will not be taken: the slot is free once the server is
\* through with it.
Abandoned(h) ==
    IF h.state \in {"sent", "serving"} THEN [h EXCEPT !.awaited = FALSE] ELSE Free

\* The page is closed or crashes; what it has sent is still handled.
Close(p) ==
    /\ Up(p)
    /\ Fault
    /\ page' = [page EXCEPT ![p] = [phase |-> "closed", batch |-> {},
                                    unloading |-> TRUE, call |-> None]]
    /\ handler' = [h \in Handlers |-> IF h = page[p].call THEN Abandoned(handler[h])
                                                          ELSE handler[h]]
    /\ UNCHANGED <<last, db, session, dropped, serverLog>>

\* The end of syncPendingLogs (finally), and the next run scheduled.
Rescheduled(r) == [r EXCEPT !.phase = "scheduled", !.batch = {}, !.call = None]

\* run: the timer and the idle callback, into syncPendingLogs.
Run(p) ==
    /\ page[p].phase = "scheduled"
    /\ page' = [page EXCEPT ![p].phase = "reading"]
    /\ UNCHANGED <<last, db, handler, session, dropped, serverLog>> /\ Quiet

\* Mutant: the batch holds the newest entries.
FirstEntriesNewest == {e \in db : Cardinality({d \in db : d > e}) < BatchSize}

\* The first BatchSize entries of the table, in key order.
FirstEntries == {e \in db : Cardinality({d \in db : d < e}) < BatchSize}

\* A handler for a new request; it does not matter which.
Slot == CHOOSE h \in Handlers : handler[h].state = "free" \/ \A g \in Handlers : handler[g].state # "free"

\* One turn of the loop: read a batch and send it, or stop at an empty table.
ReadBatch(p) ==
    /\ page[p].phase = "reading"
    /\ \/ /\ db = {}
          /\ page' = [page EXCEPT ![p] = Rescheduled(@)]
          /\ UNCHANGED handler
       \/ /\ db # {}
          /\ handler[Slot].state = "free"
          /\ handler' = [handler EXCEPT ![Slot] = [state |-> "sent", todo |-> FirstEntries,
                                                   awaited |-> TRUE]]
          /\ page' = [page EXCEPT ![p].phase = "calling", ![p].batch = FirstEntries,
                                  ![p].call = Slot]
    /\ UNCHANGED <<last, db, session, dropped, serverLog>> /\ Quiet

\* Mutant: an acknowledged batch clears the table, also of what came later.
PrunedEverything(batch) == db

\* Mutant: the loop leaves after a short batch before it is pruned.
PrunedWhenFull(batch) == IF Cardinality(batch) < BatchSize THEN {} ELSE batch

\* The entries of an acknowledged batch that are pruned.
Pruned(batch) == batch

\* The loop goes on after a full batch only.
AfterBatch(r) == IF Cardinality(r.batch) < BatchSize
                 THEN Rescheduled(r)
                 ELSE [r EXCEPT !.phase = "reading", !.batch = {}, !.call = None]

\* bulkDelete.
Prune(p) ==
    /\ page[p].phase = "deleting"
    /\ db' = db \ Pruned(page[p].batch)
    /\ page' = [page EXCEPT ![p] = AfterBatch(@)]
    /\ UNCHANGED <<last, handler, session, dropped, serverLog>> /\ Quiet

\* logs.clear() after an unauthenticated answer.
ClearQueue(p) ==
    /\ page[p].phase = "clearing"
    /\ db' = {}
    /\ dropped' = dropped \cup db
    /\ page' = [page EXCEPT ![p] = Rescheduled(@)]
    /\ UNCHANGED <<last, handler, session, serverLog>> /\ Quiet

\* A database operation throws: read, bulkDelete or clear.
StoreFails(p) ==
    /\ page[p].phase \in {"reading", "deleting", "clearing"}
    /\ Fault
    /\ page' = [page EXCEPT ![p] = Rescheduled(@)]
    /\ UNCHANGED <<last, db, handler, session, dropped, serverLog>>

\* Mutant: isSyncing is not reset after an error.
LandedStuck(r, state) ==
    CASE state = "ok" -> [r EXCEPT !.phase = "deleting", !.call = None]
      [] state = "refused" -> [r EXCEPT !.phase = "clearing", !.call = None]
      [] state = "broken" -> r

\* Where the answer of a handler in the given state takes the page.
Landed(r, state) ==
    CASE state = "ok" -> [r EXCEPT !.phase = "deleting", !.call = None]
      [] state = "refused" -> [r EXCEPT !.phase = "clearing", !.call = None]
      [] state = "broken" -> Rescheduled(r)

Land(p) ==
    /\ page[p].phase = "calling"
    /\ handler[page[p].call].state \in {"ok", "refused", "broken"}
    /\ page' = [page EXCEPT ![p] = Landed(@, handler[page[p].call].state)]
    /\ handler' = [handler EXCEPT ![page[p].call] = Free]
    /\ UNCHANGED <<last, db, session, dropped, serverLog>> /\ Quiet

\* The call fails in the browser: the request did not arrive, or its answer
\* does not.
Lose(p) ==
    /\ page[p].phase = "calling"
    /\ Fault
    /\ page' = [page EXCEPT ![p] = Rescheduled(@)]
    /\ \E h \in {Abandoned(handler[page[p].call]), Free} :
          /\ h = Free => handler[page[p].call].state # "serving"
          /\ handler' = [handler EXCEPT ![page[p].call] = h]
    /\ UNCHANGED <<last, db, session, dropped, serverLog>>

-----------------------------------------------------------------------------
(* The server.                                                             *)

\* The interceptor lets the request in, or refuses it.
Authenticate(h) ==
    /\ handler[h].state = "sent"
    /\ handler' = [handler EXCEPT ![h] =
                      IF session THEN [@ EXCEPT !.state = "serving"]
                      ELSE IF @.awaited THEN [@ EXCEPT !.state = "refused"] ELSE Free]
    /\ UNCHANGED <<last, db, page, session, dropped, serverLog>> /\ Quiet

\* The next entry of a batch.
NextEntry(todo) == CHOOSE e \in todo : \A d \in todo : e <= d

\* A handler that has the given entries left to write.
Progress(r, todo) ==
    IF todo # {} THEN [r EXCEPT !.todo = todo]
    ELSE IF r.awaited THEN [r EXCEPT !.todo = {}, !.state = "ok"]
    ELSE Free

\* One turn of the loop of SyncLogs; the entry goes through InterceptHandler.
IngestEntry(h) ==
    /\ handler[h].state = "serving"
    /\ LET e == NextEntry(handler[h].todo)
       IN  /\ stored' = Append(stored, e)
           /\ ring' = RingAdd(ring, e)
           /\ handler' = [handler EXCEPT ![h] = Progress(@, @.todo \ {e})]
    /\ UNCHANGED <<last, db, page, session, boot, dropped>> /\ Quiet

\* The server stops and starts again: the ring buffer and every handler are
\* gone, also in the middle of a batch.
Restart ==
    /\ Fault
    /\ handler' = [h \in Handlers |->
                      IF handler[h].state \in {"sent", "serving"} /\ handler[h].awaited
                      THEN [handler[h] EXCEPT !.state = "broken"]
                      ELSE IF handler[h].awaited THEN handler[h] ELSE Free]
    /\ ring' = EmptyRing
    /\ boot' = Len(stored)
    /\ UNCHANGED <<last, db, page, session, stored, dropped>>

\* The session ends, or the user signs in.
SignInOrOut ==
    /\ Spend("signIns")
    /\ session' = ~session
    /\ UNCHANGED <<last, db, page, handler, dropped, calm, serverLog>>

-----------------------------------------------------------------------------
Init ==
    /\ last = 0 /\ db = {} /\ stored = <<>> /\ dropped = {}
    /\ page = [p \in Pages |-> [phase |-> "unopened", batch |-> {},
                                unloading |-> FALSE, call |-> None]]
    /\ handler = [h \in Handlers |-> Free]
    /\ session \in BOOLEAN
    /\ ring = EmptyRing /\ boot = 0
    /\ calm = TRUE /\ left = Bound

Step(p) == Run(p) \/ ReadBatch(p) \/ Prune(p) \/ ClearQueue(p) \/ Land(p)

Serve(h) == Authenticate(h) \/ IngestEntry(h)

Next ==
    \/ \E p \in Pages : Open(p) \/ Capture(p) \/ Unload(p) \/ Close(p) \/ Step(p)
                        \/ StoreFails(p) \/ Lose(p)
    \/ \E h \in Handlers : Serve(h)
    \/ Restart
    \/ SignInOrOut

\* Timers and idle callbacks fire, database operations and calls come back, and
\* the server works on what it received.
Fairness == /\ \A p \in Pages : WF_vars(Step(p))
            /\ \A h \in Handlers : WF_vars(Serve(h))

Spec == Init /\ [][Next]_vars /\ Fairness

-----------------------------------------------------------------------------
(* Properties.                                                             *)

Kept == Range(stored)

\* No captured entry disappears: at every moment it is in the queue, in the
\* server's log, or was given up by the clear that follows an unauthenticated
\* answer, whatever calls are lost, pages close and handlers are cut short.
NothingVanishes == 1..last = db \cup (Kept \cap 1..last) \cup dropped

\* Entries first reach the server in the order they were captured, although
\* several pages send overlapping batches at the same time: when an entry is
\* written, every earlier one was written before or had been given up.
ArrivesInOrder ==
    \A k \in DOMAIN stored : \A e \in 1..(stored[k] - 1) :
        e \in dropped \/ \E j \in 1..(k - 1) : stored[j] = e

\* The server writes an entry twice only after a fault, or when two pages
\* were open at the same time: the loop of one page prunes what was
\* acknowledged before it reads the next batch.
OnceWhenCalm == calm => IsInjective(stored)

\* What the system log page is given is the newest part of the server's log
\* since it started, newest first, however often the ring buffer wrapped.
RingIsTail ==
    LET logged == SubSeq(stored, boot + 1, Len(stored))
        tail   == IF Len(logged) <= Capacity THEN logged
                  ELSE SubSeq(logged, Len(logged) - Capacity + 1, Len(logged))
    IN  \A limit \in 0..(Capacity + 1), match \in {Entries, Entries \ {1}} :
           LET wanted == SelectSeq(NewestFirst(tail), LAMBDA e : e \in match)
           IN  RingGet(ring, limit, match) =
                  IF limit = 0 \/ Len(wanted) <= limit THEN wanted
                                                        ELSE SubSeq(wanted, 1, limit)

\* As long as a page stays open the queue is emptied in the end: a loop that
\* met an error, a refused call or a restarted server is scheduled again.
Drains == <>[](\E p \in Pages : Up(p)) => <>[](db = {})

Transfer == INSTANCE LogTransfer WITH queue <- db, kept <- Kept, lost <- dropped

\* The queue implements at-least-once delivery: the loops of all pages and the
\* handlers together take no step that the abstract transfer does not allow.
AtLeastOnce == Transfer!Spec
=============================================================================
