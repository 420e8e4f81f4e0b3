---------------------------- MODULE LogQueue_proofs ----------------------------
(***************************************************************************)
(* Proofs about the client-side log queue: no entry vanishes, entries      *)
(* first arrive in the order they were captured, none is written twice     *)
(* unless something failed, the ring buffer reads as the end of the log,   *)
(* and the queue implements at-least-once delivery, for any number of      *)
(* pages and handlers.                                                     *)
(*                                                                         *)
(* The invariants come first, then the steps of a page that keep the one   *)
(* of the queue, then those of the server, then its theorems; the ring     *)
(* buffer and the calm queue follow.                                       *)
(***************************************************************************)
EXTENDS LogQueue, TLAPS, FiniteSetTheorems, WellFoundedInduction

\* Zenon proves the steps that do not name another prover.
USE Zenon

Types ==
    /\ last \in 0..MaxEntries
    /\ db \subseteq 1..last
    /\ page \in [Pages -> Page]
    /\ handler \in [Handlers -> Handler]
    /\ stored \in Seq(Entries)
    /\ dropped \subseteq 1..last

\* What a page and the handler of its call know of each other.
Linked ==
    \A p \in Pages :
        /\ page[p].batch \subseteq 1..last
        /\ page[p].phase # "calling" => page[p].call = None
        /\ page[p].phase = "deleting" => page[p].batch \subseteq Kept
        /\ page[p].phase = "calling" =>
              /\ page[p].call \in Handlers
              /\ handler[page[p].call].state # "free"
              /\ handler[page[p].call].awaited
              /\ handler[page[p].call].state \in {"sent", "serving", "ok"} =>
                    page[p].batch \ handler[page[p].call].todo \subseteq Kept

\* No two pages wait for one handler.
OwnHandler ==
    \A p, q \in Pages :
        page[p].phase = "calling" /\ page[q].phase = "calling" /\ page[p].call = page[q].call
            => p = q

\* What a handler still has to write: something while it works, nothing once it
\* is done, and everything before it was written or given up.
Working ==
    \A h \in Handlers :
        /\ handler[h].todo \subseteq 1..last
        /\ handler[h].state \in {"sent", "serving"} => handler[h].todo # {}
        /\ handler[h].state = "ok" => handler[h].todo = {}
        /\ \A e \in handler[h].todo : \A d \in 1..(e - 1) :
              d \in handler[h].todo \/ d \in Kept \/ d \in dropped

QueueInv == Types /\ Linked /\ OwnHandler /\ Working /\ NothingVanishes /\ ArrivesInOrder

-----------------------------------------------------------------------------
(* The ring buffer.                                                        *)

\* The slot of a full buffer that lies the given number of places on.
Wrapped(j) == IF j <= Capacity THEN j ELSE j - Capacity

\* Entries of this run of the server the ring buffer has room for.
Fill == IF Len(stored) - boot < Capacity THEN Len(stored) - boot ELSE Capacity

\* From the cursor on, the slots hold the newest entries in the order they
\* were written.
RingInv ==
    /\ boot \in 0..Len(stored)
    /\ ring \in [entries: Seq(Entries), cursor: 0..(Capacity - 1)]
    /\ Len(ring.entries) = Fill
    /\ Fill < Capacity => ring.cursor = 0
    /\ \A i \in 1..Fill :
          ring.entries[Wrapped(ring.cursor + i)] = stored[Len(stored) - Fill + i]

\* What the server wrote last since it started, as far as the buffer reaches.
NewestLogged == SubSeq(stored, Len(stored) - Fill + 1, Len(stored))

\* The buffer reads as the end of the log.
RingReadsTail == RingAll(ring) = NewestLogged

-----------------------------------------------------------------------------
(* Without faults and with one page.                                       *)

\* The entry of a call or of a deletion that the server has written already.
Served(e) ==
    \E p \in Pages : /\ e \in page[p].batch
                     /\ \/ page[p].phase = "deleting"
                        \/ /\ page[p].phase = "calling"
                           /\ e \notin handler[page[p].call].todo

\* Only one page is open, every handler works for it, and an entry that was
\* written is written by nobody else and read by nobody before it is pruned.
OneLoop ==
    /\ \A p, q \in Pages : Up(p) /\ Up(q) => p = q
    /\ \A h \in Handlers :
          \/ handler[h].state = "free" /\ handler[h].todo = {}
          \/ \E p \in Pages : page[p].phase = "calling" /\ page[p].call = h
    /\ \A p \in Pages : page[p].phase = "calling" =>
          /\ handler[page[p].call].state # "broken"
          /\ handler[page[p].call].todo \subseteq page[p].batch
          /\ handler[page[p].call].state \in {"sent", "refused"} =>
                handler[page[p].call].todo = page[p].batch
    /\ \A h \in Handlers : handler[h].todo \cap Kept = {}
    /\ \A e \in db \cap Kept : Served(e)
    /\ IsInjective(stored)

CalmInv == Kept \subseteq 1..last /\ (calm => OneLoop)

-----------------------------------------------------------------------------
(* Facts about the data.                                                   *)

\* A set of natural numbers that is not empty has a smallest element.
LEMMA LeastElement ==
    ASSUME NEW S, S \subseteq Nat, S # {}
    PROVE  \E e \in S : \A d \in S : e <= d
<1> DEFINE R == {ss \in Nat \X Nat : ss[1] < ss[2]}
<1>1. IsWellFoundedOn(R, Nat)
  BY NatLessThanWellFounded DEF OpToRel
<1> HIDE DEF R
<1>2. \E x \in S : \A y \in S : ~ (<<y, x>> \in R)
  BY <1>1, WFMin
<1>3. \A x, y \in S : ~ (<<y, x>> \in R) => x <= y
  BY SMT DEF R
<1> QED BY <1>2, <1>3

\* The next entry of a handler is the smallest one it has left.
LEMMA NextEntryLeast ==
    ASSUME NEW S, S \subseteq Nat, S # {}
    PROVE  NextEntry(S) \in S /\ \A d \in S : NextEntry(S) <= d
BY LeastElement DEF NextEntry

\* Writing an entry adds it to what the server has.
LEMMA KeptAppend ==
    ASSUME NEW s \in Seq(Entries), NEW e \in Entries
    PROVE  /\ Append(s, e) \in Seq(Entries)
           /\ Range(Append(s, e)) = Range(s) \cup {e}
<1>1. Append(s, e) \in Seq(Entries) /\ Len(Append(s, e)) = Len(s) + 1 /\ Len(s) \in Nat
  BY SMT
<1>2. DOMAIN s = 1 .. Len(s) /\ DOMAIN Append(s, e) = 1 .. (Len(s) + 1)
  BY SMT
<1>3. Append(s, e)[Len(s) + 1] = e /\ \A i \in 1 .. Len(s) : Append(s, e)[i] = s[i]
  BY SMT
<1>4. Range(s) \cup {e} \subseteq Range(Append(s, e))
  BY <1>1, <1>2, <1>3, SMT DEF Range
<1>5. Range(Append(s, e)) \subseteq Range(s) \cup {e}
  BY <1>1, <1>2, <1>3, SMT DEF Range
<1> QED BY <1>1, <1>4, <1>5

\* A batch is a part of the table, not empty unless the table is, and closed
\* under earlier entries.
LEMMA BatchIsFirst ==
    ASSUME Types, LogAssumption
    PROVE  /\ FirstEntries \subseteq db
           /\ db # {} => FirstEntries # {}
           /\ \A e \in FirstEntries : \A d \in db : d < e => d \in FirstEntries
<1>1. FirstEntries \subseteq db
  BY DEF FirstEntries
<1>2. ASSUME db # {} PROVE FirstEntries # {}
  <2>1. db \subseteq Nat
    BY SMT DEF Types
  <2>2. PICK e \in db : \A d \in db : e <= d
    BY <1>2, <2>1, LeastElement
  <2>3. \A d \in db : ~(d < e)
    BY <2>1, <2>2, SMT
  <2>4. {d \in db : d < e} = {}
    BY <2>3
  <2>5. Cardinality({d \in db : d < e}) = 0
    BY <2>4, FS_EmptySet
  <2> QED BY <2>5, SMT DEF FirstEntries, LogAssumption
<1>3. ASSUME NEW e \in FirstEntries, NEW d \in db, d < e PROVE d \in FirstEntries
  <2>1. (\A x \in db : x \in Nat) /\ e \in db
    BY SMT DEF Types, FirstEntries
  <2>2. IsFiniteSet({x \in db : x < e})
    <3>1. e \in Nat /\ {x \in db : x < e} \in SUBSET Nat
      BY <2>1
    <3>2. \A x \in {y \in db : y < e} : x <= e
      BY <2>1, SMT
    <3> QED BY <3>1, <3>2, FS_BoundedSetOfNaturals
  <2>3. {x \in db : x < d} \in SUBSET {x \in db : x < e}
    <3>1. \A x \in db : x < d => x < e
      BY <1>3, <2>1, SMT
    <3> QED BY <3>1
  <2>4. Cardinality({x \in db : x < d}) <= Cardinality({x \in db : x < e})
    BY <2>2, <2>3, FS_Subset
  <2>5. Cardinality({x \in db : x < d}) \in Nat /\ Cardinality({x \in db : x < e}) \in Nat
    BY <2>2, <2>3, FS_Subset, FS_CardinalityType
  <2>6. Cardinality({x \in db : x < e}) < BatchSize
    BY DEF FirstEntries
  <2> QED BY <2>4, <2>5, <2>6, SMT DEF FirstEntries, LogAssumption
<1> QED BY <1>1, <1>2, <1>3

-----------------------------------------------------------------------------
(* The steps.                                                              *)

\* A page leaves its phase for one without a call.  If it had a call, the
\* handler is set free or works on unawaited.
LEMMA PageMoves ==
    ASSUME QueueInv,
           NEW p \in Pages, NEW r \in Page,
           r.phase # "calling", r.call = None, r.batch \subseteq 1..last,
           r.phase = "deleting" => r.batch \subseteq Kept,
           page' = [page EXCEPT ![p] = r],
           handler' \in [Handlers -> Handler],
           \A h \in Handlers :
              \/ handler'[h] = handler[h]
              \/ /\ page[p].phase = "calling" /\ h = page[p].call
                 /\ \/ handler'[h] = Free
                    \/ handler'[h] = [handler[h] EXCEPT !.awaited = FALSE],
           stored' = stored, last' = last, dropped \subseteq dropped'
    PROVE  page' \in [Pages -> Page] /\ Linked' /\ OwnHandler' /\ Working'
<1> USE DEF QueueInv, Kept
<1>1. page' \in [Pages -> Page] /\ page'[p] = r /\ \A q \in Pages \ {p} : page'[q] = page[q]
  BY DEF Types
<1>2. OwnHandler'
  BY <1>1 DEF OwnHandler
<1>3. ASSUME NEW q \in Pages \ {p}, page[q].phase = "calling"
      PROVE  handler'[page[q].call] = handler[page[q].call]
  <2>1. page[q].call \in Handlers /\ ~(page[p].phase = "calling" /\ page[q].call = page[p].call)
    BY <1>3 DEF Linked, OwnHandler
  <2> QED BY <2>1
<1>4. Linked'
  <2> SUFFICES ASSUME NEW q \in Pages PROVE Linked!(q)'
    BY DEF Linked
  <2>1. CASE q = p
    BY <2>1, <1>1
  <2>2. CASE q # p
    BY <2>2, <1>1, <1>3, ZenonT(30) DEF Linked
  <2> QED BY <2>1, <2>2
<1>5. Working'
  <2> SUFFICES ASSUME NEW h \in Handlers PROVE Working!(h)'
    BY DEF Working
  <2>1. CASE handler'[h] = Free
    BY <2>1, SMT DEF Free
  <2>2. CASE handler'[h].state = handler[h].state /\ handler'[h].todo = handler[h].todo
    BY <2>2 DEF Working
  <2>3. handler[h] \in Handler
    BY DEF Types
  <2> QED BY <2>1, <2>2, <2>3, ZenonT(30) DEF Handler
<1> QED BY <1>1, <1>2, <1>4, <1>5

\* Both properties are about what was captured, kept and given up.
LEMMA SameEntries ==
    ASSUME NothingVanishes, ArrivesInOrder,
           last' = last, db' = db, stored' = stored, dropped' = dropped
    PROVE  NothingVanishes' /\ ArrivesInOrder'
BY DEF NothingVanishes, ArrivesInOrder, Kept

\* Steps of a page that change nothing but where it stands.
LEMMA QueueInvPage ==
    ASSUME QueueInv, NEW p \in Pages, Open(p) \/ Run(p) \/ StoreFails(p)
    PROVE  QueueInv'
<1> DEFINE r == IF Open(p) THEN [page[p] EXCEPT !.phase = "scheduled"]
                ELSE IF Run(p) THEN [page[p] EXCEPT !.phase = "reading"]
                ELSE Rescheduled(page[p])
<1>1. page[p] \in Page /\ page[p].batch \subseteq 1..last /\ handler \in [Handlers -> Handler]
  BY DEF QueueInv, Types, Linked
<1>2. page' = [page EXCEPT ![p] = r] /\ UNCHANGED <<last, db, handler, stored, dropped>>
  BY <1>1 DEF Open, Run, StoreFails, Rescheduled, serverLog
<1>3. r \in Page /\ r.phase \in {"scheduled", "reading"} /\ r.call = None /\ r.batch \subseteq 1..last
  <2>1. page[p].phase # "calling" => page[p].call = None
    BY DEF QueueInv, Linked
  <2>2. page[p].phase # "calling"
    BY DEF Open, Run, StoreFails
  <2> QED BY <2>1, <2>2, <1>1 DEF Rescheduled, Page, Phases
<1> HIDE DEF r
<1>4. page' \in [Pages -> Page] /\ Linked' /\ OwnHandler' /\ Working'
  BY <1>1, <1>2, <1>3, PageMoves
<1>5. NothingVanishes' /\ ArrivesInOrder'
  BY <1>2, SameEntries DEF QueueInv
<1> QED BY <1>1, <1>2, <1>4, <1>5 DEF QueueInv, Types

\* An unloading page goes on as before.
LEMMA QueueInvUnload ==
    ASSUME QueueInv, NEW p \in Pages, Unload(p)
    PROVE  QueueInv'
<1>1. /\ page \in [Pages -> Page]
      /\ page' = [page EXCEPT ![p].unloading = TRUE]
      /\ UNCHANGED <<last, db, handler, stored, dropped>>
  BY DEF Unload, QueueInv, Types, serverLog
<1>2. /\ page' \in [Pages -> Page]
      /\ \A q \in Pages : /\ page'[q].phase = page[q].phase
                          /\ page'[q].batch = page[q].batch
                          /\ page'[q].call = page[q].call
  BY <1>1 DEF Page
<1>3. Linked'
  BY <1>1, <1>2, SMT DEF QueueInv, Linked, Kept
<1>4. OwnHandler'
  BY <1>2, ZenonT(30) DEF QueueInv, OwnHandler
<1>5. Working'
  BY <1>1 DEF QueueInv, Working, Kept
<1>6. NothingVanishes' /\ ArrivesInOrder'
  BY <1>1, SameEntries DEF QueueInv
<1> QED BY <1>1, <1>2, <1>3, <1>4, <1>5, <1>6 DEF QueueInv, Types

\* A captured entry is new and in the table.
LEMMA QueueInvCapture ==
    ASSUME QueueInv, LogAssumption, NEW p \in Pages, Capture(p)
    PROVE  QueueInv'
<1>1. /\ last < MaxEntries /\ last' = last + 1 /\ db' = db \cup {last + 1}
      /\ UNCHANGED <<page, handler, stored, dropped>>
  BY DEF Capture, serverLog
<1>2. last \in Nat /\ 1..(last + 1) = 1..last \cup {last + 1} /\ last' \in 0..MaxEntries
  BY <1>1, SMT DEF QueueInv, Types, LogAssumption
<1>3. Types'
  BY <1>1, <1>2 DEF QueueInv, Types
<1>4. Linked'
  BY <1>1, <1>2 DEF QueueInv, Linked, Kept
<1>5. OwnHandler'
  BY <1>1 DEF QueueInv, OwnHandler
<1>6. Working'
  BY <1>1, <1>2 DEF QueueInv, Working, Kept
<1>7. NothingVanishes'
  <2>1. Kept \cap 1..(last + 1) \subseteq (Kept \cap 1..last) \cup {last + 1}
    BY <1>2
  <2> QED BY <1>1, <1>2, <2>1 DEF QueueInv, NothingVanishes, Kept
<1>8. ArrivesInOrder'
  BY <1>1 DEF QueueInv, ArrivesInOrder
<1> QED BY <1>3, <1>4, <1>5, <1>6, <1>7, <1>8 DEF QueueInv

\* A page without entries to send is scheduled again; a page with entries has
\* a handler of its own, which has the whole batch to write.
LEMMA QueueInvReadBatch ==
    ASSUME QueueInv, LogAssumption, NEW p \in Pages, ReadBatch(p)
    PROVE  QueueInv'
<1>1. /\ page[p] \in Page /\ page[p].batch \subseteq 1..last /\ page[p].phase = "reading"
      /\ page \in [Pages -> Page] /\ handler \in [Handlers -> Handler]
      /\ db \subseteq 1..last /\ last \in 0..MaxEntries
  BY DEF QueueInv, Types, Linked, ReadBatch
<1>2. UNCHANGED <<last, db, stored, dropped>>
  BY DEF ReadBatch, serverLog
<1>3. NothingVanishes' /\ ArrivesInOrder'
  BY <1>2, SameEntries DEF QueueInv
<1>4. CASE db = {}
  <2> DEFINE r == Rescheduled(page[p])
  <2>1. page' = [page EXCEPT ![p] = r] /\ handler' = handler
    BY <1>1, <1>4 DEF ReadBatch
  <2>2. r \in Page /\ r.phase = "scheduled" /\ r.call = None /\ r.batch \subseteq 1..last
    BY <1>1 DEF Rescheduled, Page, Phases
  <2> HIDE DEF r
  <2>3. page' \in [Pages -> Page] /\ Linked' /\ OwnHandler' /\ Working'
    BY <1>1, <1>2, <2>1, <2>2, PageMoves
  <2> QED BY <1>1, <1>2, <1>3, <2>1, <2>3 DEF QueueInv, Types
<1>5. CASE db # {}
  <2> DEFINE b == FirstEntries
             c == Slot
             g == [state |-> "sent", todo |-> b, awaited |-> TRUE]
             r == [page[p] EXCEPT !.phase = "calling", !.batch = b, !.call = c]
  <2>1. b \subseteq db /\ b # {} /\ \A e \in b : \A d \in db : d < e => d \in b
    BY <1>5, BatchIsFirst DEF QueueInv
  <2>2. c \in Handlers
    <3>1. \E h \in Handlers : handler[h].state = "free" \/ \A k \in Handlers : handler[k].state # "free"
      BY DEF LogAssumption
    <3> QED BY <3>1 DEF Slot
  <2>3. /\ handler[c].state = "free"
        /\ handler' = [handler EXCEPT ![c] = g]
        /\ page' = [page EXCEPT ![p] = r]
    BY <1>1, <1>5 DEF ReadBatch
  <2>4. b \subseteq 1..last /\ b \subseteq Entries
    BY <1>1, <2>1, SMT DEF Entries
  <2> HIDE DEF b, c
  <2>5. r \in Page /\ r.phase = "calling" /\ r.batch = b /\ r.call = c
    BY <1>1, <2>2, <2>4 DEF Page, Phases
  <2>6. g \in Handler
    BY <2>4 DEF Handler
  <2> HIDE DEF r
  <2>7. page' \in [Pages -> Page] /\ page'[p] = r /\ \A q \in Pages \ {p} : page'[q] = page[q]
    BY <1>1, <2>3, <2>5
  <2>8. /\ handler' \in [Handlers -> Handler]
        /\ handler'[c] = g /\ \A h \in Handlers \ {c} : handler'[h] = handler[h]
    BY <1>1, <2>2, <2>3, <2>6
  <2>9. \A q \in Pages : page[q].phase = "calling" => page[q].call \in Handlers \ {c}
    BY <2>3 DEF QueueInv, Linked
  <2>10. Linked'
    <3> SUFFICES ASSUME NEW q \in Pages PROVE Linked!(q)'
      BY DEF Linked
    <3>1. CASE q = p
      <4>1. page'[q].phase = "calling" /\ page'[q].batch = b /\ page'[q].call = c
        BY <3>1, <2>5, <2>7
      <4>2. handler'[c].state = "sent" /\ handler'[c].todo = b /\ handler'[c].awaited
        BY <2>8, SMT
      <4>3. page'[q].batch \ handler'[page'[q].call].todo = {}
        BY <4>1, <4>2
      <4> QED BY <4>1, <4>2, <4>3, <1>2, <2>2, <2>4
    <3>2. CASE q # p
      BY <3>2, <1>2, <2>7, <2>8, <2>9, SMT DEF QueueInv, Linked, Kept
    <3> QED BY <3>1, <3>2
  <2>11. OwnHandler'
    BY <2>5, <2>7, <2>9, ZenonT(30) DEF QueueInv, OwnHandler
  <2>12. Working'
    <3> SUFFICES ASSUME NEW h \in Handlers PROVE Working!(h)'
      BY DEF Working
    <3>1. CASE h = c
      <4>1. ASSUME NEW e \in b, NEW d \in 1..(e - 1)
            PROVE  d \in b \/ d \in Kept \/ d \in dropped
        <5>1. d \in 1..last /\ d < e
          BY <4>1, <1>1, <2>4, SMT
        <5>2. d \in db \/ d \in Kept \/ d \in dropped
          BY <5>1 DEF QueueInv, NothingVanishes
        <5> QED BY <5>1, <5>2, <2>1
      <4>2. handler'[h].state = "sent" /\ handler'[h].todo = b
        BY <3>1, <2>8, SMT
      <4>3. Kept' = Kept
        BY <1>2 DEF Kept
      <4> QED BY <4>1, <4>2, <4>3, <1>2, <2>1, <2>4
    <3>2. CASE h # c
      BY <3>2, <1>2, <2>8 DEF QueueInv, Working, Kept
    <3> QED BY <3>1, <3>2
  <2> QED BY <1>1, <1>2, <1>3, <2>7, <2>8, <2>10, <2>11, <2>12 DEF QueueInv, Types
<1> QED BY <1>4, <1>5

\* A pruned entry is kept by the server.
LEMMA QueueInvPrune ==
    ASSUME QueueInv, NEW p \in Pages, Prune(p)
    PROVE  QueueInv'
<1> DEFINE r == AfterBatch(page[p])
<1>1. /\ page[p] \in Page /\ page[p].batch \subseteq 1..last /\ page[p].batch \subseteq Kept
      /\ handler \in [Handlers -> Handler]
  BY DEF QueueInv, Types, Linked, Prune
<1>2. /\ page' = [page EXCEPT ![p] = r] /\ db' = db \ page[p].batch
      /\ UNCHANGED <<last, handler, stored, dropped>>
  BY DEF Prune, Pruned, serverLog, QueueInv, Types
<1>3. r \in Page /\ r.phase \in {"scheduled", "reading"} /\ r.call = None /\ r.batch = {}
  BY <1>1 DEF AfterBatch, Rescheduled, Page, Phases
<1> HIDE DEF r
<1>4. page' \in [Pages -> Page] /\ Linked' /\ OwnHandler' /\ Working'
  BY <1>1, <1>2, <1>3, PageMoves
<1>5. NothingVanishes'
  BY <1>1, <1>2 DEF QueueInv, NothingVanishes, Kept
<1>6. ArrivesInOrder'
  BY <1>2 DEF QueueInv, ArrivesInOrder
<1> QED BY <1>1, <1>2, <1>4, <1>5, <1>6 DEF QueueInv, Types

\* A cleared entry is given up.
LEMMA QueueInvClear ==
    ASSUME QueueInv, NEW p \in Pages, ClearQueue(p)
    PROVE  QueueInv'
<1> DEFINE r == Rescheduled(page[p])
<1>1. page[p] \in Page /\ page[p].batch \subseteq 1..last /\ handler \in [Handlers -> Handler]
  BY DEF QueueInv, Types, Linked
<1>2. /\ page' = [page EXCEPT ![p] = r] /\ db' = {} /\ dropped' = dropped \cup db
      /\ UNCHANGED <<last, handler, stored>>
  BY DEF ClearQueue, serverLog, QueueInv, Types
<1>3. r \in Page /\ r.phase = "scheduled" /\ r.call = None /\ r.batch = {}
  BY <1>1 DEF Rescheduled, Page, Phases
<1> HIDE DEF r
<1>4. page' \in [Pages -> Page] /\ Linked' /\ OwnHandler' /\ Working'
  BY <1>1, <1>2, <1>3, PageMoves
<1>5. NothingVanishes'
  BY <1>2 DEF QueueInv, NothingVanishes, Kept
<1>6. ArrivesInOrder'
  BY <1>2 DEF QueueInv, ArrivesInOrder
<1> QED BY <1>1, <1>2, <1>4, <1>5, <1>6 DEF QueueInv, Types

\* The answer ends the call: an acknowledged batch is kept.
LEMMA QueueInvLand ==
    ASSUME QueueInv, NEW p \in Pages, Land(p)
    PROVE  QueueInv'
<1> DEFINE c == page[p].call
           r == Landed(page[p], handler[c].state)
<1>1. /\ page[p] \in Page /\ page[p].batch \subseteq 1..last /\ page[p].phase = "calling"
      /\ page \in [Pages -> Page] /\ handler \in [Handlers -> Handler] /\ c \in Handlers
      /\ handler[c].state \in {"ok", "refused", "broken"}
  BY DEF QueueInv, Types, Linked, Land
<1>2. handler[c].state = "ok" => page[p].batch \subseteq Kept
  BY <1>1 DEF QueueInv, Linked, Working
<1>3. /\ page' = [page EXCEPT ![p] = r] /\ handler' = [handler EXCEPT ![c] = Free]
      /\ UNCHANGED <<last, db, stored, dropped>>
  BY <1>1 DEF Land, serverLog
<1>4. /\ r \in Page /\ r.phase \in {"deleting", "clearing", "scheduled"} /\ r.call = None
      /\ r.batch \subseteq page[p].batch
      /\ r.phase = "deleting" => handler[c].state = "ok"
  BY <1>1 DEF Landed, Rescheduled, Page, Phases
<1>5. Free \in Handler
  BY DEF Free, Handler
<1>6. handler' \in [Handlers -> Handler] /\ handler'[c] = Free
      /\ \A h \in Handlers \ {c} : handler'[h] = handler[h]
  BY <1>1, <1>3, <1>5
<1> HIDE DEF r
<1>7. page' \in [Pages -> Page] /\ Linked' /\ OwnHandler' /\ Working'
  BY <1>1, <1>2, <1>3, <1>4, <1>6, PageMoves
<1>8. NothingVanishes' /\ ArrivesInOrder'
  BY <1>3, SameEntries DEF QueueInv
<1> QED BY <1>3, <1>6, <1>7, <1>8 DEF QueueInv, Types

\* What becomes of a handler nobody waits for.
LEMMA AbandonedHandler ==
    ASSUME NEW g \in Handler
    PROVE  /\ Abandoned(g) \in Handler /\ Free \in Handler
           /\ Abandoned(g) = Free \/ Abandoned(g) = [g EXCEPT !.awaited = FALSE]
BY DEF Abandoned, Free, Handler

\* A lost answer leaves the batch in the table.
LEMMA QueueInvLose ==
    ASSUME QueueInv, NEW p \in Pages, Lose(p)
    PROVE  QueueInv'
<1> DEFINE c == page[p].call
           r == Rescheduled(page[p])
<1>1. /\ page[p] \in Page /\ page[p].phase = "calling"
      /\ page \in [Pages -> Page] /\ handler \in [Handlers -> Handler] /\ c \in Handlers
  BY DEF QueueInv, Types, Linked, Lose
<1>2. /\ page' = [page EXCEPT ![p] = r]
      /\ UNCHANGED <<last, db, stored, dropped>>
  BY <1>1 DEF Lose, serverLog
<1>3. PICK g \in {Abandoned(handler[c]), Free} : handler' = [handler EXCEPT ![c] = g]
  BY DEF Lose
<1>4. g \in Handler /\ (g = Free \/ g = [handler[c] EXCEPT !.awaited = FALSE])
  BY <1>1, <1>3, AbandonedHandler
<1>5. handler' \in [Handlers -> Handler] /\ handler'[c] = g
      /\ \A h \in Handlers \ {c} : handler'[h] = handler[h]
  BY <1>1, <1>3, <1>4
<1>6. r \in Page /\ r.phase = "scheduled" /\ r.call = None /\ r.batch = {}
  BY <1>1 DEF Rescheduled, Page, Phases
<1> HIDE DEF r
<1>7. page' \in [Pages -> Page] /\ Linked' /\ OwnHandler' /\ Working'
  BY <1>1, <1>2, <1>4, <1>5, <1>6, PageMoves
<1>8. NothingVanishes' /\ ArrivesInOrder'
  BY <1>2, SameEntries DEF QueueInv
<1> QED BY <1>2, <1>5, <1>7, <1>8 DEF QueueInv, Types

\* A closed page leaves the table as it is, and its handler to itself.
LEMMA QueueInvClose ==
    ASSUME QueueInv, LogAssumption, NEW p \in Pages, Close(p)
    PROVE  QueueInv'
<1> DEFINE c == page[p].call
           r == [phase |-> "closed", batch |-> {}, unloading |-> TRUE, call |-> None]
<1>1. page \in [Pages -> Page] /\ handler \in [Handlers -> Handler]
      /\ (page[p].phase # "calling" => c \notin Handlers)
  BY DEF QueueInv, Types, Linked, LogAssumption
<1>2. /\ page' = [page EXCEPT ![p] = r]
      /\ handler' = [h \in Handlers |-> IF h = c THEN Abandoned(handler[h]) ELSE handler[h]]
      /\ UNCHANGED <<last, db, stored, dropped>>
  BY DEF Close, serverLog
<1>3. \A h \in Handlers :
         /\ handler'[h] \in Handler
         /\ \/ handler'[h] = handler[h]
            \/ /\ page[p].phase = "calling" /\ h = c
               /\ handler'[h] = Free \/ handler'[h] = [handler[h] EXCEPT !.awaited = FALSE]
  <2> SUFFICES ASSUME NEW h \in Handlers
               PROVE  <1>3!(h)
    OBVIOUS
  <2>1. CASE h = c
    BY <2>1, <1>1, <1>2, AbandonedHandler
  <2>2. CASE h # c
    BY <2>2, <1>1, <1>2
  <2> QED BY <2>1, <2>2
<1>4. handler' \in [Handlers -> Handler]
  BY <1>2, <1>3
<1>5. r \in Page /\ r.phase = "closed" /\ r.call = None /\ r.batch = {}
  BY DEF Page, Phases
<1> HIDE DEF r
<1>6. page' \in [Pages -> Page] /\ Linked' /\ OwnHandler' /\ Working'
  BY <1>2, <1>3, <1>4, <1>5, PageMoves
<1>7. NothingVanishes' /\ ArrivesInOrder'
  BY <1>2, SameEntries DEF QueueInv
<1> QED BY <1>2, <1>4, <1>6, <1>7 DEF QueueInv, Types
-----------------------------------------------------------------------------
\* Handlers move on.  One that is waited for stays, and works off its batch by
\* writing it.
LEMMA HandlersMove ==
    ASSUME QueueInv,
           UNCHANGED <<page, last, dropped>>, Kept \subseteq Kept',
           handler' \in [Handlers -> Handler],
           \A h \in Handlers : handler[h].awaited /\ handler[h].state # "free" =>
              /\ handler'[h].awaited /\ handler'[h].state # "free"
              /\ handler'[h].state \in {"sent", "serving", "ok"} =>
                    /\ handler[h].state \in {"sent", "serving", "ok"}
                    /\ handler[h].todo \ handler'[h].todo \subseteq Kept'
    PROVE  Linked' /\ OwnHandler'
<1>1. OwnHandler'
  BY DEF QueueInv, OwnHandler
<1>2. Linked'
  <2> SUFFICES ASSUME NEW q \in Pages PROVE Linked!(q)'
    BY DEF Linked
  <2>1. CASE page[q].phase = "calling"
    <3>1. /\ page[q].call \in Handlers /\ handler[page[q].call].state # "free"
          /\ handler[page[q].call].awaited
      BY <2>1 DEF QueueInv, Linked
    <3>2. handler[page[q].call].state \in {"sent", "serving", "ok"} =>
             page[q].batch \ handler[page[q].call].todo \subseteq Kept
      BY <2>1 DEF QueueInv, Linked
    <3>3. page[q].batch \subseteq 1..last
      BY DEF QueueInv, Linked
    <3> QED BY <2>1, <3>1, <3>2, <3>3
  <2>2. CASE page[q].phase # "calling"
    BY <2>2 DEF QueueInv, Linked
  <2> QED BY <2>1, <2>2
<1> QED BY <1>1, <1>2

\* The interceptor writes nothing.
LEMMA QueueInvAuthenticate ==
    ASSUME QueueInv, NEW h \in Handlers, Authenticate(h)
    PROVE  QueueInv'
<1> DEFINE g == IF session THEN [handler[h] EXCEPT !.state = "serving"]
                ELSE IF handler[h].awaited THEN [handler[h] EXCEPT !.state = "refused"]
                ELSE Free
<1>1. handler \in [Handlers -> Handler] /\ handler[h] \in Handler /\ handler[h].state = "sent"
  BY DEF QueueInv, Types, Authenticate
<1>2. handler' = [handler EXCEPT ![h] = g] /\ UNCHANGED <<last, db, page, stored, dropped>>
  BY <1>1 DEF Authenticate, serverLog
<1>3. /\ g \in Handler
      /\ \/ g.state \in {"serving", "refused"} /\ g.todo = handler[h].todo
         \/ g.state = "free" /\ g.todo = {}
  BY <1>1 DEF Handler, Free
<1>4. handler[h].awaited => g.awaited /\ g.state \in {"serving", "refused"}
  <2>1. ASSUME handler[h].awaited, session PROVE g = [handler[h] EXCEPT !.state = "serving"]
    BY <2>1
  <2>2. ASSUME handler[h].awaited, ~session PROVE g = [handler[h] EXCEPT !.state = "refused"]
    BY <2>2
  <2>3. ASSUME NEW s, handler[h].awaited
        PROVE  [handler[h] EXCEPT !.state = s].awaited /\ [handler[h] EXCEPT !.state = s].state = s
    BY <2>3, <1>1 DEF Handler
  <2> HIDE DEF g
  <2> QED BY <2>1, <2>2, <2>3
<1> HIDE DEF g
<1>5. /\ handler' \in [Handlers -> Handler]
      /\ handler'[h] = g /\ \A k \in Handlers \ {h} : handler'[k] = handler[k]
  BY <1>1, <1>2, <1>3
<1>6. Kept' = Kept
  BY <1>2 DEF Kept
<1>7. Linked' /\ OwnHandler'
  BY <1>1, <1>2, <1>3, <1>4, <1>5, <1>6, HandlersMove
<1>8. Working'
  <2> SUFFICES ASSUME NEW k \in Handlers PROVE Working!(k)'
    BY DEF Working
  <2>1. CASE k = h
    BY <2>1, <1>1, <1>2, <1>3, <1>5, <1>6 DEF QueueInv, Working
  <2>2. CASE k # h
    BY <2>2, <1>2, <1>5, <1>6 DEF QueueInv, Working
  <2> QED BY <2>1, <2>2
<1>9. NothingVanishes' /\ ArrivesInOrder'
  BY <1>2, SameEntries DEF QueueInv
<1> QED BY <1>2, <1>5, <1>7, <1>8, <1>9 DEF QueueInv, Types

\* The entry written is the first one left of the batch, so every entry before
\* it was written or given up.
LEMMA QueueInvIngest ==
    ASSUME QueueInv, LogAssumption, NEW h \in Handlers, IngestEntry(h)
    PROVE  QueueInv'
<1> DEFINE todo == handler[h].todo
           e == NextEntry(todo)
           g == Progress(handler[h], todo \ {e})
<1>1. /\ handler \in [Handlers -> Handler] /\ handler[h] \in Handler
      /\ handler[h].state = "serving" /\ todo # {} /\ todo \subseteq 1..last
      /\ last \in 0..MaxEntries /\ stored \in Seq(Entries)
  BY DEF QueueInv, Types, Working, IngestEntry
<1>2. e \in todo /\ \A d \in todo : e <= d
  <2>1. todo \subseteq Nat
    BY <1>1, SMT
  <2> QED BY <1>1, <2>1, NextEntryLeast
<1>3. /\ handler' = [handler EXCEPT ![h] = g] /\ stored' = Append(stored, e)
      /\ UNCHANGED <<last, db, page, dropped>>
  BY <1>1 DEF IngestEntry
<1> HIDE DEF e
<1>4. e \in 1..last /\ e \in Entries
  BY <1>1, <1>2, SMT DEF Entries
<1>5. /\ g \in Handler
      /\ \/ g = [handler[h] EXCEPT !.todo = todo \ {e}] /\ todo \ {e} # {}
         \/ g = [handler[h] EXCEPT !.todo = {}, !.state = "ok"] /\ todo \ {e} = {}
         \/ g = Free /\ ~handler[h].awaited /\ todo \ {e} = {}
  BY <1>1 DEF Progress, Handler, Free
<1> HIDE DEF g
<1>6. /\ handler' \in [Handlers -> Handler]
      /\ handler'[h] = g /\ \A k \in Handlers \ {h} : handler'[k] = handler[k]
  BY <1>1, <1>3, <1>5
<1>7. stored' \in Seq(Entries) /\ Kept' = Kept \cup {e}
  BY <1>1, <1>3, <1>4, KeptAppend DEF Kept
<1>8. /\ g.todo = todo \ {e}
      /\ g.state \in {"serving", "ok", "free"}
      /\ g.state = "serving" => todo \ {e} # {}
      /\ g.state = "ok" => todo \ {e} = {}
  <2>1. CASE g = [handler[h] EXCEPT !.todo = todo \ {e}] /\ todo \ {e} # {}
    BY <2>1, <1>1 DEF Handler
  <2>2. CASE g = [handler[h] EXCEPT !.todo = {}, !.state = "ok"] /\ todo \ {e} = {}
    BY <2>2, <1>1 DEF Handler
  <2>3. CASE g = Free /\ todo \ {e} = {}
    BY <2>3 DEF Free
  <2> QED BY <1>5, <2>1, <2>2, <2>3
<1>9. handler[h].awaited => g.awaited /\ g.state # "free"
  BY <1>1, <1>5 DEF Handler
<1>10. Linked' /\ OwnHandler'
  BY <1>1, <1>3, <1>6, <1>7, <1>8, <1>9, HandlersMove
<1>11. Working'
  <2> SUFFICES ASSUME NEW k \in Handlers PROVE Working!(k)'
    BY DEF Working
  <2>1. CASE k = h
    <3>1. \A x \in todo : \A d \in 1..(x - 1) : d \in todo \/ d \in Kept \/ d \in dropped
      BY DEF QueueInv, Working
    <3>2. handler'[k].todo = todo \ {e} /\ handler'[k].state = g.state
      BY <2>1, <1>6, <1>8
    <3> QED BY <1>1, <1>3, <1>7, <1>8, <3>1, <3>2
  <2>2. CASE k # h
    BY <2>2, <1>3, <1>6, <1>7 DEF QueueInv, Working
  <2> QED BY <2>1, <2>2
<1>12. NothingVanishes'
  BY <1>3, <1>4, <1>7 DEF QueueInv, NothingVanishes
<1>13. ArrivesInOrder'
  <2>1. /\ DOMAIN stored' = 1..(Len(stored) + 1) /\ Len(stored) \in Nat
        /\ DOMAIN stored = 1..Len(stored)
        /\ stored'[Len(stored) + 1] = e /\ \A i \in 1..Len(stored) : stored'[i] = stored[i]
    BY <1>1, <1>3, <1>4, SMT
  <2> SUFFICES ASSUME NEW k \in 1..(Len(stored) + 1), NEW d \in 1..(stored'[k] - 1)
               PROVE  d \in dropped \/ \E j \in 1..(k - 1) : stored'[j] = d
    BY <2>1, <1>3 DEF ArrivesInOrder
  <2>2. CASE k \in 1..Len(stored)
    <3>1. d \in dropped \/ \E j \in 1..(k - 1) : stored[j] = d
      BY <2>1, <2>2 DEF QueueInv, ArrivesInOrder
    <3> QED BY <2>1, <2>2, <3>1, SMT
  <2>3. CASE k = Len(stored) + 1
    <3>1. d \in todo \/ d \in Kept \/ d \in dropped
      BY <2>1, <2>3, <1>2 DEF QueueInv, Working
    <3>2. d \notin todo
      BY <2>1, <2>3, <1>2, <1>4, SMT
    <3>3. d \in Kept => \E j \in 1..Len(stored) : stored[j] = d
      BY <2>1 DEF Kept, Range
    <3>4. 1..(k - 1) = 1..Len(stored)
      BY <2>1, <2>3, SMT
    <3> QED BY <2>1, <3>1, <3>2, <3>3, <3>4
  <2> QED BY <2>1, <2>2, <2>3, SMT
<1> QED BY <1>3, <1>6, <1>7, <1>10, <1>11, <1>12, <1>13 DEF QueueInv, Types

\* A restart breaks every call; what was written stays in the log.
LEMMA QueueInvRestart ==
    ASSUME QueueInv, Restart
    PROVE  QueueInv'
<1>1. handler \in [Handlers -> Handler] /\ UNCHANGED <<last, db, page, stored, dropped>>
  BY DEF QueueInv, Types, Restart
<1>2. handler' = [h \in Handlers |->
                     IF handler[h].state \in {"sent", "serving"} /\ handler[h].awaited
                     THEN [handler[h] EXCEPT !.state = "broken"]
                     ELSE IF handler[h].awaited THEN handler[h] ELSE Free]
  BY DEF Restart
<1>3. ASSUME NEW h \in Handlers
      PROVE  \/ handler'[h] = [handler[h] EXCEPT !.state = "broken"]
             \/ handler'[h] = handler[h]
             \/ handler'[h] = Free /\ ~handler[h].awaited
  BY <1>2, <1>3
<1>4. ASSUME NEW h \in Handlers
      PROVE  /\ handler'[h] \in Handler
             /\ handler'[h].todo = handler[h].todo \/ handler'[h].todo = {}
             /\ handler'[h].state \in {"broken", "free"} \/ handler'[h] = handler[h]
  <2>1. CASE handler'[h] = [handler[h] EXCEPT !.state = "broken"]
    BY <2>1, <1>1, <1>4 DEF Handler
  <2>2. CASE handler'[h] = handler[h]
    BY <2>2, <1>1, <1>4
  <2>3. CASE handler'[h] = Free
    BY <2>3, SMT DEF Handler, Free
  <2> QED BY <1>3, <1>4, <2>1, <2>2, <2>3
<1>5. handler' \in [Handlers -> Handler]
  BY <1>2, <1>4
<1>6. ASSUME NEW h \in Handlers, handler[h].awaited, handler[h].state # "free"
      PROVE  handler'[h].awaited /\ handler'[h].state # "free"
  BY <1>1, <1>3, <1>6 DEF Handler
<1>7. Kept' = Kept
  BY <1>1 DEF Kept
<1>8. Linked' /\ OwnHandler'
  BY <1>1, <1>4, <1>5, <1>6, <1>7, HandlersMove
<1>9. Working'
  <2> SUFFICES ASSUME NEW h \in Handlers PROVE Working!(h)'
    BY DEF Working
  <2>1. CASE handler'[h] = handler[h]
    BY <2>1, <1>1, <1>7 DEF QueueInv, Working
  <2>2. CASE handler'[h].state \in {"broken", "free"}
    BY <2>2, <1>1, <1>4, <1>7 DEF QueueInv, Working
  <2> QED BY <1>4, <2>1, <2>2
<1>10. NothingVanishes' /\ ArrivesInOrder'
  BY <1>1, SameEntries DEF QueueInv
<1> QED BY <1>1, <1>5, <1>8, <1>9, <1>10 DEF QueueInv, Types

\* A step that leaves the queue, the pages, the handlers and the log alone.
LEMMA QueueInvStutter ==
    ASSUME QueueInv, UNCHANGED <<last, db, page, handler, stored, dropped>>
    PROVE  QueueInv'
<1>1. Types' /\ NothingVanishes' /\ ArrivesInOrder'
  BY DEF QueueInv, Types, NothingVanishes, ArrivesInOrder, Kept
<1>2. Linked' /\ OwnHandler' /\ Working'
  BY DEF QueueInv, Linked, OwnHandler, Working, Kept
<1> QED BY <1>1, <1>2 DEF QueueInv

-----------------------------------------------------------------------------
(* The theorems.                                                           *)

\* The invariant holds of the first state: no page is open and nothing was
\* captured.
LEMMA QueueInvInit ==
    ASSUME LogAssumption, Init
    PROVE  QueueInv
<1>1. Types
  <2>1. <<>> \in Seq(Entries)
    BY SMT
  <2>2. [phase |-> "unopened", batch |-> {}, unloading |-> FALSE, call |-> None] \in Page
    BY DEF Page, Phases
  <2>3. Free \in Handler
    BY DEF Free, Handler
  <2> QED BY <2>1, <2>2, <2>3, SMT DEF Init, Types, LogAssumption
<1>2. Linked /\ OwnHandler
  BY DEF Init, Linked, OwnHandler
<1>3. Working
  BY DEF Init, Working, Free
<1>4. NothingVanishes
  BY SMT DEF Init, NothingVanishes, Kept, Range
<1>5. ArrivesInOrder
  BY SMT DEF Init, ArrivesInOrder
<1> QED BY <1>1, <1>2, <1>3, <1>4, <1>5 DEF QueueInv

\* Every step of a page, of a handler and of the environment keeps it.
LEMMA QueueInvNext ==
    ASSUME LogAssumption, QueueInv, [Next]_vars
    PROVE  QueueInv'
<1>1. ASSUME NEW p \in Pages,
             Open(p) \/ Capture(p) \/ Unload(p) \/ Close(p) \/ Step(p) \/ StoreFails(p) \/ Lose(p)
      PROVE  QueueInv'
  BY <1>1, QueueInvPage, QueueInvCapture, QueueInvUnload, QueueInvClose, QueueInvReadBatch,
     QueueInvPrune, QueueInvClear, QueueInvLand, QueueInvLose, ZenonT(30) DEF Step
<1>2. ASSUME NEW h \in Handlers, Serve(h)
      PROVE  QueueInv'
  BY <1>2, QueueInvAuthenticate, QueueInvIngest DEF Serve
<1>3. CASE Restart
  BY <1>3, QueueInvRestart
<1>4. CASE SignInOrOut \/ UNCHANGED vars
  <2>1. UNCHANGED <<last, db, page, handler, stored, dropped>>
    BY <1>4 DEF SignInOrOut, vars, serverLog
  <2> QED BY <2>1, QueueInvStutter
<1> QED BY <1>1, <1>2, <1>3, <1>4 DEF Next

\* The invariant of the queue holds always.
LEMMA QueueInvAlways == Spec => []QueueInv
<1>1. Init => QueueInv
  BY LogAssumption, QueueInvInit
<1>2. QueueInv /\ [Next]_vars => QueueInv'
  BY LogAssumption, QueueInvNext
<1> QED BY <1>1, <1>2, PTL DEF Spec

\* No captured entry disappears, whatever pages close, calls are lost and
\* servers restart: it is queued, written, or given up by a clear.
THEOREM QueueNothingVanishes == Spec => []NothingVanishes
<1>1. QueueInv => NothingVanishes
  BY DEF QueueInv
<1> QED BY <1>1, QueueInvAlways, PTL

\* Entries first reach the server's log in the order they were captured,
\* although several pages send overlapping batches.
THEOREM QueueArrivesInOrder == Spec => []ArrivesInOrder
<1>1. QueueInv => ArrivesInOrder
  BY DEF QueueInv
<1> QED BY <1>1, QueueInvAlways, PTL

\* Every step of the queue is a step of the abstract transfer, or changes
\* nothing it sees.
LEMMA QueueStepIsTransfer ==
    ASSUME LogAssumption, QueueInv, [Next]_vars
    PROVE  [Transfer!Next]_(Transfer!ltvars)
<1> USE DEF Transfer!ltvars, Transfer!Next
<1>1. ASSUME NEW p \in Pages, Capture(p)
      PROVE  Transfer!Capture
  BY <1>1 DEF Capture, Transfer!Capture, Kept, serverLog
<1>2. ASSUME NEW p \in Pages, Prune(p)
      PROVE  Transfer!Prune
  <2>1. page[p].batch \subseteq Kept /\ db' = db \ page[p].batch
        /\ UNCHANGED <<last, stored, dropped>>
    BY <1>2 DEF Prune, Pruned, QueueInv, Linked, serverLog
  <2>2. db \cap page[p].batch \in SUBSET (db \cap Kept)
        /\ db' = db \ (db \cap page[p].batch)
    BY <2>1
  <2> QED BY <2>1, <2>2 DEF Transfer!Prune, Kept
<1>3. ASSUME NEW p \in Pages, ClearQueue(p)
      PROVE  Transfer!GiveUp
  BY <1>3 DEF ClearQueue, Transfer!GiveUp, Kept, serverLog
<1>4. ASSUME NEW h \in Handlers, IngestEntry(h)
      PROVE  Transfer!Keep
  <2> DEFINE e == NextEntry(handler[h].todo)
  <2>1. /\ handler[h].todo # {} /\ handler[h].todo \subseteq 1..last
        /\ last \in 0..MaxEntries /\ stored \in Seq(Entries)
    BY <1>4 DEF IngestEntry, QueueInv, Working, Types
  <2>2. handler[h].todo \subseteq Nat
    BY <2>1, SMT
  <2>3. e \in 1..last /\ e \in Entries
    <3>1. e \in handler[h].todo
      BY <2>1, <2>2, NextEntryLeast
    <3> QED BY <3>1, <2>1, SMT DEF Entries
  <2>4. stored' = Append(stored, e) /\ UNCHANGED <<last, db, dropped>>
    BY <1>4 DEF IngestEntry
  <2> HIDE DEF e
  <2>5. Kept' = Kept \cup {e}
    BY <2>1, <2>3, <2>4, KeptAppend DEF Kept
  <2> QED BY <2>3, <2>4, <2>5 DEF Transfer!Keep
<1>5. ASSUME UNCHANGED <<last, db, stored, dropped>>
      PROVE  UNCHANGED Transfer!ltvars
  BY <1>5 DEF Kept
<1>6. ASSUME NEW p \in Pages,
             Open(p) \/ Unload(p) \/ Close(p) \/ Run(p) \/ ReadBatch(p) \/ Land(p)
             \/ StoreFails(p) \/ Lose(p)
      PROVE  UNCHANGED <<last, db, stored, dropped>>
  BY <1>6 DEF Open, Unload, Close, Run, ReadBatch, Land, StoreFails, Lose, serverLog
<1>7. ASSUME (\E h \in Handlers : Authenticate(h)) \/ Restart \/ SignInOrOut \/ UNCHANGED vars
      PROVE  UNCHANGED <<last, db, stored, dropped>>
  BY <1>7 DEF Authenticate, Restart, SignInOrOut, vars, serverLog
<1> QED
  BY <1>1, <1>2, <1>3, <1>4, <1>5, <1>6, <1>7 DEF Next, Step, Serve

\* The queue implements at-least-once delivery: an entry leaves the table
\* because the server wrote it or because the table was cleared.
THEOREM QueueAtLeastOnce == Spec => AtLeastOnce
<1>1. Init => Transfer!Init
  BY SMT DEF Init, Transfer!Init, Kept, Range
<1>2. QueueInv /\ [Next]_vars => [Transfer!Next]_(Transfer!ltvars)
  BY LogAssumption, QueueStepIsTransfer
<1> QED BY <1>1, <1>2, QueueInvAlways, PTL DEF Spec, AtLeastOnce, Transfer!Spec

-----------------------------------------------------------------------------
(* The ring buffer and the log.                                            *)

LEMMA ModWraps ==
    ASSUME NEW C \in Nat \ {0}, NEW x \in 0..(2 * C - 1)
    PROVE  x % C = IF x < C THEN x ELSE x - C
BY SMT

LEMMA AppendReads ==
    ASSUME NEW s \in Seq(Entries), NEW e \in Entries
    PROVE  /\ Append(s, e) \in Seq(Entries) /\ Len(Append(s, e)) = Len(s) + 1
           /\ Append(s, e)[Len(s) + 1] = e
           /\ \A i \in 1..Len(s) : Append(s, e)[i] = s[i]
BY SMT

\* An entry that is written takes the place of the oldest one.
LEMMA RingInvIngest ==
    ASSUME LogAssumption, RingInv, stored \in Seq(Entries), NEW e \in Entries,
           stored' = Append(stored, e), ring' = RingAdd(ring, e), boot' = boot
    PROVE  RingInv'
<1> DEFINE n == Len(stored)
           c == ring.cursor
           es == ring.entries
           k == Fill
<1>1. Capacity \in Nat \ {0} /\ n \in Nat /\ boot \in 0..n
  BY SMT DEF LogAssumption, RingInv
<1>2. /\ Len(stored') = n + 1 /\ stored'[n + 1] = e /\ \A i \in 1..n : stored'[i] = stored[i]
  BY SMT
<1>3. /\ k \in 0..n /\ k <= Capacity
      /\ k = IF n - boot < Capacity THEN n - boot ELSE Capacity
  BY <1>1, SMT DEF Fill
<1>4. Fill' = IF k < Capacity THEN k + 1 ELSE k
  BY <1>1, <1>2, <1>3, SMT DEF Fill
<1>5. /\ c \in 0..(Capacity - 1) /\ es \in Seq(Entries) /\ Len(es) = k
      /\ k < Capacity => c = 0
      /\ ring = [entries |-> es, cursor |-> c] /\ ring.entries = es /\ ring.cursor = c
  BY DEF RingInv
<1>6. \A i \in 1..k : es[Wrapped(c + i)] = stored[n - k + i]
  BY DEF RingInv
<1>7. boot' \in 0..Len(stored')
  BY <1>1, <1>2, SMT
<1> HIDE DEF n, c, es, k
<1>8. CASE k < Capacity
  <2>1. ring'.entries = Append(es, e) /\ ring'.cursor = 0
        /\ ring' \in [entries: Seq(Entries), cursor: 0..(Capacity - 1)]
    <3>1. ring' = [ring EXCEPT !.entries = Append(es, e)]
      BY <1>5, <1>8 DEF RingAdd
    <3>2. ring' = [entries |-> Append(es, e), cursor |-> 0]
      BY <1>5, <1>8, <3>1
    <3>3. Append(es, e) \in Seq(Entries) /\ 0 \in 0..(Capacity - 1)
      BY <1>1, <1>5, SMT
    <3> QED BY <3>2, <3>3, SMT
  <2>2. \A i \in 1..k : es[i] = stored[n - k + i]
    BY <1>1, <1>3, <1>5, <1>6, <1>8, SMT DEF Wrapped
  <2>3. ASSUME NEW i \in 1..(k + 1)
        PROVE  ring'.entries[i] = stored'[(n + 1) - (k + 1) + i] /\ Wrapped(0 + i) = i
    <3>1. Wrapped(0 + i) = i
      BY <1>3, <1>8, SMT DEF Wrapped
    <3>2. CASE i \in 1..k
      <4>1. Append(es, e)[i] = es[i]
        BY <1>5, <3>2, SMT
      <4>2. n - k + i \in 1..n /\ (n + 1) - (k + 1) + i = n - k + i
        BY <1>1, <1>3, <3>2, SMT
      <4> QED BY <1>2, <2>1, <2>2, <3>1, <3>2, <4>1, <4>2
    <3>3. CASE i = k + 1
      <4>1. Append(es, e)[Len(es) + 1] = e
        BY <1>5, AppendReads
      <4>2. (n + 1) - (k + 1) + i = n + 1
        BY <1>1, <1>3, <3>3, SMT
      <4> QED BY <1>2, <1>5, <2>1, <3>1, <3>3, <4>1, <4>2, ZenonT(30)
    <3>4. i \in 1..k \/ i = k + 1
      BY <1>1, <1>3, SMT
    <3> QED BY <3>2, <3>3, <3>4
  <2>4. Len(ring'.entries) = k + 1 /\ Fill' = k + 1
    BY <1>4, <1>5, <1>8, <2>1, SMT
  <2>5. \A i \in 1..Fill' :
           ring'.entries[Wrapped(ring'.cursor + i)] = stored'[Len(stored') - Fill' + i]
    <3> TAKE i \in 1..Fill'
    <3>1. i \in 1..(k + 1)
      BY <2>4
    <3>2. ring'.entries[i] = stored'[(n + 1) - (k + 1) + i] /\ Wrapped(0 + i) = i
      BY <2>3, <3>1
    <3> QED BY <1>2, <2>1, <2>4, <3>2
  <2> QED BY <1>7, <2>1, <2>4, <2>5 DEF RingInv, Wrapped
<1>9. CASE k = Capacity
  <2> DEFINE d == IF c + 1 < Capacity THEN c + 1 ELSE 0
             fs == [es EXCEPT ![c + 1] = e]
  <2>1. (c + 1) % Capacity = d /\ d \in 0..(Capacity - 1)
    <3>1. c + 1 \in 0..(2 * Capacity - 1)
      BY <1>1, <1>5, SMT
    <3>2. (c + 1) % Capacity = IF c + 1 < Capacity THEN c + 1 ELSE (c + 1) - Capacity
      BY <1>1, <3>1, ModWraps
    <3> QED BY <1>1, <1>5, <3>2, SMT
  <2>2. ring' = [entries |-> fs, cursor |-> d]
    <3>1. ~(Len(ring.entries) < Capacity)
      BY <1>1, <1>5, <1>9, SMT
    <3>2. ring' = [entries |-> [ring.entries EXCEPT ![ring.cursor + 1] = e],
                   cursor |-> (ring.cursor + 1) % Capacity]
      BY <3>1 DEF RingAdd
    <3> QED BY <1>5, <2>1, <3>2
  <2>3. fs \in Seq(Entries) /\ Len(fs) = k /\ c + 1 \in 1..k
    BY <1>1, <1>5, <1>9, SMT
  <2>4. ASSUME NEW i \in 1..k
        PROVE  fs[Wrapped(d + i)] = stored'[(n + 1) - k + i]
    <3>1. CASE i < k
      <4>1. Wrapped(d + i) = Wrapped(c + (i + 1)) /\ Wrapped(c + (i + 1)) \in 1..k
            /\ Wrapped(c + (i + 1)) # c + 1
        BY <1>1, <1>5, <1>9, <3>1, SMT DEF Wrapped
      <4>2. es[Wrapped(c + (i + 1))] = stored[n - k + (i + 1)]
        BY <1>6, <3>1, <1>3, <1>9, SMT
      <4>3. n - k + (i + 1) \in 1..n /\ n - k + (i + 1) = (n + 1) - k + i
        BY <1>1, <1>3, <3>1, SMT
      <4>4. fs[Wrapped(d + i)] = es[Wrapped(c + (i + 1))]
        BY <1>5, <2>3, <4>1, SMT
      <4> QED BY <1>2, <4>2, <4>3, <4>4
    <3>2. CASE i = k
      <4>1. Wrapped(d + i) = c + 1
        BY <1>1, <1>5, <1>9, <3>2, SMT DEF Wrapped
      <4>2. fs[c + 1] = e
        BY <1>5, <2>3, SMT
      <4>3. (n + 1) - k + i = n + 1
        BY <1>1, <1>3, <3>2, SMT
      <4> QED BY <1>2, <4>1, <4>2, <4>3
    <3>3. i < k \/ i = k
      BY <1>1, <1>3, SMT
    <3> QED BY <3>1, <3>2, <3>3
  <2>5. Fill' = k
    BY <1>1, <1>4, <1>9, SMT
  <2> HIDE DEF d, fs
  <2>6. /\ ring'.entries = fs /\ ring'.cursor = d
        /\ ring' \in [entries: Seq(Entries), cursor: 0..(Capacity - 1)]
    BY <2>1, <2>2, <2>3, SMT
  <2>7. \A i \in 1..Fill' :
           ring'.entries[Wrapped(ring'.cursor + i)] = stored'[Len(stored') - Fill' + i]
    BY <1>2, <2>4, <2>5, <2>6
  <2>8. Len(ring'.entries) = Fill' /\ ~(Fill' < Capacity)
    BY <1>1, <1>9, <2>3, <2>5, <2>6, SMT
  <2> QED BY <1>7, <2>6, <2>7, <2>8 DEF RingInv, Wrapped
<1> QED BY <1>1, <1>3, <1>8, <1>9

\* A server that has just started has written nothing.
LEMMA RingInvEmpty ==
    ASSUME LogAssumption, stored \in Seq(Entries), ring = EmptyRing, boot = Len(stored)
    PROVE  RingInv
<1>1. Fill = 0 /\ Capacity \in Nat \ {0}
  BY SMT DEF Fill, LogAssumption
<1>2. EmptyRing \in [entries: Seq(Entries), cursor: 0..(Capacity - 1)]
      /\ Len(EmptyRing.entries) = 0 /\ EmptyRing.cursor = 0
  BY <1>1, SMT DEF EmptyRing
<1> QED BY <1>1, <1>2, SMT DEF RingInv

LEMMA RingInvNext ==
    ASSUME LogAssumption, QueueInv, RingInv, [Next]_vars
    PROVE  RingInv'
<1>1. stored \in Seq(Entries)
  BY DEF QueueInv, Types
<1>2. ASSUME NEW h \in Handlers, IngestEntry(h)
      PROVE  RingInv'
  <2>1. handler[h].todo # {} /\ handler[h].todo \subseteq 1..last /\ last \in 0..MaxEntries
    BY <1>2 DEF IngestEntry, QueueInv, Working, Types
  <2>2. NextEntry(handler[h].todo) \in Entries
    <3>1. handler[h].todo \subseteq Nat
      BY <2>1, SMT
    <3>2. NextEntry(handler[h].todo) \in handler[h].todo
      BY <2>1, <3>1, NextEntryLeast
    <3> QED BY <2>1, <3>2, SMT DEF Entries
  <2> QED BY <1>1, <1>2, <2>2, RingInvIngest DEF IngestEntry
<1>3. CASE Restart
  <2>1. stored' = stored /\ ring' = EmptyRing /\ boot' = Len(stored)
    BY <1>3 DEF Restart
  <2>2. Fill' = 0 /\ Capacity \in Nat \ {0} /\ Len(stored) \in Nat
    BY <1>1, <2>1, SMT DEF Fill, LogAssumption
  <2>3. EmptyRing \in [entries: Seq(Entries), cursor: 0..(Capacity - 1)]
        /\ Len(EmptyRing.entries) = 0 /\ EmptyRing.cursor = 0
    BY <2>2, SMT DEF EmptyRing
  <2> QED BY <2>1, <2>2, <2>3, SMT DEF RingInv
<1>4. CASE UNCHANGED serverLog
  BY <1>4 DEF RingInv, Fill, Wrapped, serverLog
<1>5. ASSUME NEW p \in Pages,
             Open(p) \/ Capture(p) \/ Unload(p) \/ Close(p) \/ Step(p) \/ StoreFails(p) \/ Lose(p)
      PROVE  UNCHANGED serverLog
  BY <1>5 DEF Open, Capture, Unload, Close, Step, Run, ReadBatch, Prune, ClearQueue, Land,
              StoreFails, Lose
<1>6. ASSUME (\E h \in Handlers : Authenticate(h)) \/ SignInOrOut \/ UNCHANGED vars
      PROVE  UNCHANGED serverLog
  BY <1>6 DEF Authenticate, SignInOrOut, vars, serverLog
<1> QED BY <1>2, <1>3, <1>4, <1>5, <1>6 DEF Next, Serve

LEMMA RingInvReads ==
    ASSUME LogAssumption, stored \in Seq(Entries), RingInv
    PROVE  RingReadsTail
<1> DEFINE n == Len(stored)
           c == ring.cursor
           k == Fill
<1>1. Capacity \in Nat \ {0} /\ n \in Nat /\ boot \in 0..n
  BY SMT DEF LogAssumption, RingInv
<1>2. k \in 0..n /\ k <= Capacity
  BY <1>1, SMT DEF Fill
<1>3. /\ c \in 0..(Capacity - 1) /\ ring.entries \in Seq(Entries) /\ Len(ring.entries) = k
      /\ k < Capacity => c = 0
      /\ \A i \in 1..k : ring.entries[Wrapped(c + i)] = stored[n - k + i]
  BY DEF RingInv
<1> HIDE DEF n, c, k
<1>4. NewestLogged = [i \in 1..k |-> stored[n - k + i]]
  <2>1. n - k + 1 \in Int /\ n \in Int /\ 1..(n - (n - k + 1) + 1) = 1..k
    BY <1>1, <1>2, SMT
  <2>2. \A i \in (n - k + 1)..n : stored[i] \in Entries
    BY <1>1, <1>2, SMT DEF n
  <2>3. /\ SubSeq(stored, n - k + 1, n) \in Seq(Entries)
        /\ Len(SubSeq(stored, n - k + 1, n)) = k
        /\ \A i \in 1..k : SubSeq(stored, n - k + 1, n)[i] = stored[n - k + i]
    <3>1. /\ SubSeq(stored, n - k + 1, n) \in Seq(Entries)
          /\ Len(SubSeq(stored, n - k + 1, n)) =
                IF n - k + 1 <= n THEN n - (n - k + 1) + 1 ELSE 0
          /\ \A i \in 1..(n - (n - k + 1) + 1) :
                SubSeq(stored, n - k + 1, n)[i] = stored[(n - k + 1) + i - 1]
      BY <2>1, <2>2, SMT
    <3>2. \A i \in 1..k : (n - k + 1) + i - 1 = n - k + i
      BY <1>1, <1>2, SMT
    <3> QED BY <1>1, <1>2, <2>1, <3>1, <3>2, SMTT(30)
  <2> QED BY <2>3, SMTT(30) DEF NewestLogged, n, k
<1>5. RingAll(ring) = [i \in 1..k |-> stored[n - k + i]]
  <2>1. CASE k < Capacity
    <3>1. \A i \in 1..k : ring.entries[i] = stored[n - k + i]
      BY <1>1, <1>2, <1>3, <2>1, SMT DEF Wrapped
    <3> QED BY <1>3, <2>1, <3>1, SMT DEF RingAll
  <2>2. CASE k = Capacity
    <3>1. ASSUME NEW i \in 1..Capacity
          PROVE  ((c + i - 1) % Capacity) + 1 = Wrapped(c + i)
      <4> DEFINE x == c + i - 1
      <4>1. x \in 0..(2 * Capacity - 1) /\ c + i = x + 1
        BY <1>1, <1>3, SMT
      <4> HIDE DEF x
      <4>2. x % Capacity = IF x < Capacity THEN x ELSE x - Capacity
        BY <1>1, <4>1, ModWraps
      <4>3. (x % Capacity) + 1 = Wrapped(x + 1)
        BY <1>1, <4>1, <4>2, SMT DEF Wrapped
      <4> QED BY <4>1, <4>3 DEF x
    <3>2. RingAll(ring) = [i \in 1..Capacity |-> ring.entries[((c + i - 1) % Capacity) + 1]]
      BY <1>3, <2>2, SMT DEF RingAll, c
    <3> QED BY <1>3, <2>2, <3>1, <3>2
  <2> QED BY <1>1, <1>2, <2>1, <2>2, SMT
<1> QED BY <1>4, <1>5 DEF RingReadsTail

\* However often the ring buffer wrapped and the server restarted, RingBuffer.Get
\* unrolls it (buffer.go) into the end of the log since the server started, as
\* far as the capacity reaches, in the order the entries were written.
THEOREM QueueRingReadsTail == Spec => []RingReadsTail
<1>1. Init => RingInv
  <2>1. ASSUME Init PROVE stored \in Seq(Entries) /\ boot = Len(stored)
    BY <2>1, SMT DEF Init
  <2> QED BY <2>1, LogAssumption, RingInvEmpty DEF Init
<1>2. QueueInv /\ RingInv /\ [Next]_vars => RingInv'
  BY LogAssumption, RingInvNext
<1>3. QueueInv /\ RingInv => RingReadsTail
  BY LogAssumption, RingInvReads DEF QueueInv, Types
<1> QED BY <1>1, <1>2, <1>3, QueueInvAlways, PTL DEF Spec

-----------------------------------------------------------------------------
(* One page and no fault.                                                  *)

\* Writing an entry that was not written before keeps the log without copies.
LEMMA AppendInjective ==
    ASSUME NEW s \in Seq(Entries), NEW e \in Entries, IsInjective(s), e \notin Range(s)
    PROVE  IsInjective(Append(s, e))
<1>1. /\ DOMAIN s = 1..Len(s) /\ Len(s) \in Nat
      /\ DOMAIN Append(s, e) = 1..(Len(s) + 1)
      /\ Append(s, e)[Len(s) + 1] = e
      /\ \A i \in 1..Len(s) : Append(s, e)[i] = s[i]
  BY AppendReads, SMT
<1>2. \A i \in 1..Len(s) : s[i] # e
  BY <1>1 DEF Range
<1>3. \A i, j \in 1..Len(s) : s[i] = s[j] => i = j
  BY <1>1 DEF IsInjective
<1>4. ASSUME NEW i \in 1..(Len(s) + 1), NEW j \in 1..(Len(s) + 1), Append(s, e)[i] = Append(s, e)[j]
      PROVE  i = j
  <2>1. (i \in 1..Len(s) \/ i = Len(s) + 1) /\ (j \in 1..Len(s) \/ j = Len(s) + 1)
    BY <1>1, SMT
  <2> QED BY <1>1, <1>2, <1>3, <1>4, <2>1
<1> QED BY <1>1, <1>4 DEF IsInjective

\* The page moves to or stays in a phase without call, and what it had written
\* is gone from the table.
LEMMA LoopMoves ==
    ASSUME QueueInv, OneLoop, NEW p \in Pages, NEW r \in Page,
           page[p].phase # "calling", r.phase \in {"scheduled", "reading"},
           \A q \in Pages \ {p} : ~Up(q),
           page' = [page EXCEPT ![p] = r], UNCHANGED <<handler, stored>>,
           db' \subseteq db, page[p].phase = "deleting" => db' \cap page[p].batch = {}
    PROVE  OneLoop'
<1>1. page'[p] = r /\ \A q \in Pages \ {p} : page'[q] = page[q]
  BY DEF QueueInv, Types
<1>2. \A q \in Pages \ {p} : page[q].phase \in {"unopened", "closed"}
  BY DEF Up
<1>3. \A q \in Pages : page[q].phase # "calling" /\ page'[q].phase # "calling"
  BY <1>1, <1>2
<1>4. \A h \in Handlers : handler[h].state = "free" /\ handler[h].todo = {}
  BY <1>3 DEF OneLoop
<1>5. Kept' = Kept
  BY DEF Kept
<1>6. db' \cap Kept = {}
  <2> SUFFICES ASSUME NEW e \in db', e \in Kept
               PROVE  FALSE
    OBVIOUS
  <2>1. PICK q \in Pages : e \in page[q].batch /\ page[q].phase = "deleting"
    BY <1>3 DEF OneLoop, Served
  <2> QED BY <1>2, <2>1
<1>7. (\A q, s \in Pages : Up(q) /\ Up(s) => q = s)'
  BY <1>1, <1>2, ZenonT(30) DEF Up
<1>8. (\A h \in Handlers : handler[h].todo \cap Kept = {})'
  BY <1>5 DEF OneLoop
<1>9. IsInjective(stored)'
  BY DEF OneLoop, IsInjective
<1> QED BY <1>3, <1>4, <1>5, <1>6, <1>7, <1>8, <1>9 DEF OneLoop

\* The only open page.
LEMMA OnlyPage ==
    ASSUME OneLoop, NEW p \in Pages, page[p].phase \notin {"unopened", "closed"}
    PROVE  \A q \in Pages \ {p} : ~Up(q)
BY DEF OneLoop, Up

LEMMA CalmOpen ==
    ASSUME QueueInv, CalmInv, NEW p \in Pages, Open(p)
    PROVE  CalmInv'
<1>1. UNCHANGED <<last, db, handler, stored>> /\ (calm' => calm /\ \A q \in Pages : ~Up(q))
  BY DEF Open, serverLog
<1>2. Kept' \subseteq 1..last'
  BY <1>1 DEF CalmInv, Kept
<1> DEFINE r == [page[p] EXCEPT !.phase = "scheduled"]
<1>3. /\ r \in Page /\ r.phase = "scheduled" /\ page[p].phase = "unopened"
      /\ page' = [page EXCEPT ![p] = r]
  BY DEF Open, QueueInv, Types, Page, Phases
<1> HIDE DEF r
<1>4. calm' => OneLoop'
  BY <1>1, <1>3, LoopMoves DEF CalmInv
<1> QED BY <1>2, <1>4 DEF CalmInv

\* The key of a captured entry is new to the server.
LEMMA CalmCapture ==
    ASSUME QueueInv, CalmInv, NEW p \in Pages, Capture(p)
    PROVE  CalmInv'
<1>1. UNCHANGED <<page, handler, stored, calm>> /\ last' = last + 1 /\ db' = db \cup {last + 1}
  BY DEF Capture, serverLog, Quiet
<1>2. last \in Nat /\ Kept \subseteq 1..last /\ Kept' = Kept
  BY <1>1, SMT DEF QueueInv, Types, CalmInv, Kept
<1>3. Kept' \subseteq 1..last' /\ db' \cap Kept' = db \cap Kept
  BY <1>1, <1>2, SMT
<1>4. ASSUME calm'
      PROVE  OneLoop'
  <2>1. OneLoop
    BY <1>1, <1>4 DEF CalmInv
  <2>2. \A e \in db' \cap Kept' : Served(e)'
    BY <1>1, <1>3, <2>1, ZenonT(30) DEF OneLoop, Served
  <2>3. (\A h \in Handlers : handler[h].todo \cap Kept = {})'
    BY <1>1, <1>2, <2>1 DEF OneLoop
  <2> QED BY <1>1, <2>1, <2>2, <2>3 DEF OneLoop, Up, IsInjective
<1> QED BY <1>3, <1>4 DEF CalmInv

LEMMA CalmRun ==
    ASSUME QueueInv, CalmInv, NEW p \in Pages, Run(p)
    PROVE  CalmInv'
<1>1. UNCHANGED <<last, db, handler, stored, calm>>
  BY DEF Run, serverLog, Quiet
<1>2. Kept' \subseteq 1..last'
  BY <1>1 DEF CalmInv, Kept
<1> DEFINE r == [page[p] EXCEPT !.phase = "reading"]
<1>3. /\ r \in Page /\ r.phase = "reading" /\ page[p].phase = "scheduled"
      /\ page' = [page EXCEPT ![p] = r]
  BY DEF Run, QueueInv, Types, Page, Phases
<1> HIDE DEF r
<1>4. calm => \A q \in Pages \ {p} : ~Up(q)
  BY <1>3, OnlyPage DEF CalmInv
<1>5. calm => OneLoop'
  BY <1>1, <1>3, <1>4, LoopMoves DEF CalmInv
<1> QED BY <1>1, <1>2, <1>5 DEF CalmInv

\* A batch is read only when nothing in the table was written.
LEMMA CalmReadBatch ==
    ASSUME LogAssumption, QueueInv, CalmInv, NEW p \in Pages, ReadBatch(p)
    PROVE  CalmInv'
<1>1. UNCHANGED <<last, db, stored, calm>> /\ page[p].phase = "reading"
      /\ page \in [Pages -> Page] /\ handler \in [Handlers -> Handler] /\ page[p] \in Page
  BY DEF ReadBatch, serverLog, Quiet, QueueInv, Types
<1>2. Kept' \subseteq 1..last' /\ Kept' = Kept
  BY <1>1 DEF CalmInv, Kept
<1>3. ASSUME calm, db = {}
      PROVE  OneLoop'
  <2> DEFINE r == Rescheduled(page[p])
  <2>1. r \in Page /\ r.phase = "scheduled" /\ page' = [page EXCEPT ![p] = r] /\ handler' = handler
    BY <1>1, <1>3 DEF ReadBatch, Rescheduled, Page, Phases
  <2> HIDE DEF r
  <2>2. OneLoop
    BY <1>3 DEF CalmInv
  <2>3. \A q \in Pages \ {p} : ~Up(q)
    BY <1>1, <2>2, OnlyPage
  <2> QED BY <1>1, <2>1, <2>2, <2>3, LoopMoves
<1>4. ASSUME calm, db # {}
      PROVE  OneLoop'
  <2> DEFINE b == FirstEntries
             c == Slot
             g == [state |-> "sent", todo |-> b, awaited |-> TRUE]
             r == [page[p] EXCEPT !.phase = "calling", !.batch = b, !.call = c]
  <2>1. OneLoop
    BY <1>4 DEF CalmInv
  <2>2. c \in Handlers
    <3>1. \E h \in Handlers : handler[h].state = "free" \/ \A k \in Handlers : handler[k].state # "free"
      BY DEF LogAssumption
    <3> QED BY <3>1 DEF Slot
  <2>3. /\ handler' = [handler EXCEPT ![c] = g] /\ page' = [page EXCEPT ![p] = r]
    BY <1>1, <1>4 DEF ReadBatch
  <2>4. b \subseteq db
    BY BatchIsFirst DEF QueueInv
  <2> HIDE DEF b, c
  <2>5. r.phase = "calling" /\ r.batch = b /\ r.call = c
    BY <1>1 DEF Page
  <2> HIDE DEF r
  <2>6. page'[p] = r /\ \A q \in Pages \ {p} : page'[q] = page[q]
    BY <1>1, <2>3
  <2>7. /\ handler'[c].state = "sent" /\ handler'[c].todo = b
        /\ \A h \in Handlers \ {c} : handler'[h] = handler[h]
    BY <1>1, <2>2, <2>3
  <2>8. \A q \in Pages \ {p} : page[q].phase \in {"unopened", "closed"}
    BY <1>1, <2>1, OnlyPage DEF Up
  <2>9. \A h \in Handlers : handler[h].state = "free" /\ handler[h].todo = {}
    BY <1>1, <2>1, <2>8 DEF OneLoop
  <2>10. db \cap Kept = {}
    BY <1>1, <2>1, <2>8 DEF OneLoop, Served
  <2>11. (\A q, s \in Pages : Up(q) /\ Up(s) => q = s)'
    BY <2>6, <2>8 DEF Up
  <2>12. ASSUME NEW h \in Handlers
         PROVE  \/ handler'[h].state = "free" /\ handler'[h].todo = {}
                \/ page'[p].phase = "calling" /\ page'[p].call = h
    BY <2>5, <2>6, <2>7, <2>9, SMT
  <2>13. ASSUME NEW q \in Pages, page'[q].phase = "calling"
         PROVE  page'[q].call = c /\ page'[q].batch = b
    BY <2>5, <2>6, <2>8, <2>13
  <2>14. \A h \in Handlers : handler'[h].todo \cap Kept = {}
    BY <2>1, <2>4, <2>7, <2>10, SMTT(30) DEF OneLoop
  <2>15. IsInjective(stored)'
    BY <1>1, <2>1 DEF OneLoop, IsInjective
  <2> QED BY <1>1, <1>2, <2>7, <2>10, <2>11, <2>12, <2>13, <2>14, <2>15, ZenonT(30) DEF OneLoop
<1> QED BY <1>1, <1>2, <1>3, <1>4 DEF CalmInv

LEMMA CalmPrune ==
    ASSUME QueueInv, CalmInv, NEW p \in Pages, Prune(p)
    PROVE  CalmInv'
<1> DEFINE r == AfterBatch(page[p])
<1>1. /\ UNCHANGED <<last, handler, stored, calm>> /\ page[p].phase = "deleting"
      /\ db' = db \ page[p].batch /\ page' = [page EXCEPT ![p] = r] /\ page[p] \in Page
  BY DEF Prune, Pruned, serverLog, Quiet, QueueInv, Types
<1>2. r \in Page /\ r.phase \in {"scheduled", "reading"}
  BY <1>1 DEF AfterBatch, Rescheduled, Page, Phases
<1> HIDE DEF r
<1>3. Kept' \subseteq 1..last'
  BY <1>1 DEF CalmInv, Kept
<1>4. calm => \A q \in Pages \ {p} : ~Up(q)
  BY <1>1, OnlyPage DEF CalmInv
<1>5. db' \subseteq db /\ db' \cap page[p].batch = {}
  BY <1>1
<1>6. calm => OneLoop'
  BY <1>1, <1>2, <1>4, <1>5, LoopMoves DEF CalmInv
<1> QED BY <1>1, <1>3, <1>6 DEF CalmInv

LEMMA CalmClear ==
    ASSUME QueueInv, CalmInv, NEW p \in Pages, ClearQueue(p)
    PROVE  CalmInv'
<1> DEFINE r == Rescheduled(page[p])
<1>1. /\ UNCHANGED <<last, handler, stored, calm>> /\ page[p].phase = "clearing"
      /\ db' = {} /\ page' = [page EXCEPT ![p] = r] /\ page[p] \in Page
  BY DEF ClearQueue, serverLog, Quiet, QueueInv, Types
<1>2. r \in Page /\ r.phase = "scheduled"
  BY <1>1 DEF Rescheduled, Page, Phases
<1> HIDE DEF r
<1>3. Kept' \subseteq 1..last'
  BY <1>1 DEF CalmInv, Kept
<1>4. calm => \A q \in Pages \ {p} : ~Up(q)
  BY <1>1, OnlyPage DEF CalmInv
<1>5. calm => OneLoop'
  BY <1>1, <1>2, <1>4, LoopMoves DEF CalmInv
<1> QED BY <1>1, <1>3, <1>5 DEF CalmInv

\* An acknowledged batch is wholly written, a refused one not at all.
LEMMA CalmLand ==
    ASSUME QueueInv, CalmInv, NEW p \in Pages, Land(p)
    PROVE  CalmInv'
<1> DEFINE c == page[p].call
           r == Landed(page[p], handler[c].state)
<1>1. /\ UNCHANGED <<last, db, stored, calm>> /\ page[p].phase = "calling"
      /\ handler[c].state \in {"ok", "refused", "broken"}
      /\ page' = [page EXCEPT ![p] = r] /\ handler' = [handler EXCEPT ![c] = Free]
      /\ page \in [Pages -> Page] /\ handler \in [Handlers -> Handler] /\ page[p] \in Page
      /\ c \in Handlers
  BY DEF Land, serverLog, Quiet, QueueInv, Types, Linked
<1>2. Kept' \subseteq 1..last' /\ Kept' = Kept
  BY <1>1 DEF CalmInv, Kept
<1>3. /\ handler[c].state = "ok" => r.phase = "deleting" /\ r.batch = page[p].batch
      /\ handler[c].state = "refused" => r.phase = "clearing"
  BY <1>1 DEF Landed, Page
<1> HIDE DEF r
<1>4. /\ page'[p] = r /\ (\A q \in Pages \ {p} : page'[q] = page[q])
      /\ handler'[c] = Free /\ \A h \in Handlers \ {c} : handler'[h] = handler[h]
  BY <1>1
<1>5. Free.state = "free" /\ Free.todo = {}
  BY DEF Free
<1> HIDE DEF c
<1>6. ASSUME calm
      PROVE  OneLoop'
  <2>1. OneLoop
    BY <1>6 DEF CalmInv
  <2>2. \A q \in Pages \ {p} : page[q].phase \in {"unopened", "closed"}
    BY <1>1, <2>1, OnlyPage DEF Up
  <2>3. /\ handler[c].state # "broken" /\ handler[c].todo \subseteq page[p].batch
        /\ handler[c].state = "refused" => handler[c].todo = page[p].batch
    BY <1>1, <2>1 DEF OneLoop, c
  <2>4. r.phase \in {"deleting", "clearing"}
    BY <1>1, <1>3, <2>3
  <2>5. \A h \in Handlers : handler'[h].state = "free" /\ handler'[h].todo = {}
    <3>1. \A h \in Handlers \ {c} : handler[h].state = "free" /\ handler[h].todo = {}
      BY <2>1, <2>2 DEF OneLoop, c
    <3> QED BY <1>4, <1>5, <3>1
  <2>6. \A q \in Pages : page'[q].phase # "calling"
    BY <1>4, <2>2, <2>4
  <2>7. (\A q, s \in Pages : Up(q) /\ Up(s) => q = s)'
    BY <1>4, <2>2 DEF Up
  <2>8. \A h \in Handlers : handler'[h].todo \cap Kept = {}
    BY <1>4, <1>5, <2>1, SMT DEF OneLoop
  <2>9. ASSUME NEW e \in db \cap Kept
        PROVE  e \in page'[p].batch /\ page'[p].phase = "deleting"
    <3>1. e \in page[p].batch /\ e \notin handler[c].todo
      BY <1>1, <2>1, <2>2 DEF OneLoop, Served, c
    <3>2. handler[c].state = "ok"
      BY <1>1, <2>3, <3>1
    <3> QED BY <1>3, <1>4, <3>1, <3>2
  <2>10. IsInjective(stored)'
    BY <1>1, <2>1 DEF OneLoop, IsInjective
  <2>11. \A e \in db' \cap Kept' : Served(e)'
    BY <1>1, <1>2, <2>9 DEF Served
  <2> QED BY <1>2, <2>5, <2>6, <2>7, <2>8, <2>10, <2>11, ZenonT(30) DEF OneLoop
<1> QED BY <1>1, <1>2, <1>6 DEF CalmInv

\* The handler of the only page moves on with what it has to write.
LEMMA HandlerMoves ==
    ASSUME QueueInv, OneLoop, NEW h \in Handlers, NEW g \in Handler,
           handler[h].state # "free", g.state \notin {"free", "broken"},
           g.todo \subseteq handler[h].todo, g.todo \cap Kept' = {},
           g.state \in {"sent", "refused"} =>
              handler[h].state = "sent" /\ g.todo = handler[h].todo,
           handler' = [handler EXCEPT ![h] = g], UNCHANGED <<page, db>>,
           Kept' = Kept \cup (handler[h].todo \ g.todo),
           IsInjective(stored')
    PROVE  OneLoop'
<1>1. handler \in [Handlers -> Handler] /\ page \in [Pages -> Page]
  BY DEF QueueInv, Types
<1>2. handler'[h] = g /\ \A k \in Handlers \ {h} : handler'[k] = handler[k]
  BY <1>1
<1>3. PICK p \in Pages : page[p].phase = "calling" /\ page[p].call = h
  BY DEF OneLoop
<1>4. \A q \in Pages \ {p} : page[q].phase \in {"unopened", "closed"}
  BY <1>3, OnlyPage DEF Up
<1>5. \A k \in Handlers \ {h} : handler[k].state = "free" /\ handler[k].todo = {}
  BY <1>3, <1>4, SMTT(30) DEF OneLoop
<1>6. /\ handler[h].todo \subseteq page[p].batch
      /\ handler[h].state = "sent" => handler[h].todo = page[p].batch
  BY <1>3 DEF OneLoop
<1>7. (\A q, s \in Pages : Up(q) /\ Up(s) => q = s)'
  BY DEF OneLoop, Up
<1>8. \A k \in Handlers : k = h \/ (handler'[k].state = "free" /\ handler'[k].todo = {})
  BY <1>2, <1>5
<1>9. \A q \in Pages : page'[q].phase = "calling" => q = p
  BY <1>4
<1>10. ASSUME NEW k \in Handlers
       PROVE  handler'[k].todo \cap Kept' = {}
  <2>1. CASE k = h
    BY <1>2, <2>1
  <2>2. CASE k # h
    BY <1>8, <2>2
  <2> QED BY <2>1, <2>2
<1>11. ASSUME NEW e \in db', e \in Kept'
       PROVE  e \in page'[p].batch /\ page'[p].phase = "calling" /\ e \notin handler'[page'[p].call].todo
  <2>1. e \notin g.todo
    BY <1>11
  <2>2. CASE e \in Kept
    <3>1. PICK q \in Pages : e \in page[q].batch /\ page[q].phase \in {"deleting", "calling"}
      BY <1>11, <2>2, SMTT(30) DEF OneLoop, Served
    <3> QED BY <1>2, <1>3, <1>4, <2>1, <3>1
  <2>3. CASE e \in handler[h].todo
    BY <1>2, <1>3, <1>6, <2>1, <2>3
  <2> QED BY <1>11, <2>2, <2>3
<1>12. \A e \in db' \cap Kept' : Served(e)'
  BY <1>11 DEF Served
<1>13. ASSUME NEW q \in Pages, page'[q].phase = "calling"
       PROVE  /\ handler'[page'[q].call].state # "broken"
              /\ handler'[page'[q].call].todo \subseteq page'[q].batch
              /\ handler'[page'[q].call].state \in {"sent", "refused"} =>
                    handler'[page'[q].call].todo = page'[q].batch
  <2>1. page'[q] = page[p] /\ handler'[page'[q].call] = g
    BY <1>2, <1>3, <1>9, <1>13
  <2> QED BY <1>6, <2>1
<1> QED BY <1>3, <1>7, <1>8, <1>10, <1>12, <1>13 DEF OneLoop

LEMMA CalmAuthenticate ==
    ASSUME QueueInv, CalmInv, NEW h \in Handlers, Authenticate(h)
    PROVE  CalmInv'
<1>1. /\ handler[h].state = "sent" /\ handler[h] \in Handler
      /\ UNCHANGED <<last, db, page, stored, calm>>
  BY DEF Authenticate, serverLog, Quiet, QueueInv, Types
<1>2. Kept' \subseteq 1..last' /\ Kept' = Kept
  BY <1>1 DEF CalmInv, Kept
<1>3. ASSUME calm
      PROVE  OneLoop'
  <2>1. OneLoop
    BY <1>3 DEF CalmInv
  <2>2. handler[h].awaited
    <3>1. PICK p \in Pages : page[p].phase = "calling" /\ page[p].call = h
      BY <1>1, <2>1 DEF OneLoop
    <3> QED BY <3>1 DEF QueueInv, Linked
  <2>3. PICK s \in {"serving", "refused"} : handler' = [handler EXCEPT ![h].state = s]
    BY <2>2 DEF Authenticate, QueueInv, Types
  <2> DEFINE g == [handler[h] EXCEPT !.state = s]
  <2>4. /\ g \in Handler /\ g.state = s /\ g.todo = handler[h].todo
        /\ handler' = [handler EXCEPT ![h] = g]
    BY <1>1, <2>3 DEF Handler, QueueInv, Types
  <2> HIDE DEF g
  <2>5. g.todo \cap Kept' = {} /\ Kept' = Kept \cup (handler[h].todo \ g.todo)
    BY <1>2, <2>1, <2>4 DEF OneLoop
  <2>6. IsInjective(stored')
    BY <1>1, <2>1 DEF OneLoop
  <2> QED BY <1>1, <2>1, <2>3, <2>4, <2>5, <2>6, HandlerMoves, ZenonT(30)
<1> QED BY <1>1, <1>2, <1>3 DEF CalmInv

\* What is left of a batch was not written, so the next entry is new.
LEMMA CalmIngest ==
    ASSUME QueueInv, CalmInv, NEW h \in Handlers, IngestEntry(h)
    PROVE  CalmInv'
<1> DEFINE todo == handler[h].todo
           e == NextEntry(todo)
           g == Progress(handler[h], todo \ {e})
<1>1. /\ handler[h] \in Handler /\ handler[h].state = "serving" /\ todo # {}
      /\ todo \subseteq 1..last /\ last \in 0..MaxEntries /\ stored \in Seq(Entries)
      /\ MaxEntries \in Nat
  BY LogAssumption DEF QueueInv, Types, Working, IngestEntry
<1>2. e \in todo
  <2>1. todo \subseteq Nat
    BY <1>1, SMTT(30)
  <2> QED BY <1>1, <2>1, NextEntryLeast
<1>3. /\ handler' = [handler EXCEPT ![h] = g] /\ stored' = Append(stored, e)
      /\ UNCHANGED <<last, db, page, calm>>
  BY DEF IngestEntry, Quiet, QueueInv, Types
<1> HIDE DEF e
<1>4. e \in 1..last /\ e \in Entries
  BY <1>1, <1>2, SMTT(30) DEF Entries
<1>5. Kept' = Kept \cup {e}
  BY <1>1, <1>3, <1>4, KeptAppend DEF Kept
<1>6. Kept' \subseteq 1..last'
  BY <1>3, <1>4, <1>5 DEF CalmInv
<1>7. ASSUME calm
      PROVE  OneLoop'
  <2>1. OneLoop
    BY <1>7 DEF CalmInv
  <2>2. handler[h].awaited
    <3>1. PICK p \in Pages : page[p].phase = "calling" /\ page[p].call = h
      BY <1>1, <2>1 DEF OneLoop
    <3> QED BY <3>1 DEF QueueInv, Linked
  <2>3. g \in Handler /\ g.todo = todo \ {e} /\ g.state \in {"serving", "ok"}
    <3>1. CASE todo \ {e} # {}
      <4>1. g = [handler[h] EXCEPT !.todo = todo \ {e}]
        BY <3>1 DEF Progress
      <4> QED BY <1>1, <4>1 DEF Handler
    <3>2. CASE todo \ {e} = {}
      <4>1. g = [handler[h] EXCEPT !.todo = {}, !.state = "ok"]
        BY <2>2, <3>2 DEF Progress
      <4> QED BY <1>1, <3>2, <4>1 DEF Handler
    <3> QED BY <3>1, <3>2
  <2> HIDE DEF g
  <2>4. todo \cap Kept = {}
    BY <2>1 DEF OneLoop
  <2>5. g.todo \cap Kept' = {} /\ Kept' = Kept \cup (todo \ g.todo) /\ g.todo \subseteq todo
    BY <1>2, <1>5, <2>3, <2>4
  <2>6. IsInjective(stored')
    BY <1>1, <1>2, <1>3, <1>4, <2>1, <2>4, AppendInjective DEF OneLoop, Kept
  <2> QED BY <1>1, <1>3, <2>1, <2>3, <2>5, <2>6, HandlerMoves, ZenonT(30)
<1> QED BY <1>3, <1>6, <1>7 DEF CalmInv

\* After a fault nothing is claimed; other steps change nothing it is about.
LEMMA CalmOther ==
    ASSUME CalmInv, UNCHANGED <<stored, last>>,
           ~calm' \/ UNCHANGED <<db, page, handler, calm>>
    PROVE  CalmInv'
<1>1. Kept' \subseteq 1..last' /\ Kept' = Kept
  BY DEF CalmInv, Kept
<1>2. CASE UNCHANGED <<db, page, handler, calm>>
  <2>1. calm => OneLoop
    BY DEF CalmInv
  <2>2. OneLoop => OneLoop'
    BY <1>2, ZenonT(30) DEF OneLoop, Up, Served, Kept
  <2> QED BY <1>1, <1>2, <2>1, <2>2 DEF CalmInv
<1> QED BY <1>1, <1>2 DEF CalmInv

LEMMA CalmInvNext ==
    ASSUME LogAssumption, QueueInv, CalmInv, [Next]_vars
    PROVE  CalmInv'
<1>1. ASSUME NEW p \in Pages, Open(p) \/ Capture(p) \/ Step(p)
      PROVE  CalmInv'
  BY <1>1, CalmOpen, CalmCapture, CalmRun, CalmReadBatch, CalmPrune, CalmClear, CalmLand
  DEF Step
<1>2. ASSUME NEW h \in Handlers, Serve(h)
      PROVE  CalmInv'
  BY <1>2, CalmAuthenticate, CalmIngest DEF Serve
<1>3. ASSUME (\E p \in Pages : Unload(p) \/ Close(p) \/ StoreFails(p) \/ Lose(p)) \/ Restart
      PROVE  CalmInv'
  <2>1. UNCHANGED <<stored, last>> /\ calm' = FALSE
    BY <1>3 DEF Unload, Close, StoreFails, Lose, Restart, Fault, serverLog
  <2> QED BY <2>1, CalmOther
<1>4. CASE SignInOrOut \/ UNCHANGED vars
  <2>1. UNCHANGED <<stored, last, db, page, handler, calm>>
    BY <1>4 DEF SignInOrOut, vars, serverLog
  <2> QED BY <2>1, CalmOther
<1> QED BY <1>1, <1>2, <1>3, <1>4 DEF Next

\* The server writes an entry twice only after a fault or when two pages were
\* open: the loop of one page (syncer.ts) prunes what was acknowledged before
\* it reads again, and works on one call at a time.
THEOREM QueueOnceWhenCalm == Spec => []OnceWhenCalm
<1>1. Init => CalmInv
  <2> SUFFICES ASSUME Init PROVE CalmInv
    OBVIOUS
  <2>1. Kept = {} /\ db = {}
    BY SMT DEF Init, Kept, Range
  <2>2. \A h \in Handlers : handler[h].state = "free" /\ handler[h].todo = {}
    BY DEF Init, Free
  <2>3. \A p \in Pages : page[p].phase = "unopened"
    BY DEF Init
  <2>4. IsInjective(stored)
    BY SMTT(30) DEF Init, IsInjective
  <2> QED BY <2>1, <2>2, <2>3, <2>4 DEF CalmInv, OneLoop, Up
<1>2. QueueInv /\ CalmInv /\ [Next]_vars => CalmInv'
  BY LogAssumption, CalmInvNext
<1>3. CalmInv => OnceWhenCalm
  BY DEF CalmInv, OneLoop, OnceWhenCalm
<1> QED BY <1>1, <1>2, <1>3, QueueInvAlways, PTL DEF Spec
=============================================================================
