--------------------------- MODULE ContainersView ---------------------------
(***************************************************************************)
(* The dashboard: useContainers.ts keeps a copy of the server's containers *)
(* table in the browser.  The copy is filled by ListContainers and changed *)
(* by the messages of StreamContainers, which the broker sends to every    *)
(* subscriber without waiting for it.  ContainerGrid.tsx and               *)
(* ContainerTable.tsx show the copy and offer the operations.              *)
(*                                                                         *)
(* The server's handlers are ContainerOps and EventMonitor; here the table *)
(* changes in any order.  Whoever changed it reads the row back and        *)
(* publishes what it read, in steps of their own, so that messages may     *)
(* overtake each other.  The list is shown sorted, so it is a set of       *)
(* cards.  Image, ids of images, the auto-update flag and dates are left   *)
(* out: nothing depends on them.                                           *)
(***************************************************************************)
EXTENDS Naturals, Sequences, FiniteSets

CONSTANTS Ids,        \* container ids, never reused
          Names,      \* container names
          Rows,       \* contents of rows: name, running?, update available?
          None,       \* no row, no timer, nothing known
          Boot,       \* the table when the page is opened: [Ids -> Rows or None]
          Kinds,      \* operations: starting, stopping, upgrading, toggling, checking
          Slots,      \* ListContainers calls that may be in flight together
          Capacity,   \* messages a subscriber's channel holds, 100 in broker.go
          MaxChanges, \* changes of the table
          MaxEvents   \* times the page is opened or refreshed, an operation is started,
                      \* or a stream or listing fails

ASSUME ViewAssumption ==
  /\ None \notin Ids /\ None \notin Rows /\ None \notin Kinds /\ None \notin Nat
  /\ \A row \in Rows : row.name \in Names
  /\ Boot \in [Ids -> Rows \cup {None}]

VARIABLES table,     \* the server's containers table
          ver,       \* history: changes made to each row
          reports,   \* changes whose handler has yet to publish them
          conn,      \* the stream: "off", "connecting", "open", "waiting"
          chan,      \* messages on their way to the page
          mounted,   \* isMounted
          view,      \* containers: the set of cards
          seen,      \* history: the change the page last applied, per id
          timers,    \* pendingDeletes: name -> id to remove
          merged,    \* history: ids whose card was lost or kept because of
                     \* another container of the same name
          fetch,     \* ListContainers calls
          loading,   \* isLoading
          error,     \* error banner
          busy,      \* actionLoading: id -> kind of operation
          ops,       \* operations in flight
          admin,     \* the user's role is admin
          left       \* what remains of the bounds

server == <<table, ver, reports>>
stream == <<conn, chan>>
list == <<view, seen, timers, merged>>
vars == <<server, stream, list, mounted, fetch, loading, error, busy, ops,
          admin, left>>

Card == [id : Ids, row : Rows]
Message == [action : {"save"}, id : Ids, row : Rows, ver : Nat]
           \cup [action : {"delete"}, id : Ids, row : {None}, ver : Nat]
Report == [id : Ids, at : Nat, message : Message \cup {None}]
Unknown == [i \in Ids |-> None]
Idle == [phase |-> "idle", cards |-> {}, ver |-> Unknown]

Bound == [change |-> MaxChanges, event |-> MaxEvents]
Spend(kind) ==
  /\ left[kind] > 0
  /\ left' = [left EXCEPT ![kind] = @ - 1]

TypeOK ==
  /\ table \in [Ids -> Rows \cup {None}]
  /\ ver \in [Ids -> Nat]
  /\ reports \subseteq Report
  /\ conn \in {"off", "connecting", "open", "waiting"}
  /\ chan \in Seq(Message) /\ Len(chan) <= Capacity
  /\ mounted \in BOOLEAN /\ (~mounted <=> conn = "off")
  /\ view \subseteq Card
  /\ seen \in [Ids -> Nat \cup {None}]
  /\ timers \in [Names -> Ids \cup {None}]
  /\ merged \subseteq Ids
  /\ fetch \in [Slots -> [phase : {"idle", "sent", "served"},
                          cards : SUBSET Card,
                          ver : [Ids -> Nat \cup {None}]]]
  /\ loading \in BOOLEAN /\ error \in BOOLEAN
  /\ busy \in [Ids -> Kinds \cup {None}]
  /\ ops \subseteq [id : Ids, kind : Kinds, live : BOOLEAN]
  /\ admin \in BOOLEAN
  /\ left \in [DOMAIN Bound -> Nat]

Cards(t) == {[id |-> i, row |-> t[i]] : i \in {j \in Ids : t[j] # None}}

(***************************************************************************)
(* The server                                                              *)
(***************************************************************************)

\* Publish of broker.go: a full channel loses the message.
Publish(message) ==
  chan' = IF conn = "open" /\ Len(chan) < Capacity
          THEN Append(chan, message) ELSE chan

\* A handler or the monitor writes a row and will read it back.
ServerSave(i, row) ==
  /\ row # table[i]
  /\ table[i] = None => ver[i] = 0
  /\ table' = [table EXCEPT ![i] = row]
  /\ ver' = [ver EXCEPT ![i] = @ + 1]
  /\ reports' = reports \cup {[id |-> i, at |-> ver'[i], message |-> None]}
  /\ Spend("change")
  /\ UNCHANGED <<stream, list, mounted, fetch, loading, error, busy, ops, admin>>

\* A deletion is reported without reading anything.
ServerDelete(i) ==
  /\ table[i] # None
  /\ table' = [table EXCEPT ![i] = None]
  /\ ver' = [ver EXCEPT ![i] = @ + 1]
  /\ reports' = reports \cup
       {[id |-> i, at |-> ver'[i],
         message |-> [action |-> "delete", id |-> i, row |-> None, ver |-> ver'[i]]]}
  /\ Spend("change")
  /\ UNCHANGED <<stream, list, mounted, fetch, loading, error, busy, ops, admin>>

\* The row is read back.  One that is gone by then is not reported.
ReadBack(r) ==
  /\ r.message = None
  /\ reports' = (reports \ {r}) \cup
       {[r EXCEPT !.message = [action |-> "save", id |-> c.id, row |-> c.row,
                               ver |-> ver[c.id]]] :
          c \in {d \in Cards(table) : d.id = r.id}}
  /\ UNCHANGED <<table, ver, stream, list, mounted, fetch, loading, error, busy, ops,
                 admin, left>>

ServerPublish(r) ==
  /\ r.message # None
  /\ Publish(r.message)
  /\ reports' = reports \ {r}
  /\ UNCHANGED <<table, ver, conn, list, mounted, fetch, loading, error, busy, ops,
                 admin, left>>

FetchServe(k) ==
  /\ fetch[k].phase = "sent"
  /\ fetch' = [fetch EXCEPT ![k] = [phase |-> "served", cards |-> Cards(table),
                                    ver |-> ver]]
  /\ UNCHANGED <<server, stream, list, mounted, loading, error, busy, ops, admin, left>>

(***************************************************************************)
(* fetchContainers                                                         *)
(***************************************************************************)

Free == {k \in Slots : /\ fetch[k].phase = "idle"
                       /\ \A j \in Slots : j < k => fetch[j].phase # "idle"}

\* Sync Now is disabled only before the first answer, so calls may overlap.
Refetch(k) ==
  /\ mounted /\ ~loading
  /\ k \in Free
  /\ fetch' = [fetch EXCEPT ![k].phase = "sent"]
  /\ Spend("event")
  /\ UNCHANGED <<server, stream, list, mounted, loading, error, busy, ops, admin>>

FetchLand(k) ==
  /\ fetch[k].phase = "served"
  /\ view' = fetch[k].cards
  /\ seen' = fetch[k].ver
  /\ merged' = {}
  /\ fetch' = [fetch EXCEPT ![k] = Idle]
  /\ error' = FALSE
  /\ loading' = FALSE
  /\ UNCHANGED <<server, stream, timers, mounted, busy, ops, admin, left>>

FetchFail(k) ==
  /\ fetch[k].phase # "idle"
  /\ fetch' = [fetch EXCEPT ![k] = Idle]
  /\ error' = TRUE
  /\ loading' = FALSE
  /\ Spend("event")
  /\ UNCHANGED <<server, stream, list, mounted, busy, ops, admin>>

(***************************************************************************)
(* The stream of useContainers.ts                                          *)
(***************************************************************************)

StreamOpen ==
  /\ conn = "connecting"
  /\ conn' = "open"
  /\ chan' = <<>>
  /\ UNCHANGED <<server, list, mounted, fetch, loading, error, busy, ops, admin, left>>

\* An error is followed by a pause of two seconds; messages under way are lost.
StreamFail ==
  /\ conn \in {"connecting", "open"}
  /\ conn' = "waiting"
  /\ chan' = <<>>
  /\ Spend("event")
  /\ UNCHANGED <<server, list, mounted, fetch, loading, error, busy, ops, admin>>

\* A stream the server ends is opened again at once.
StreamEnd ==
  /\ conn = "open" /\ chan = <<>>
  /\ conn' = "connecting"
  /\ Spend("event")
  /\ UNCHANGED <<server, chan, list, mounted, fetch, loading, error, busy, ops, admin>>

StreamRetry ==
  /\ conn = "waiting"
  /\ conn' = "connecting"
  /\ UNCHANGED <<server, chan, list, mounted, fetch, loading, error, busy, ops, admin, left>>

Received ==
  /\ conn = "open" /\ chan # <<>>
  /\ chan' = Tail(chan)
  /\ seen' = [seen EXCEPT ![Head(chan).id] = Head(chan).ver]
  /\ UNCHANGED <<server, conn, mounted, fetch, loading, error, busy, ops, admin, left>>

\* Mutant: the pending removal of that name is cleared and no new one set.
ReceiveDeleteForgets ==
  LET names == {c.row.name : c \in {d \in view : d.id = Head(chan).id}}
  IN  /\ Received
      /\ Head(chan).action = "delete"
      /\ timers' = [n \in Names |-> IF n \in names THEN None ELSE timers[n]]
      /\ UNCHANGED <<merged, view>>

\* The removal of a card that is there is put off by 300 ms.
ReceiveDelete ==
  LET id == Head(chan).id
      cards == {c \in view : c.id = id}
  IN  /\ Received
      /\ Head(chan).action = "delete"
      /\ timers' = [n \in Names |-> IF \E c \in cards : c.row.name = n
                                    THEN id ELSE timers[n]]
      /\ merged' = (merged \ {id})
                   \cup ({timers[c.row.name] : c \in cards} \ {None, id})
      /\ UNCHANGED view

\* Mutant: a container created anew under the old name is not recognised.
MatchesById(card) == {c \in view : c.id = card.id}

\* Mutant: the name is tried before the id.
MatchesByName(card) ==
  LET same == {c \in view : c.row.name = card.row.name}
  IN  IF same # {} THEN same ELSE {c \in view : c.id = card.id}

\* The card a saved container replaces: its own, or else one of its name.
Matches(card) ==
  LET own == {c \in view : c.id = card.id}
  IN  IF own # {} THEN own ELSE {c \in view : c.row.name = card.row.name}

\* A save cancels the removal of the card of that name, then replaces the
\* matching card or adds one.
ReceiveSave ==
  LET card == [id |-> Head(chan).id, row |-> Head(chan).row]
      name == card.row.name
  IN  /\ Received
      /\ Head(chan).action = "save"
      /\ timers' = [timers EXCEPT ![name] = None]
      /\ \E old \in IF Matches(card) = {} THEN {{}} ELSE {{c} : c \in Matches(card)} :
           /\ view' = (view \ old) \cup {card}
           /\ merged' = (merged \ {card.id})
                        \cup {c.id : c \in {d \in old : d.id # card.id
                                                        /\ table[d.id] # None}}
                        \cup {c.id : c \in {d \in view' : old # {} /\ d.id = timers[name]}}

\* The timer removes the card by id and forgets the pending removal.
TimerFires(n) ==
  /\ timers[n] # None
  /\ view' = {c \in view : c.id # timers[n]}
  /\ timers' = [timers EXCEPT ![n] = None]
  /\ UNCHANGED <<server, stream, seen, merged, mounted, fetch, loading, error, busy,
                 ops, admin, left>>

(***************************************************************************)
(* The page: ContainerGrid.tsx and ContainerTable.tsx                      *)
(***************************************************************************)

\* The status filter; the search only narrows it further and can be cleared.
Filtered(filter) ==
  {c \in view : /\ filter = "running" => c.row.running
                /\ filter = "stopped" => ~c.row.running}

\* Mutant: the buttons of a busy card stay enabled.
GridOffersBusy(c) ==
  {kind \in Kinds : /\ admin
                    /\ kind = "stopping" => c.row.running
                    /\ kind = "starting" => ~c.row.running
                    /\ kind = "upgrading" => c.row.upd}

\* The buttons of a card that are there and not disabled.
GridOffers(c) ==
  {kind \in Kinds : /\ admin /\ busy[c.id] = None
                    /\ kind = "stopping" => c.row.running
                    /\ kind = "starting" => ~c.row.running
                    /\ kind = "upgrading" => c.row.upd}

\* The same for the columns of a table row.
TableOffers(c) ==
  IF ~admin \/ busy[c.id] # None THEN {}
  ELSE Kinds \ ({IF c.row.running THEN "starting" ELSE "stopping"}
                \cup (IF c.row.upd THEN {} ELSE {"upgrading"}))

\* startContainer and its siblings: mark the card, call the server.
Act(c, kind) ==
  /\ mounted /\ ~(loading /\ view = {})
  /\ \E filter \in {"all", "running", "stopped"} : c \in Filtered(filter)
  /\ kind \in GridOffers(c) \/ kind \in TableOffers(c)
  /\ busy' = [busy EXCEPT ![c.id] = kind]
  /\ ops' = ops \cup {[id |-> c.id, kind |-> kind, live |-> TRUE]}
  /\ Spend("event")
  /\ UNCHANGED <<server, stream, list, mounted, fetch, loading, error, admin>>

\* The answer, a success or an error, ends in a toast and frees the card.  The
\* card of a page that was left meanwhile is another one.
OpEnds(o) ==
  /\ ops' = ops \ {o}
  /\ busy' = IF o.live THEN [busy EXCEPT ![o.id] = None] ELSE busy
  /\ UNCHANGED <<server, stream, list, mounted, fetch, loading, error, admin, left>>

\* The effect on mount: the listing is asked for and the stream is opened side
\* by side.
Mount ==
  /\ ~mounted
  /\ mounted' = TRUE
  /\ loading' = TRUE
  /\ \E k \in Free : fetch' = [fetch EXCEPT ![k].phase = "sent"]
  /\ conn' = "connecting"
  /\ Spend("event")
  /\ UNCHANGED <<server, chan, list, error, busy, ops, admin>>

\* The cleanup: the stream is aborted, the timers are cleared and later answers
\* are ignored.
Unmount ==
  /\ mounted
  /\ mounted' = FALSE
  /\ view' = {} /\ seen' = Unknown /\ merged' = {}
  /\ timers' = [n \in Names |-> None]
  /\ conn' = "off" /\ chan' = <<>>
  /\ fetch' = [k \in Slots |-> Idle]
  /\ error' = FALSE
  /\ busy' = [i \in Ids |-> None]
  /\ ops' = {[o EXCEPT !.live = FALSE] : o \in ops}
  /\ UNCHANGED <<server, loading, admin, left>>

Init ==
  /\ table = Boot /\ ver = [i \in Ids |-> 0] /\ reports = {}
  /\ conn = "off" /\ chan = <<>>
  /\ mounted = FALSE /\ view = {} /\ seen = Unknown /\ merged = {}
  /\ timers = [n \in Names |-> None]
  /\ fetch = [k \in Slots |-> Idle]
  /\ loading = TRUE /\ error = FALSE
  /\ busy = [i \in Ids |-> None] /\ ops = {}
  /\ admin \in BOOLEAN
  /\ left = Bound

\* A change made while no page is open only alters what the next one finds.
ServerStep == \/ mounted /\ \E i \in Ids : \/ ServerDelete(i)
                                        \/ \E row \in Rows : ServerSave(i, row)
              \/ \E r \in reports : ReadBack(r) \/ ServerPublish(r)
FetchStep == \E k \in Slots : FetchServe(k) \/ Refetch(k) \/ FetchLand(k) \/ FetchFail(k)
StreamStep == \/ StreamOpen \/ StreamFail \/ StreamEnd \/ StreamRetry
              \/ ReceiveDelete \/ ReceiveSave
UserStep == \/ \E c \in view, kind \in Kinds : Act(c, kind)
            \/ Mount \/ Unmount

Next == \/ ServerStep \/ FetchStep \/ StreamStep \/ UserStep
        \/ \E n \in Names : TimerFires(n)
        \/ \E o \in ops : OpEnds(o)

\* Timers fire: a browser runs the callbacks that are due.
Fairness == \A n \in Names : WF_vars(TimerFires(n))

Spec == Init /\ [][Next]_vars /\ Fairness

(***************************************************************************)
(* Properties                                                              *)
(***************************************************************************)

\* A container whose latest change the page has applied is shown exactly as
\* its row says, and a removed one is not shown, unless its removal is still
\* pending or the match by name confused it with another container.
CardsAgree ==
  mounted => \A i \in Ids :
    \/ seen[i] # ver[i] \/ i \in merged \/ \E n \in Names : timers[n] = i
    \/ {c \in view : c.id = i} = {c \in Cards(table) : c.id = i}

\* However messages and listings interleave, no container has two cards.
OneCardEach == \A c, d \in view : c.id = d.id => c = d

\* A card is marked busy exactly while an operation started on this page is in
\* flight for it, and there is never a second one.
BusyTracksOps ==
  LET live == {o \in ops : o.live}
  IN  /\ \A i \in Ids : busy[i] # None <=> \E o \in live : o.id = i
      /\ \A o \in live : busy[o.id] = o.kind

\* A card whose container's removal was received leaves the page.
RemovedCardsLeave ==
  \A i \in Ids :
    (mounted /\ seen[i] = ver[i] /\ table[i] = None)
      ~> (~mounted \/ seen[i] # ver[i] \/ i \in merged \/ ~ \E c \in view : c.id = i)
=============================================================================
