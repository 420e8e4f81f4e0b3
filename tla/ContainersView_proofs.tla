------------------------- MODULE ContainersView_proofs -------------------------
(***************************************************************************)
(* Proofs about the dashboard: no container has two cards, a container     *)
(* whose latest change the page was told is shown as its row says, and a   *)
(* card is busy exactly while one operation of the page is in flight for   *)
(* it, for any containers, operations and interleavings of messages and    *)
(* listings.                                                               *)
(***************************************************************************)
EXTENDS ContainersView, TLAPS

Operation == [id : Ids, kind : Kinds, live : BOOLEAN]
Listing == [phase : {"idle", "sent", "served"}, cards : SUBSET Card,
            ver : [Ids -> Nat \cup {None}]]

OneEach(cards) == \A c, d \in cards : c.id = d.id => c = d

\* Neither the cards shown nor a listing on its way has a container twice.
CardsInv ==
  /\ table \in [Ids -> Rows \cup {None}]
  /\ ver \in [Ids -> Nat]
  /\ chan \in Seq(Message)
  /\ view \subseteq Card
  /\ fetch \in [Slots -> Listing]
  /\ \A k \in Slots : OneEach(fetch[k].cards)
  /\ OneCardEach

OpsInv ==
  /\ busy \in [Ids -> Kinds \cup {None}]
  /\ ops \subseteq Operation
  /\ BusyTracksOps

Own(cards, i) == {c \in cards : c.id = i}

\* For a table t and its versions v: the container was removed; its id is not
\* used again.
Final(t, v, i) == t[i] = None /\ v[i] > 0

\* A message about the latest change of a row tells what the row is.
Truthful(t, v, m) ==
  /\ m.ver <= v[m.id]
  /\ m.ver = v[m.id] => m.row = t[m.id]
  /\ m.action = "delete" => Final(t, v, m.id)

\* So does a listing, for every row that did not change since.
TruthfulListing(t, v, l) ==
  \A i \in Ids : /\ l.ver[i] \in Nat /\ l.ver[i] <= v[i]
                 /\ l.ver[i] = v[i] => Own(l.cards, i) = Own(Cards(t), i)

\* A card that is behind although the page was told has its removal pending
\* under its own name: the next message of that name is the one that finds it.
ShownAsTold ==
  \A i \in Ids : seen[i] = ver[i] /\ i \notin merged =>
    \/ Own(view, i) = Own(Cards(table), i)
    \/ table[i] = None /\ \A c \in Own(view, i) : timers[c.row.name] = i

\* Removals are pending only for containers that are gone.
AgreeInv ==
  /\ seen \in [Ids -> Nat \cup {None}]
  /\ timers \in [Names -> Ids \cup {None}]
  /\ \A i \in Ids : seen[i] # None => seen[i] <= ver[i]
  /\ \A j \in 1..Len(chan) : Truthful(table, ver, chan[j])
  /\ \A k \in Slots : fetch[k].phase = "served" => TruthfulListing(table, ver, fetch[k])
  /\ \A n \in Names : timers[n] # None => Final(table, ver, timers[n])
  /\ ShownAsTold

\* What a handler is about to publish is true as well.
ReportInv ==
  /\ reports \subseteq Report
  /\ \A r \in reports : r.message # None => Truthful(table, ver, r.message)

\* A listing of the table has every container once.
LEMMA TableCards ==
  ASSUME NEW t \in [Ids -> Rows \cup {None}]
  PROVE  Cards(t) \subseteq Card /\ OneEach(Cards(t))
BY DEF Cards, Card, OneEach

\* An unused slot has no cards.
LEMMA IdleListing == Idle \in Listing /\ Idle.cards = {}
BY DEF Idle, Listing, Unknown

\* A saved card takes the place of the one of its id, if there is one.
LEMMA SaveKeepsOne ==
  ASSUME OneCardEach, NEW card,
         NEW old \in IF Matches(card) = {} THEN {{}} ELSE {{c} : c \in Matches(card)}
  PROVE  OneEach((view \ old) \cup {card})
<1>1. \A c \in view \ old : c.id # card.id
  <2> SUFFICES ASSUME NEW c \in view, c.id = card.id PROVE c \in old
    OBVIOUS
  <2>1. Matches(card) = {c}
    BY DEF Matches, OneCardEach
  <2> QED BY <2>1
<1> QED BY <1>1 DEF OneEach, OneCardEach

\* The steps of the listings.
LEMMA CardsInvFetch ==
  ASSUME CardsInv, FetchStep
  PROVE  CardsInv'
<1> USE DEF CardsInv
<1>1. ASSUME NEW k \in Slots, FetchServe(k)
      PROVE  CardsInv'
  <2> DEFINE l == [phase |-> "served", cards |-> Cards(table), ver |-> ver]
  <2>1. Cards(table) \subseteq Card /\ OneEach(Cards(table))
    BY TableCards
  <2>2. l \in Listing /\ l.cards = Cards(table)
    BY <2>1 DEF Listing
  <2>3. fetch' = [fetch EXCEPT ![k] = l] /\ UNCHANGED <<table, ver, chan, view>>
    BY <1>1 DEF FetchServe, server, stream, list
  <2> HIDE DEF l
  <2> QED BY <2>1, <2>2, <2>3 DEF OneCardEach
<1>2. ASSUME NEW k \in Slots, Refetch(k)
      PROVE  CardsInv'
  <2>1. fetch' = [fetch EXCEPT ![k].phase = "sent"] /\ UNCHANGED <<table, ver, chan, view>>
    BY <1>2 DEF Refetch, server, stream, list
  <2>2. fetch' \in [Slots -> Listing] /\ \A j \in Slots : fetch'[j].cards = fetch[j].cards
    BY <2>1, Zenon DEF Listing
  <2> QED BY <2>1, <2>2 DEF OneCardEach
<1>3. ASSUME NEW k \in Slots, FetchLand(k)
      PROVE  CardsInv'
  <2>1. /\ fetch' = [fetch EXCEPT ![k] = Idle] /\ view' = fetch[k].cards
        /\ UNCHANGED <<table, ver, chan>>
    BY <1>3 DEF FetchLand, server, stream
  <2>2. fetch' \in [Slots -> Listing]
        /\ \A j \in Slots : fetch'[j].cards \in {fetch[j].cards, {}}
    BY <2>1, IdleListing
  <2>3. fetch[k].cards \subseteq Card
    BY DEF Listing
  <2> QED BY <2>1, <2>2, <2>3 DEF OneCardEach, OneEach
<1>4. ASSUME NEW k \in Slots, FetchFail(k)
      PROVE  CardsInv'
  <2>1. fetch' = [fetch EXCEPT ![k] = Idle] /\ UNCHANGED <<table, ver, chan, view>>
    BY <1>4 DEF FetchFail, server, stream, list
  <2>2. fetch' \in [Slots -> Listing]
        /\ \A j \in Slots : fetch'[j].cards \in {fetch[j].cards, {}}
    BY <2>1, IdleListing
  <2> QED BY <2>1, <2>2 DEF OneCardEach, OneEach
<1> QED BY <1>1, <1>2, <1>3, <1>4 DEF FetchStep

\* Taking a message off the channel.
LEMMA HeadMessage ==
  ASSUME chan \in Seq(Message), chan # <<>>
  PROVE  /\ Tail(chan) \in Seq(Message)
         /\ Head(chan).action = "save" => Head(chan).id \in Ids /\ Head(chan).row \in Rows
<1>1. Head(chan) \in Message /\ Tail(chan) \in Seq(Message)
  OBVIOUS
<1> QED BY <1>1 DEF Message

\* The messages of the stream.
LEMMA CardsInvStream ==
  ASSUME CardsInv, StreamStep \/ \E n \in Names : TimerFires(n)
  PROVE  CardsInv'
<1> USE DEF CardsInv
<1>0. <<>> \in Seq(Message)
  OBVIOUS
<1>1. ASSUME view' \subseteq view, chan' \in Seq(Message), UNCHANGED <<table, ver, fetch>>
      PROVE  CardsInv'
  BY <1>1 DEF OneCardEach
<1>2. ASSUME StreamOpen \/ StreamFail \/ StreamEnd \/ StreamRetry
      PROVE  CardsInv'
  BY <1>0, <1>1, <1>2, Zenon DEF StreamOpen, StreamFail, StreamEnd, StreamRetry, server, list
<1>3. ASSUME ReceiveDelete
      PROVE  CardsInv'
  BY <1>1, <1>3, HeadMessage DEF ReceiveDelete, Received, server
<1>4. ASSUME NEW n \in Names, TimerFires(n)
      PROVE  CardsInv'
  BY <1>1, <1>4 DEF TimerFires, server, stream
<1>5. ASSUME ReceiveSave
      PROVE  CardsInv'
  <2> DEFINE card == [id |-> Head(chan).id, row |-> Head(chan).row]
  <2>1. PICK old \in IF Matches(card) = {} THEN {{}} ELSE {{c} : c \in Matches(card)} :
           view' = (view \ old) \cup {card}
    BY <1>5, Zenon DEF ReceiveSave
  <2>2. card \in Card
    BY <1>5, HeadMessage DEF ReceiveSave, Received, Card
  <2> HIDE DEF card
  <2>3. OneEach((view \ old) \cup {card})
    BY SaveKeepsOne, Zenon
  <2>4. chan' \in Seq(Message) /\ UNCHANGED <<table, ver, fetch>>
    BY <1>5, HeadMessage DEF ReceiveSave, Received, server
  <2> QED BY <2>1, <2>2, <2>3, <2>4 DEF OneCardEach, OneEach
<1> QED BY <1>2, <1>3, <1>4, <1>5 DEF StreamStep

\* A change of the table, and the message about it.
LEMMA CardsInvServer ==
  ASSUME CardsInv, ReportInv, ServerStep
  PROVE  CardsInv'
<1> USE DEF CardsInv
<1>1. ASSUME NEW i \in Ids, NEW row \in Rows, ServerSave(i, row)
      PROVE  CardsInv'
  <2>1. /\ table' \in [Ids -> Rows \cup {None}] /\ ver' \in [Ids -> Nat]
        /\ UNCHANGED <<chan, view, fetch>>
    BY <1>1 DEF ServerSave, stream, list
  <2> QED BY <2>1 DEF OneCardEach
<1>2. ASSUME NEW i \in Ids, ServerDelete(i)
      PROVE  CardsInv'
  <2>1. /\ table' \in [Ids -> Rows \cup {None}] /\ ver' \in [Ids -> Nat]
        /\ UNCHANGED <<chan, view, fetch>>
    BY <1>2 DEF ServerDelete, stream, list
  <2> QED BY <2>1 DEF OneCardEach
<1>3. ASSUME NEW r \in reports, ReadBack(r)
      PROVE  CardsInv'
  <2>1. UNCHANGED <<table, ver, chan, view, fetch>>
    BY <1>3 DEF ReadBack, stream, list
  <2> QED BY <2>1 DEF OneCardEach
<1>4. ASSUME NEW r \in reports, ServerPublish(r)
      PROVE  CardsInv'
  <2>1. UNCHANGED <<table, ver, view, fetch>>
    BY <1>4 DEF ServerPublish, list
  <2>2. r.message \in Message
    BY <1>4 DEF ServerPublish, ReportInv, Report
  <2>3. chan' \in Seq(Message)
    BY <1>4, <2>2 DEF ServerPublish, Publish
  <2> QED BY <2>1, <2>3 DEF OneCardEach
<1> QED BY <1>1, <1>2, <1>3, <1>4 DEF ServerStep

\* Opening and leaving the page, and the operations.
LEMMA CardsInvUser ==
  ASSUME CardsInv, UserStep \/ (\E o \in ops : OpEnds(o)) \/ UNCHANGED vars
  PROVE  CardsInv'
<1> USE DEF CardsInv
<1>1. ASSUME UNCHANGED <<table, ver, chan, view, fetch>>
      PROVE  CardsInv'
  BY <1>1 DEF OneCardEach
<1>2. ASSUME (\E c \in view, kind \in Kinds : Act(c, kind)) \/ (\E o \in ops : OpEnds(o))
             \/ UNCHANGED vars
      PROVE  CardsInv'
  BY <1>1, <1>2 DEF Act, OpEnds, vars, server, stream, list
<1>3. ASSUME Mount
      PROVE  CardsInv'
  <2>1. PICK k \in Slots : fetch' = [fetch EXCEPT ![k].phase = "sent"]
    BY <1>3, Zenon DEF Mount, Free
  <2>2. fetch' \in [Slots -> Listing] /\ \A j \in Slots : fetch'[j].cards = fetch[j].cards
    BY <2>1, Zenon DEF Listing
  <2>3. UNCHANGED <<table, ver, chan, view>>
    BY <1>3 DEF Mount, server, list
  <2> QED BY <2>2, <2>3 DEF OneCardEach
<1>4. ASSUME Unmount
      PROVE  CardsInv'
  <2>1. view' = {} /\ chan' = <<>> /\ fetch' = [k \in Slots |-> Idle] /\ UNCHANGED <<table, ver>>
    BY <1>4 DEF Unmount, server
  <2>2. chan' \in Seq(Message)
    BY <2>1
  <2> QED BY <2>1, <2>2, IdleListing DEF OneCardEach, OneEach
<1> QED BY <1>2, <1>3, <1>4 DEF UserStep

-----------------------------------------------------------------------------
\* An operation is started on a card that has none; an answer ends the one it
\* answers; leaving the page leaves the operations to themselves.
LEMMA OpsInvNext ==
  ASSUME ViewAssumption, CardsInv, OpsInv, [Next]_vars
  PROVE  OpsInv'
<1> USE DEF OpsInv
<1>1. ASSUME UNCHANGED <<busy, ops>>
      PROVE  OpsInv'
  BY <1>1 DEF BusyTracksOps
<1>2. ASSUME ServerStep \/ FetchStep \/ StreamStep \/ Mount \/ (\E n \in Names : TimerFires(n))
             \/ UNCHANGED vars
      PROVE  UNCHANGED <<busy, ops>>
  <2>1. ASSUME ServerStep \/ FetchStep
        PROVE  UNCHANGED <<busy, ops>>
    BY <2>1, Zenon DEF ServerStep, ServerDelete, ServerSave, ReadBack, ServerPublish,
                FetchStep, FetchServe, Refetch, FetchLand, FetchFail
  <2>2. ASSUME StreamStep
        PROVE  UNCHANGED <<busy, ops>>
    BY <2>2 DEF StreamStep, StreamOpen, StreamFail, StreamEnd, StreamRetry, ReceiveDelete,
                ReceiveSave, Received
  <2>3. ASSUME Mount \/ (\E n \in Names : TimerFires(n)) \/ UNCHANGED vars
        PROVE  UNCHANGED <<busy, ops>>
    BY <2>3 DEF Mount, TimerFires, vars
  <2> QED BY <1>2, <2>1, <2>2, <2>3
<1>3. ASSUME NEW c \in view, NEW kind \in Kinds, Act(c, kind)
      PROVE  OpsInv'
  <2> DEFINE o == [id |-> c.id, kind |-> kind, live |-> TRUE]
  <2>1. c.id \in Ids
    BY DEF CardsInv, Card
  <2>2. busy[c.id] = None
    BY <1>3 DEF Act, GridOffers, TableOffers
  <2>3. busy' = [busy EXCEPT ![c.id] = kind] /\ ops' = ops \cup {o}
    BY <1>3 DEF Act
  <2>4. o \in Operation /\ o.id = c.id /\ o.kind = kind /\ o.live
    BY <2>1 DEF Operation
  <2> HIDE DEF o
  <2>5. \A p \in ops : p.live => p.id # c.id
    BY <2>1, <2>2 DEF BusyTracksOps
  <2>6. busy' \in [Ids -> Kinds \cup {None}] /\ ops' \subseteq Operation
    BY <2>1, <2>3, <2>4
  <2>7. BusyTracksOps'
    BY <2>1, <2>3, <2>4, <2>5 DEF BusyTracksOps, ViewAssumption, Operation
  <2> QED BY <2>6, <2>7
<1>4. ASSUME NEW o \in ops, OpEnds(o)
      PROVE  OpsInv'
  <2>1. ops' = ops \ {o} /\ o \in Operation
    BY <1>4 DEF OpEnds
  <2>2. CASE o.live
    <3>1. busy' = [busy EXCEPT ![o.id] = None]
      BY <1>4, <2>2 DEF OpEnds
    <3>2. \A p \in ops : p.live /\ p.id = o.id => p = o
      <4> SUFFICES ASSUME NEW p \in ops, p.live, p.id = o.id PROVE p = o
        OBVIOUS
      <4>1. p.kind = o.kind
        BY <2>2 DEF BusyTracksOps
      <4>2. p \in Operation /\ p.live = TRUE /\ o.live = TRUE
        BY <2>1, <2>2 DEF Operation
      <4> QED BY <2>1, <4>1, <4>2 DEF Operation
    <3>3. BusyTracksOps'
      BY <2>1, <2>2, <3>1, <3>2 DEF BusyTracksOps, Operation
    <3> QED BY <2>1, <3>1, <3>3 DEF Operation
  <2>3. CASE ~o.live
    <3>1. busy' = busy
      BY <1>4, <2>3 DEF OpEnds
    <3>2. {p \in ops' : p.live} = {p \in ops : p.live}
      BY <2>1, <2>3
    <3> QED BY <2>1, <3>1, <3>2 DEF BusyTracksOps
  <2> QED BY <2>2, <2>3
<1>5. ASSUME Unmount
      PROVE  OpsInv'
  <2>1. busy' = [i \in Ids |-> None] /\ ops' = {[o EXCEPT !.live = FALSE] : o \in ops}
    BY <1>5 DEF Unmount
  <2>2. \A o \in ops' : o \in Operation /\ ~o.live
    <3>1. \A p \in Operation : /\ [p EXCEPT !.live = FALSE] \in Operation
                               /\ ~[p EXCEPT !.live = FALSE].live
      BY Zenon DEF Operation
    <3> QED BY <2>1, <3>1, Zenon
  <2> QED BY <2>1, <2>2 DEF BusyTracksOps
<1> QED BY <1>1, <1>2, <1>3, <1>4, <1>5, Zenon, Zenon DEF Next, UserStep

-----------------------------------------------------------------------------
(* What the page was told.                                                 *)

LEMMA OwnRow ==
  ASSUME NEW t \in [Ids -> Rows \cup {None}], NEW i \in Ids
  PROVE  Own(Cards(t), i) = IF t[i] = None THEN {} ELSE {[id |-> i, row |-> t[i]]}
BY DEF Own, Cards

\* A row that does not change is listed as before.
LEMMA SameRow ==
  ASSUME NEW t \in [Ids -> Rows \cup {None}], NEW u \in [Ids -> Rows \cup {None}],
         NEW i \in Ids, t[i] = u[i]
  PROVE  Own(Cards(t), i) = Own(Cards(u), i)
BY OwnRow, Zenon

\* What a write to the table changes.  A removed container does not come back.
Changes == \E i \in Ids : ServerDelete(i) \/ \E row \in Rows : ServerSave(i, row)

LEMMA RowChanges ==
  ASSUME CardsInv, Changes
  PROVE  \E i \in Ids, row \in Rows \cup {None} :
           /\ ver'[i] = ver[i] + 1 /\ table'[i] = row /\ ver[i] \in Nat
           /\ \A j \in Ids \ {i} : ver'[j] = ver[j] /\ table'[j] = table[j]
           /\ table[i] = None => ver[i] = 0
<1>1. PICK i \in Ids, row \in Rows \cup {None} :
         /\ table' = [table EXCEPT ![i] = row] /\ ver' = [ver EXCEPT ![i] = @ + 1]
         /\ table[i] = None => ver[i] = 0
  BY Zenon DEF Changes, ServerSave, ServerDelete
<1>2. /\ ver'[i] = ver[i] + 1 /\ table'[i] = row /\ ver[i] \in Nat
      /\ \A j \in Ids \ {i} : ver'[j] = ver[j] /\ table'[j] = table[j]
  BY <1>1 DEF CardsInv
<1> QED BY <1>1, <1>2, Zenon

LEMMA FinalStays ==
  ASSUME CardsInv, Changes, NEW j \in Ids, Final(table, ver, j)
  PROVE  Final(table', ver', j)
BY RowChanges DEF Final

LEMMA TruthfulStays ==
  ASSUME CardsInv, Changes, NEW m \in Message, Truthful(table, ver, m)
  PROVE  Truthful(table', ver', m)
<1>1. PICK i \in Ids :
         /\ ver'[i] = ver[i] + 1 /\ ver[i] \in Nat
         /\ \A j \in Ids \ {i} : ver'[j] = ver[j] /\ table'[j] = table[j]
  BY RowChanges, Zenon
<1>2. m.id \in Ids /\ m.ver \in Nat /\ ver[m.id] \in Nat
  BY DEF Message, CardsInv
<1>3. m.action = "delete" => Final(table', ver', m.id)
  BY <1>2, FinalStays DEF Truthful
<1>4. CASE m.id = i
  BY <1>1, <1>2, <1>3, <1>4 DEF Truthful
<1>5. CASE m.id # i
  BY <1>1, <1>2, <1>3, <1>5 DEF Truthful
<1> QED BY <1>4, <1>5

\* A change of a row outdates what was told of it.
LEMMA AgreeChanges ==
  ASSUME ViewAssumption, CardsInv, AgreeInv, CardsInv', Changes
  PROVE  AgreeInv'
<1>1. UNCHANGED <<chan, seen, timers, merged, view, fetch>>
  BY Zenon DEF Changes, ServerSave, ServerDelete, stream, list
<1>2. PICK i \in Ids :
         /\ ver'[i] = ver[i] + 1 /\ ver[i] \in Nat
         /\ \A j \in Ids \ {i} : ver'[j] = ver[j] /\ table'[j] = table[j]
  BY RowChanges, Zenon
<1>3. \A j \in Ids \ {i} : Own(Cards(table), j)' = Own(Cards(table), j)
  BY <1>2, SameRow, ZenonT(30) DEF CardsInv
<1>4. \A n \in Names : timers'[n] # None => Final(table', ver', timers'[n])
  BY <1>1, FinalStays DEF AgreeInv
<1>5. ASSUME NEW j \in 1..Len(chan)
      PROVE  Truthful(table', ver', chan[j])
  <2>1. chan[j] \in Message
    BY DEF CardsInv
  <2>2. Truthful(table, ver, chan[j])
    BY DEF AgreeInv
  <2> QED BY <2>1, <2>2, TruthfulStays
<1>6. ASSUME NEW k \in Slots, fetch[k].phase = "served"
      PROVE  TruthfulListing(table', ver', fetch[k])
  <2> SUFFICES ASSUME NEW j \in Ids
               PROVE  /\ fetch[k].ver[j] \in Nat /\ fetch[k].ver[j] <= ver'[j]
                      /\ fetch[k].ver[j] = ver'[j] => Own(fetch[k].cards, j) = Own(Cards(table), j)'
    BY <1>1, Zenon DEF TruthfulListing, Own
  <2>1. /\ fetch[k].ver[j] \in Nat /\ fetch[k].ver[j] <= ver[j]
        /\ fetch[k].ver[j] = ver[j] => Own(fetch[k].cards, j) = Own(Cards(table), j)
    BY <1>6 DEF AgreeInv, TruthfulListing
  <2> QED BY <1>2, <1>3, <2>1
<1>7. ShownAsTold'
  <2> SUFFICES ASSUME NEW j \in Ids, seen[j] = ver'[j], j \notin merged
               PROVE  \/ Own(view, j) = Own(Cards(table), j)'
                      \/ table'[j] = None /\ \A c \in Own(view, j) : timers[c.row.name] = j
    BY <1>1, Zenon DEF ShownAsTold, Own
  <2>1. j # i
    <3> SUFFICES ASSUME j = i PROVE FALSE
      OBVIOUS
    <3>0. ver'[i] = ver[i] + 1 /\ ver[i] \in Nat
      BY <1>2, Zenon
    <3>1. seen[i] = ver[i] + 1 /\ seen[i] \in Nat
      BY <3>0
    <3>2. seen[i] # None
      BY <3>1 DEF ViewAssumption
    <3>3. seen[i] <= ver[i]
      BY <3>2 DEF AgreeInv
    <3> QED BY <1>2, <3>1, <3>3
  <2> QED BY <1>2, <1>3, <2>1, Zenon DEF AgreeInv, ShownAsTold
<1>8. ASSUME NEW j \in Ids, seen[j] # None
      PROVE  seen[j] <= ver'[j]
  <2>1. seen[j] \in Nat /\ seen[j] <= ver[j] /\ ver[j] \in Nat
    BY <1>8 DEF AgreeInv, CardsInv
  <2>2. ver'[j] = ver[j] \/ ver'[j] = ver[j] + 1
    BY <1>2
  <2> QED BY <2>1, <2>2
<1> QED BY <1>1, <1>4, <1>5, <1>6, <1>7, <1>8, Zenon DEF AgreeInv

\* A report is read from the table or tells a removal, and stays true of a row
\* that does not change.
LEMMA ReportInvNext ==
  ASSUME CardsInv, ReportInv, CardsInv', [Next]_vars
  PROVE  ReportInv'
<1>1. ASSUME UNCHANGED <<table, ver, reports>>
      PROVE  ReportInv'
  BY <1>1 DEF ReportInv
<1>2. ASSUME NEW new, reports' = reports \cup {new}, new \in Report, Changes,
             new.message # None => Truthful(table', ver', new.message)
      PROVE  ReportInv'
  <2>1. ASSUME NEW r \in reports, r.message # None
        PROVE  Truthful(table', ver', r.message)
    <3>1. r.message \in Message
      BY <2>1 DEF ReportInv, Report
    <3> QED BY <1>2, <2>1, <3>1, TruthfulStays DEF ReportInv
  <2> QED BY <1>2, <2>1 DEF ReportInv
<1>3. ASSUME NEW i \in Ids, NEW row \in Rows, ServerSave(i, row)
      PROVE  ReportInv'
  <2> DEFINE new == [id |-> i, at |-> ver'[i], message |-> None]
  <2>1. reports' = reports \cup {new} /\ Changes
    BY <1>3 DEF ServerSave, Changes
  <2>2. new \in Report /\ new.message = None
    BY DEF Report, CardsInv
  <2> HIDE DEF new
  <2> QED BY <1>2, <2>1, <2>2
<1>4. ASSUME NEW i \in Ids, ServerDelete(i)
      PROVE  ReportInv'
  <2> DEFINE message == [action |-> "delete", id |-> i, row |-> None, ver |-> ver'[i]]
             new == [id |-> i, at |-> ver'[i], message |-> message]
  <2>1. reports' = reports \cup {new} /\ Changes
    BY <1>4 DEF ServerDelete, Changes
  <2>2. /\ table'[i] = None /\ ver'[i] = ver[i] + 1 /\ ver[i] \in Nat /\ ver'[i] \in Nat
    BY <1>4 DEF ServerDelete, CardsInv
  <2>3. Truthful(table', ver', message) /\ message \in Message
    BY <2>2 DEF Truthful, Final, Message
  <2> HIDE DEF message
  <2>4. new \in Report /\ new.message = message
    BY <2>2, <2>3 DEF Report
  <2> HIDE DEF new
  <2> QED BY <1>2, <2>1, <2>3, <2>4
<1>5. ASSUME NEW r \in reports, ReadBack(r)
      PROVE  ReportInv'
  <2> DEFINE told(c) == [action |-> "save", id |-> c.id, row |-> c.row, ver |-> ver[c.id]]
  <2>1. /\ UNCHANGED <<table, ver>>
        /\ reports' = (reports \ {r}) \cup {[r EXCEPT !.message = told(c)] :
                                             c \in {d \in Cards(table) : d.id = r.id}}
    BY <1>5 DEF ReadBack
  <2>2. ASSUME NEW c \in Cards(table)
        PROVE  told(c) \in Message /\ Truthful(table, ver, told(c))
    <3>1. c.id \in Ids /\ c.row \in Rows /\ c.row = table[c.id] /\ ver[c.id] \in Nat
      BY DEF Cards, CardsInv
    <3> QED BY <3>1 DEF Message, Truthful
  <2>3. r \in Report
    BY DEF ReportInv
  <2> HIDE DEF told
  <2>4. ASSUME NEW c \in Cards(table)
        PROVE  /\ [r EXCEPT !.message = told(c)] \in Report
               /\ [r EXCEPT !.message = told(c)].message = told(c)
    BY <2>2, <2>3 DEF Report
  <2>5. \A q \in reports' : q \in Report /\ (q.message # None => Truthful(table, ver, q.message))
    BY <2>1, <2>2, <2>4, Zenon DEF ReportInv
  <2> QED BY <2>1, <2>5, Zenon DEF ReportInv
<1>6. ASSUME NEW r \in reports, ServerPublish(r)
      PROVE  ReportInv'
  BY <1>6 DEF ServerPublish, ReportInv
<1>7. ASSUME FetchStep \/ StreamStep \/ UserStep \/ (\E n \in Names : TimerFires(n))
             \/ (\E o \in ops : OpEnds(o)) \/ UNCHANGED vars
      PROVE  UNCHANGED <<table, ver, reports>>
  <2>1. ASSUME FetchStep
        PROVE  UNCHANGED server
    BY <2>1, Zenon DEF FetchStep, FetchServe, Refetch, FetchLand, FetchFail
  <2>2. ASSUME StreamStep
        PROVE  UNCHANGED server
    BY <2>2, Zenon DEF StreamStep, StreamOpen, StreamFail, StreamEnd, StreamRetry,
                       ReceiveDelete, ReceiveSave, Received
  <2>3. ASSUME UserStep \/ (\E n \in Names : TimerFires(n)) \/ (\E o \in ops : OpEnds(o))
               \/ UNCHANGED vars
        PROVE  UNCHANGED server
    BY <2>3, Zenon DEF UserStep, Act, Mount, Unmount, TimerFires, OpEnds, vars
  <2> QED BY <1>7, <2>1, <2>2, <2>3 DEF server
<1> QED BY <1>1, <1>3, <1>4, <1>5, <1>6, <1>7, Zenon DEF Next, ServerStep

\* Reading a row back tells the page nothing; what is published is true.
LEMMA AgreeServer ==
  ASSUME ViewAssumption, CardsInv, ReportInv, AgreeInv, CardsInv', ServerStep
  PROVE  AgreeInv'
<1>1. CASE Changes
  BY <1>1, AgreeChanges
<1>2. ASSUME UNCHANGED <<table, ver, seen, timers, merged, view, fetch>>,
             \A j \in 1..Len(chan') : Truthful(table, ver, chan'[j])
      PROVE  AgreeInv'
  <2>1. /\ ShownAsTold'
        /\ \A k \in Slots : fetch'[k].phase = "served" => TruthfulListing(table', ver', fetch'[k])
    BY <1>2 DEF AgreeInv, ShownAsTold, TruthfulListing, Own
  <2> QED BY <1>2, <2>1, Zenon DEF AgreeInv
<1>3. ASSUME NEW r \in reports, ReadBack(r)
      PROVE  AgreeInv'
  <2>1. UNCHANGED <<table, ver, chan, seen, timers, merged, view, fetch>>
    BY <1>3 DEF ReadBack, stream, list
  <2> QED BY <1>2, <2>1 DEF AgreeInv
<1>4. ASSUME NEW r \in reports, ServerPublish(r)
      PROVE  AgreeInv'
  <2>1. UNCHANGED <<table, ver, seen, timers, merged, view, fetch>>
    BY <1>4 DEF ServerPublish, list
  <2>2. Truthful(table, ver, r.message)
    BY <1>4 DEF ServerPublish, ReportInv
  <2>3. chan' = chan \/ chan' = Append(chan, r.message)
    BY <1>4 DEF ServerPublish, Publish
  <2>4. chan \in Seq(Message)
    BY DEF CardsInv
  <2>5. ASSUME NEW j \in 1..Len(chan')
        PROVE  chan'[j] = r.message \/ (j \in 1..Len(chan) /\ chan'[j] = chan[j])
    BY <2>3, <2>4
  <2>6. \A j \in 1..Len(chan') : Truthful(table, ver, chan'[j])
    BY <2>2, <2>5, Zenon DEF AgreeInv
  <2> QED BY <1>2, <2>1, <2>6
<1> QED BY <1>1, <1>3, <1>4 DEF ServerStep, Changes

\* A listing is true of the moment it is served, and replaces all that is shown.
LEMMA AgreeFetch ==
  ASSUME ViewAssumption, CardsInv, AgreeInv, FetchStep
  PROVE  AgreeInv'
<1>0. UNCHANGED <<table, ver, chan, timers>>
  BY DEF FetchStep, FetchServe, Refetch, FetchLand, FetchFail, server, stream, list
<1>1. PICK k \in Slots : FetchServe(k) \/ Refetch(k) \/ FetchLand(k) \/ FetchFail(k)
  BY DEF FetchStep
<1>2. \A j \in Slots : fetch'[j].phase = "served" => TruthfulListing(table', ver', fetch'[j])
  <2>1. \A j \in Slots : fetch[j].phase = "served" => TruthfulListing(table', ver', fetch[j])
    BY <1>0 DEF AgreeInv, TruthfulListing, Own
  <2>2. CASE FetchServe(k)
    <3> DEFINE l == [phase |-> "served", cards |-> Cards(table), ver |-> ver]
    <3>1. fetch' = [fetch EXCEPT ![k] = l]
      BY <2>2 DEF FetchServe
    <3>2. TruthfulListing(table', ver', l)
      BY <1>0 DEF TruthfulListing, CardsInv, Own
    <3> HIDE DEF l
    <3> QED BY <2>1, <3>1, <3>2 DEF CardsInv
  <2>3. CASE Refetch(k)
    <3>1. fetch' = [fetch EXCEPT ![k].phase = "sent"]
      BY <2>3 DEF Refetch
    <3>2. fetch'[k].phase = "sent" /\ \A j \in Slots \ {k} : fetch'[j] = fetch[j]
      BY <3>1 DEF CardsInv, Listing
    <3> QED BY <2>1, <3>2
  <2>4. CASE FetchLand(k) \/ FetchFail(k)
    <3>1. fetch' = [fetch EXCEPT ![k] = Idle] /\ Idle.phase = "idle"
      BY <2>4 DEF FetchLand, FetchFail, Idle
    <3> QED BY <2>1, <3>1 DEF CardsInv
  <2> QED BY <1>1, <2>2, <2>3, <2>4
<1>3. /\ seen' \in [Ids -> Nat \cup {None}]
      /\ \A i \in Ids : seen'[i] # None => seen'[i] <= ver[i]
      /\ ShownAsTold'
  <2>1. CASE FetchLand(k)
    <3>1. /\ view' = fetch[k].cards /\ seen' = fetch[k].ver /\ merged' = {}
          /\ TruthfulListing(table, ver, fetch[k])
      BY <2>1 DEF FetchLand, AgreeInv
    <3>2. fetch[k].ver \in [Ids -> Nat \cup {None}]
      BY DEF CardsInv, Listing
    <3>3. ShownAsTold'
      BY <1>0, <3>1 DEF ShownAsTold, TruthfulListing, Own
    <3> QED BY <3>1, <3>2, <3>3 DEF TruthfulListing
  <2>2. CASE FetchServe(k) \/ Refetch(k) \/ FetchFail(k)
    <3>1. UNCHANGED <<view, seen, merged>>
      BY <2>2 DEF FetchServe, Refetch, FetchFail, list
    <3> QED BY <1>0, <3>1 DEF AgreeInv, ShownAsTold, Own
  <2> QED BY <1>1, <2>1, <2>2
<1>4. /\ \A j \in 1..Len(chan') : Truthful(table', ver', chan'[j])
      /\ \A n \in Names : timers'[n] # None => Final(table', ver', timers'[n])
  BY <1>0 DEF AgreeInv, Truthful, Final
<1> QED BY <1>0, <1>2, <1>3, <1>4 DEF AgreeInv

\* The message that is received, and the ones that remain.
LEMMA Receiving ==
  ASSUME CardsInv, AgreeInv, Received
  PROVE  /\ Head(chan) \in Message /\ Truthful(table, ver, Head(chan))
         /\ \A j \in 1..Len(Tail(chan)) : Truthful(table, ver, Tail(chan)[j])
<1>1. chan \in Seq(Message) /\ chan # <<>>
  BY DEF CardsInv, Received
<1>2. Head(chan) = chan[1] /\ Len(chan) >= 1
      /\ \A j \in 1..Len(Tail(chan)) : j + 1 \in 1..Len(chan) /\ Tail(chan)[j] = chan[j + 1]
  BY <1>1
<1> QED BY <1>1, <1>2 DEF AgreeInv

\* What a step of the stream owes besides the cards.
LEMMA AgreeReceived ==
  ASSUME ViewAssumption, CardsInv, AgreeInv, Received,
         timers' \in [Names -> Ids \cup {None}],
         \A n \in Names : timers'[n] # None => Final(table, ver, timers'[n]),
         ShownAsTold'
  PROVE  AgreeInv'
<1>1. /\ UNCHANGED <<table, ver, fetch>> /\ chan' = Tail(chan)
      /\ seen' = [seen EXCEPT ![Head(chan).id] = Head(chan).ver]
  BY Zenon DEF Received, server
<1>2. /\ Head(chan).id \in Ids /\ Head(chan).ver \in Nat
      /\ Head(chan).ver <= ver[Head(chan).id]
  BY Receiving DEF Message, Truthful
<1>3. /\ seen' \in [Ids -> Nat \cup {None}]
      /\ \A i \in Ids : seen'[i] # None => seen'[i] <= ver[i]
  BY <1>1, <1>2 DEF AgreeInv
<1>4. \A j \in 1..Len(chan') : Truthful(table', ver', chan'[j])
  BY <1>1, Receiving DEF Truthful, Final
<1>5. \A k \in Slots : fetch'[k].phase = "served" => TruthfulListing(table', ver', fetch'[k])
  BY <1>1 DEF AgreeInv, TruthfulListing, Own
<1>6. \A n \in Names : timers'[n] # None => Final(table', ver', timers'[n])
  BY <1>1 DEF Final
<1> QED BY <1>1, <1>3, <1>4, <1>5, <1>6 DEF AgreeInv

\* A removal becomes pending under the name of the card; one that was pending
\* there for another container is recorded as merged.
LEMMA AgreeDelete ==
  ASSUME ViewAssumption, CardsInv, AgreeInv, ReceiveDelete
  PROVE  AgreeInv'
<1> DEFINE id == Head(chan).id
           named(n) == \E c \in Own(view, id) : c.row.name = n
<1>1. /\ Received /\ Head(chan).action = "delete"
      /\ timers' = [n \in Names |-> IF named(n) THEN id ELSE timers[n]]
      /\ merged' = (merged \ {id}) \cup ({timers[c.row.name] : c \in Own(view, id)} \ {None, id})
      /\ UNCHANGED <<view, table, ver>>
      /\ seen' = [seen EXCEPT ![id] = Head(chan).ver]
  BY Zenon DEF ReceiveDelete, Received, server, Own
<1>2. id \in Ids /\ Final(table, ver, id)
  BY <1>1, Receiving, Zenon DEF Message, Truthful
<1>3. \A c \in view : c.row.name \in Names
  BY DEF CardsInv, Card, ViewAssumption
<1> HIDE DEF id
<1>4. /\ timers' \in [Names -> Ids \cup {None}]
      /\ \A n \in Names : timers'[n] # None => Final(table, ver, timers'[n])
  BY <1>1, <1>2, Zenon DEF AgreeInv
<1>5. ASSUME NEW i \in Ids, seen'[i] = ver[i], i \notin merged'
      PROVE  \/ Own(view, i) = Own(Cards(table), i)
             \/ table[i] = None /\ \A c \in Own(view, i) : timers'[c.row.name] = i
  <2>1. CASE i = id
    BY <1>1, <1>2, <1>3, <2>1 DEF Final, Own
  <2>2. CASE i # id
    <3>1. seen[i] = ver[i] /\ i \notin merged
      BY <1>1, <1>5, <2>2, Zenon DEF AgreeInv
    <3>2. ASSUME NEW c \in Own(view, i), timers[c.row.name] = i
          PROVE  timers'[c.row.name] = i
      <4>1. c.row.name \in Names
        BY <1>3 DEF Own
      <4>2. ~named(c.row.name)
        BY <1>1, <1>5, <2>2, <3>2, Zenon DEF ViewAssumption
      <4> QED BY <1>1, <3>2, <4>1, <4>2
    <3> QED BY <3>1, <3>2 DEF AgreeInv, ShownAsTold
  <2> QED BY <2>1, <2>2
<1>6. ShownAsTold'
  BY <1>1, <1>5 DEF ShownAsTold, Own
<1> QED BY <1>1, <1>4, <1>6, AgreeReceived

\* A save shows the row it tells.  The card it replaces and the one whose
\* removal it cancels are recorded as merged, if they are another container's.
LEMMA AgreeSave ==
  ASSUME ViewAssumption, CardsInv, AgreeInv, ReceiveSave
  PROVE  AgreeInv'
<1> DEFINE card == [id |-> Head(chan).id, row |-> Head(chan).row]
           name == card.row.name
<1>1. PICK old \in IF Matches(card) = {} THEN {{}} ELSE {{c} : c \in Matches(card)} :
         /\ view' = (view \ old) \cup {card}
         /\ merged' = (merged \ {card.id})
                      \cup {c.id : c \in {d \in old : d.id # card.id /\ table[d.id] # None}}
                      \cup {c.id : c \in {d \in view' : old # {} /\ d.id = timers[name]}}
  BY Zenon DEF ReceiveSave
<1>2. /\ Received /\ Head(chan).action = "save"
      /\ timers' = [timers EXCEPT ![name] = None]
      /\ seen' = [seen EXCEPT ![card.id] = Head(chan).ver]
      /\ UNCHANGED <<table, ver>>
  BY DEF ReceiveSave, Received, server
<1>3. /\ card.id \in Ids /\ card.row \in Rows /\ card = [id |-> card.id, row |-> card.row]
      /\ Head(chan).ver = ver[card.id] => card.row = table[card.id]
  BY <1>2, Receiving, Zenon DEF Message, Truthful
<1>4. \A c \in view : c.row.name \in Names
  BY DEF CardsInv, Card, ViewAssumption
<1>5. OneEach((view \ old) \cup {card})
  BY SaveKeepsOne, Zenon DEF CardsInv
<1> HIDE DEF card
<1>6. /\ timers' \in [Names -> Ids \cup {None}]
      /\ \A n \in Names : timers'[n] # None => Final(table, ver, timers'[n])
  BY <1>2, Zenon DEF AgreeInv
<1>7. ASSUME NEW i \in Ids, seen'[i] = ver[i], i \notin merged'
      PROVE  \/ Own(view', i) = Own(Cards(table), i)
             \/ table[i] = None /\ \A c \in Own(view', i) : timers'[c.row.name] = i
  <2>1. CASE i = card.id
    <3>1. Own(view', i) = {card}
      BY <1>1, <1>5, <2>1 DEF OneEach, Own
    <3>2. card.row = table[i]
      BY <1>2, <1>3, <1>7, <2>1 DEF AgreeInv
    <3>3. Own(Cards(table), i) = {card}
      BY <1>3, <2>1, <3>2, OwnRow, Zenon DEF CardsInv, ViewAssumption
    <3> QED BY <3>1, <3>3
  <2>2. CASE i # card.id
    <3>1. seen[i] = ver[i] /\ i \notin merged
      BY <1>1, <1>2, <1>7, <2>2, Zenon DEF AgreeInv
    <3>2. CASE table[i] # None
      <4>1. Own(view', i) = Own(view, i)
        BY <1>1, <1>7, <2>2, <3>2 DEF Own
      <4> QED BY <3>1, <3>2, <4>1, Zenon DEF AgreeInv, ShownAsTold
    <3>3. CASE table[i] = None
      <4> SUFFICES ASSUME NEW c \in view, c.id = i, c \in view'
                   PROVE  timers'[c.row.name] = i
        BY <1>1, <2>2, <3>3 DEF Own
      <4>1. c \in Own(view, i) /\ Own(Cards(table), i) = {}
        BY <3>3, OwnRow DEF Own, CardsInv
      <4>2. timers[c.row.name] = i
        BY <3>1, <4>1 DEF AgreeInv, ShownAsTold
      <4>3. c.row.name # name
        <5> SUFFICES ASSUME c.row.name = name PROVE FALSE
          OBVIOUS
        <5>1. Matches(card) # {}
          BY DEF Matches
        <5>2. old # {}
          BY <1>1, <5>1
        <5> QED BY <1>1, <1>7, <4>2, <5>2
      <4> QED BY <1>2, <1>4, <4>2, <4>3, Zenon DEF AgreeInv
    <3> QED BY <3>2, <3>3
  <2> QED BY <2>1, <2>2
<1>8. ShownAsTold'
  BY <1>2, <1>7 DEF ShownAsTold, Own
<1> QED BY <1>2, <1>6, <1>8, AgreeReceived

\* A timer removes the card of a container that is gone.
LEMMA AgreeTimer ==
  ASSUME ViewAssumption, CardsInv, AgreeInv, NEW n \in Names, TimerFires(n)
  PROVE  AgreeInv'
<1>1. /\ timers[n] # None
      /\ view' = {c \in view : c.id # timers[n]}
      /\ timers' = [timers EXCEPT ![n] = None]
      /\ UNCHANGED <<table, ver, chan, seen, merged, fetch>>
  BY DEF TimerFires, server, stream
<1>2. Final(table, ver, timers[n]) /\ timers[n] \in Ids
  BY <1>1 DEF AgreeInv
<1>3. \A c \in view : c.row.name \in Names
  BY DEF CardsInv, Card, ViewAssumption
<1>4. ASSUME NEW i \in Ids, seen[i] = ver[i], i \notin merged
      PROVE  \/ Own(view', i) = Own(Cards(table), i)
             \/ table[i] = None /\ \A c \in Own(view', i) : timers'[c.row.name] = i
  <2>1. CASE i = timers[n]
    BY <1>1, <1>2, <2>1 DEF Final, Own
  <2>2. CASE i # timers[n]
    <3>1. Own(view', i) = Own(view, i)
      BY <1>1, <2>2 DEF Own
    <3>2. ASSUME NEW c \in Own(view, i), timers[c.row.name] = i
          PROVE  timers'[c.row.name] = i
      BY <1>1, <1>3, <2>2, <3>2 DEF AgreeInv, Own
    <3> QED BY <1>4, <3>1, <3>2, Zenon DEF AgreeInv, ShownAsTold
  <2> QED BY <2>1, <2>2
<1>5. ShownAsTold'
  BY <1>1, <1>4 DEF ShownAsTold, Own
<1>6. /\ timers' \in [Names -> Ids \cup {None}]
      /\ \A m \in Names : timers'[m] # None => Final(table', ver', timers'[m])
  BY <1>1 DEF AgreeInv, Final
<1>7. /\ \A j \in 1..Len(chan') : Truthful(table', ver', chan'[j])
      /\ \A k \in Slots : fetch'[k].phase = "served" => TruthfulListing(table', ver', fetch'[k])
  BY <1>1 DEF AgreeInv, Truthful, Final, TruthfulListing, Own
<1> QED BY <1>1, <1>5, <1>6, <1>7, Zenon DEF AgreeInv

\* Opening, losing and reopening the stream, operations, and mounting change
\* neither the cards nor what was told.
LEMMA AgreeOther ==
  ASSUME CardsInv, AgreeInv,
         UNCHANGED <<table, ver, view, seen, timers, merged>>,
         chan' = chan \/ chan' = <<>>,
         \A k \in Slots : fetch'[k] = fetch[k] \/ fetch'[k].phase # "served"
  PROVE  AgreeInv'
<1>1. \A j \in 1..Len(chan') : Truthful(table', ver', chan'[j])
  <2>1. CASE chan' = chan
    BY <2>1 DEF AgreeInv
  <2>2. CASE chan' = <<>>
    BY <2>2
  <2> QED BY <2>1, <2>2, Zenon
<1>2. \A k \in Slots : fetch'[k].phase = "served" => TruthfulListing(table', ver', fetch'[k])
  BY DEF AgreeInv, TruthfulListing, Own
<1>3. ShownAsTold' /\ \A n \in Names : timers'[n] # None => Final(table', ver', timers'[n])
  BY DEF AgreeInv, ShownAsTold, Own, Final
<1> QED BY <1>1, <1>2, <1>3, Zenon DEF AgreeInv

\* A page that is left forgets what it was told.
LEMMA AgreeUnmount ==
  ASSUME ViewAssumption, CardsInv, AgreeInv, Unmount
  PROVE  AgreeInv'
<1>1. /\ seen' = Unknown /\ timers' = [n \in Names |-> None] /\ chan' = <<>>
      /\ fetch' = [k \in Slots |-> Idle] /\ ver' = ver
  BY DEF Unmount, server
<1>2. \A i \in Ids : seen'[i] # ver'[i]
  BY <1>1 DEF Unknown, CardsInv, ViewAssumption
<1>3. ShownAsTold'
  BY <1>2 DEF ShownAsTold
<1>4. /\ seen' \in [Ids -> Nat \cup {None}] /\ \A i \in Ids : seen'[i] = None
      /\ timers' \in [Names -> Ids \cup {None}] /\ \A n \in Names : timers'[n] = None
  BY <1>1 DEF Unknown
<1>5. /\ 1..Len(chan') = {}
      /\ \A k \in Slots : fetch'[k].phase = "idle"
  BY <1>1 DEF Idle
<1> QED BY <1>3, <1>4, <1>5 DEF AgreeInv

LEMMA AgreeInvNext ==
  ASSUME ViewAssumption, CardsInv, CardsInv', ReportInv, AgreeInv, [Next]_vars
  PROVE  AgreeInv'
<1>1. CASE StreamOpen \/ StreamFail \/ StreamEnd \/ StreamRetry \/ UNCHANGED vars
  BY <1>1, AgreeOther DEF StreamOpen, StreamFail, StreamEnd, StreamRetry, vars, server,
                          stream, list
<1>2. CASE (\E c \in view, kind \in Kinds : Act(c, kind)) \/ \E o \in ops : OpEnds(o)
  BY <1>2, AgreeOther DEF Act, OpEnds, server, stream, list
<1>3. CASE Mount
  <2>1. PICK k \in Slots : fetch' = [fetch EXCEPT ![k].phase = "sent"]
    BY <1>3, Zenon DEF Mount, Free
  <2>2. \A j \in Slots : fetch'[j] = fetch[j] \/ fetch'[j].phase # "served"
    BY <2>1 DEF CardsInv, Listing
  <2>3. UNCHANGED <<table, ver, view, seen, timers, merged, chan>>
    BY <1>3 DEF Mount, server, list
  <2> QED BY <2>2, <2>3, AgreeOther
<1> QED BY <1>1, <1>2, <1>3, AgreeServer, AgreeFetch, AgreeDelete, AgreeSave, AgreeTimer,
           AgreeUnmount, Zenon DEF Next, StreamStep, UserStep

-----------------------------------------------------------------------------
ViewInv == CardsInv /\ OpsInv /\ ReportInv /\ AgreeInv

\* The invariants hold always.
LEMMA ViewInvAlways == Spec => []ViewInv
<1>1. Init => ViewInv
  <2> SUFFICES ASSUME Init PROVE ViewInv
    OBVIOUS
  <2>1. <<>> \in Seq(Message)
    OBVIOUS
  <2>2. CardsInv
    BY <2>1, IdleListing, ViewAssumption DEF Init, CardsInv, OneEach, OneCardEach, ViewAssumption
  <2>3. OpsInv
    BY DEF Init, OpsInv, BusyTracksOps
  <2>4. ShownAsTold
    BY ViewAssumption DEF Init, ShownAsTold, Unknown, ViewAssumption
  <2>5. AgreeInv
    BY <2>4 DEF Init, AgreeInv, Unknown, Idle
  <2>6. ReportInv
    BY DEF Init, ReportInv
  <2> QED BY <2>2, <2>3, <2>5, <2>6 DEF ViewInv
<1>2. ViewInv /\ [Next]_vars => ViewInv'
  <2> SUFFICES ASSUME CardsInv, OpsInv, ReportInv, AgreeInv, [Next]_vars
               PROVE  ViewInv'
    BY DEF ViewInv
  <2>1. CardsInv'
    BY CardsInvFetch, CardsInvStream, CardsInvServer, CardsInvUser, Zenon, Zenon DEF Next
  <2>2. OpsInv'
    BY ViewAssumption, OpsInvNext
  <2>3. AgreeInv'
    BY <2>1, ViewAssumption, AgreeInvNext
  <2>4. ReportInv'
    BY <2>1, ReportInvNext
  <2> QED BY <2>1, <2>2, <2>3, <2>4 DEF ViewInv
<1> QED BY <1>1, <1>2, PTL DEF Spec

\* However the messages of the stream and overlapping listings interleave, no
\* container has two cards on the dashboard.
THEOREM ViewOneCardEach == Spec => []OneCardEach
<1>1. ViewInv => OneCardEach
  BY DEF ViewInv, CardsInv
<1> QED BY <1>1, ViewInvAlways, PTL

\* A card is busy exactly while one operation of this page is in flight for
\* its container, although pages are left and opened with operations under way.
THEOREM ViewBusyTracksOps == Spec => []BusyTracksOps
<1>1. ViewInv => BusyTracksOps
  BY DEF ViewInv, OpsInv
<1> QED BY <1>1, ViewInvAlways, PTL

\* Whatever messages the broker drops, in whatever order handlers publish what they
\* read, and however streams, listings and removal timers interleave, a container whose latest change reached the page is shown
\* as its row in the server's table says, and one that is gone is not shown.
THEOREM ViewCardsAgree == Spec => []CardsAgree
<1>1. ViewInv => CardsAgree
  <2> SUFFICES ASSUME CardsInv, AgreeInv, NEW i \in Ids, seen[i] = ver[i], i \notin merged,
                      \A n \in Names : timers[n] # i
               PROVE  Own(view, i) = Own(Cards(table), i)
    BY DEF ViewInv, CardsAgree, Own
  <2>1. \A c \in view : c.row.name \in Names
    BY ViewAssumption DEF CardsInv, Card, ViewAssumption
  <2>2. CASE table[i] = None /\ \A c \in Own(view, i) : timers[c.row.name] = i
    <3>1. Own(view, i) = {}
      BY <2>1, <2>2 DEF Own
    <3>2. Own(Cards(table), i) = {}
      BY <2>2, OwnRow DEF CardsInv
    <3> QED BY <3>1, <3>2
  <2> QED BY <2>2, Zenon DEF AgreeInv, ShownAsTold
<1> QED BY <1>1, ViewInvAlways, PTL
=============================================================================
