--------------------------- MODULE AdminPage_proofs ---------------------------
(***************************************************************************)
(* Proofs about the administration page: its list slice turns only to the  *)
(* answer of its newest request, what is loaded belongs to the tab, what   *)
(* was removed is not offered again, each slice has one request at a time  *)
(* and is marked busy exactly while it runs, the prune dialogs never       *)
(* overstate, and a prune corrects the measurement of the volumes.  They   *)
(* hold for any resources, any number of requests in flight and any order  *)
(* of their answers.                                                       *)
(***************************************************************************)
EXTENDS AdminPage, FiniteSetTheorems, TLAPS

\* Zenon proves the steps that do not name another prover.
USE Zenon

ItemsOf(rows) == {r.item : r \in rows}

\* A list request is numbered no later than the newest run of the effects, and
\* the newest asks for the tab.
NewestForTab ==
    /\ cur >= 1
    /\ \A g \in gets : g.n <= cur /\ (g.n = cur => g.kind = tab)
    /\ LoadedMatchesTab

\* A row counted as free was free when the daemon served it.
Honest(shown) ==
    /\ Free(shown.rows) \subseteq shown.was
    /\ shown.kind \in Kinds => shown.was \subseteq OfKind(shown.kind)

\* Only networks are inspected.
Inspecting(g) ==
    /\ g.phase = "listed" => g.kind = "networks"
    /\ g.todo \subseteq Networks

AllHonest == Honest(result) /\ \A g \in gets : Honest(g) /\ Inspecting(g)

\* What was reported as removed is gone, and the newest request lists none of
\* it, nor is about to.
Lists(g) == ItemsOf(g.rows) \cup g.todo

RemovedGone ==
    /\ \A x \in removed : docker[x] = "gone"
    /\ \A j \in jobs : j.phase = "done" /\ j.scope # "measure" => \A x \in j.hit : docker[x] = "gone"
    /\ \A g \in gets : g.n = cur => Lists(g) \cap removed = {}
    /\ RemovedNotListed

\* The dialog of a deletion names what it deletes.
DialogNames ==
    /\ dialog.scope = "image" => dialog.item \in Images
    /\ dialog.scope = "network" => dialog.item \in Networks
    /\ dialog.scope = "record" => dialog.item \in Records

\* The requests of a slice, and that there is one exactly while it is busy.
InSlot(js, S) == {j \in js : j.scope \in S}

Held(js, S, busy) ==
    /\ busy => \E j \in js : InSlot(js, S) = {j}
    /\ ~busy => InSlot(js, S) = {}

\* Only a prune of volumes measures again, and not while a measurement runs.
Slots ==
    /\ Held(jobs, Prunes, pruning # None)
    /\ Held(jobs, {"image"}, deletingId # None)
    /\ Held(jobs, {"network"}, deletingNetworkId # None)
    /\ Held(jobs, {"measure"}, measuring)
    /\ \A j \in jobs : j.rerun => j.scope \in Prunes /\ ~measuring

\* The bound on the runs of the effects.
FetchesSpent == cur + left.fetches = MaxFetches

IInv ==
    /\ TypeOK
    /\ FetchesSpent
    /\ NewestForTab
    /\ AllHonest
    /\ RemovedGone
    /\ DialogNames
    /\ Slots

-----------------------------------------------------------------------------
(* Slices: how the requests of a slice change.                             *)

LEMMA SlotReplace ==
    ASSUME NEW js, NEW j \in js, NEW k, k.scope = j.scope, NEW S, NEW busy \in BOOLEAN,
           Held(js, S, busy)
    PROVE  Held((js \ {j}) \cup {k}, S, busy)
<1>1. CASE j.scope \in S
  <2>1. InSlot(js, S) = {j}
    BY <1>1 DEF Held, InSlot
  <2>2. InSlot((js \ {j}) \cup {k}, S) = {k}
    BY <1>1, <2>1 DEF InSlot
  <2> QED BY <2>1, <2>2 DEF Held
<1>2. CASE j.scope \notin S
  <2>1. InSlot((js \ {j}) \cup {k}, S) = InSlot(js, S)
    BY <1>2 DEF InSlot
  <2> QED BY <1>2, <2>1 DEF Held, InSlot
<1> QED BY <1>1, <1>2

LEMMA SlotRemove ==
    ASSUME NEW js, NEW j \in js, NEW S, NEW busy \in BOOLEAN, Held(js, S, busy)
    PROVE  Held(js \ {j}, S, IF j.scope \in S THEN FALSE ELSE busy)
<1>1. CASE j.scope \in S
  <2>1. InSlot(js, S) = {j}
    BY <1>1 DEF Held, InSlot
  <2> QED BY <1>1, <2>1 DEF Held, InSlot
<1>2. CASE j.scope \notin S
  <2>1. InSlot(js \ {j}, S) = InSlot(js, S)
    BY <1>2 DEF InSlot
  <2> QED BY <1>2, <2>1 DEF Held, InSlot
<1> QED BY <1>1, <1>2

LEMMA SlotAdd ==
    ASSUME NEW js, NEW k, NEW S, NEW busy \in BOOLEAN, Held(js, S, busy),
           k.scope \in S => ~busy
    PROVE  Held(js \cup {k}, S, IF k.scope \in S THEN TRUE ELSE busy)
<1>1. CASE k.scope \in S
  BY <1>1 DEF Held, InSlot
<1>2. CASE k.scope \notin S
  <2>1. InSlot(js \cup {k}, S) = InSlot(js, S)
    BY <1>2 DEF InSlot
  <2> QED BY <1>2, <2>1 DEF Held
<1> QED BY <1>1, <1>2

LEMMA SlotOther ==
    ASSUME NEW js, NEW k, NEW S, NEW busy, Held(js, S, busy), k.scope \notin S
    PROVE  Held(js \cup {k}, S, busy) /\ Held(js \ {k}, S, busy)
<1>1. InSlot(js \cup {k}, S) = InSlot(js, S) /\ InSlot(js \ {k}, S) = InSlot(js, S)
  BY DEF InSlot
<1> QED BY <1>1 DEF Held, InSlot

\* One request exactly while the slice is busy, counted.
LEMMA SlotCount ==
    ASSUME NEW js, NEW S, NEW busy \in BOOLEAN, Held(js, S, busy)
    PROVE  Cardinality({j \in js : j.scope \in S}) = IF busy THEN 1 ELSE 0
BY FS_EmptySet, FS_Singleton DEF Held, InSlot

-----------------------------------------------------------------------------
(* The shapes of the state.                                                *)

LEMMA ClosedNames == Closed.scope \notin {"image", "network", "record"}
BY NoneAssumption DEF Closed, Scopes, Prunes

LEMMA KindsTyped ==
    ASSUME NEW kind \in Kinds
    PROVE  OfKind(kind) \subseteq Items /\ Holds(kind) \subseteq OfKind(kind)
BY DEF Kinds, OfKind, Items, Holds

\* A request that was only sent.
Blank(g) == g.phase = "sent" /\ g.rows = {} /\ g.was = {} /\ g.todo = {}

LEMMA RequestsTyped ==
    ASSUME NEW kind \in Kinds, NEW n \in Nat
    PROVE  /\ Requests(kind, n) \subseteq Get
           /\ \A g \in Requests(kind, n) :
                 g.n = n /\ g.kind = kind /\ Blank(g)
BY SMT DEF Requests, Request, Get, Blank

LEMMA RemovesTyped ==
    ASSUME NEW scope, NEW item
    PROVE  Removes(scope, item) \subseteq Items
BY DEF Removes

LEMMA SpendTyped ==
    ASSUME TypeOK, NEW kind \in {"fetches", "clicks", "mishaps"}, Spend(kind)
    PROVE  /\ left' \in [DOMAIN Bound -> Nat]
           /\ left'[kind] = left[kind] - 1
           /\ \A k \in {"fetches", "clicks", "mishaps"} : k # kind => left'[k] = left[k]
BY SMT DEF TypeOK, Spend, Bound

\* The rows of a list: what Docker holds, and free what is free.
LEMMA RowsTyped ==
    ASSUME TypeOK, NEW kind \in Kinds, NEW unknown
    PROVE  /\ Rows(kind, unknown) \subseteq Row
           /\ ItemsOf(Rows(kind, unknown)) \subseteq Holds(kind)
           /\ Free(Rows(kind, unknown)) \subseteq FreeNow(kind)
           /\ FreeNow(kind) \subseteq Items /\ FreeNow(kind) \subseteq OfKind(kind)
<1>1. Holds(kind) \subseteq Items /\ Holds(kind) \subseteq OfKind(kind)
  BY KindsTyped
<1>2. Rows(kind, unknown) \subseteq Row
  BY <1>1, SMT DEF TypeOK, Row, Rows, Holds
<1>3. ItemsOf(Rows(kind, unknown)) \subseteq Holds(kind)
  BY SMT DEF ItemsOf, Rows
<1>4. Free(Rows(kind, unknown)) \subseteq FreeNow(kind)
  BY SMT DEF Free, Rows, FreeNow
<1> QED BY <1>1, <1>2, <1>3, <1>4 DEF FreeNow

\* What a request holds that the daemon works on: resources it holds.
LEMMA ServedGet ==
    ASSUME TypeOK, AllHonest, NEW g \in gets,
           GetServe(g) \/ ListNetworks(g) \/ \E x \in g.todo : InspectNetwork(g, x) \/ InspectFails(g, x)
    PROVE  \E h \in Get :
              /\ gets' = (gets \ {g}) \cup {h}
              /\ h.n = g.n /\ h.kind = g.kind
              /\ Lists(h) \subseteq Lists(g) \cup {x \in Items : docker[x] # "gone"}
              /\ Honest(h) /\ Inspecting(h)
<1>1. g \in Get /\ g.kind \in Kinds /\ Honest(g) /\ Inspecting(g) /\ g.todo \subseteq Items
  BY DEF TypeOK, Get, AllHonest
<1>2. \A kind \in Kinds : Holds(kind) \subseteq {x \in Items : docker[x] # "gone"}
  BY KindsTyped DEF Holds
<1>3. CASE GetServe(g)
  <2> DEFINE rows == Rows(g.kind, IF g.kind = "volumes" THEN Volumes ELSE Uncounted)
             was == FreeNow(g.kind)
             h == [g EXCEPT !.phase = "served", !.rows = rows, !.was = was]
  <2>1. gets' = (gets \ {g}) \cup {h}
    BY <1>3 DEF GetServe
  <2>2. /\ rows \subseteq Row /\ ItemsOf(rows) \subseteq Holds(g.kind) /\ Free(rows) \subseteq was
        /\ was \subseteq Items /\ was \subseteq OfKind(g.kind)
    BY <1>1, RowsTyped
  <2> HIDE DEF rows, was
  <2>3. /\ h \in Get /\ h.n = g.n /\ h.kind = g.kind /\ h.rows = rows /\ h.was = was
        /\ h.todo = g.todo /\ h.phase = "served"
    BY <1>1, <2>2 DEF Get
  <2> HIDE DEF h
  <2>4. Honest(h) /\ Inspecting(h)
    BY <1>1, <2>2, <2>3 DEF Honest, Inspecting
  <2>5. Lists(h) \subseteq Lists(g) \cup {x \in Items : docker[x] # "gone"}
    BY <1>1, <1>2, <2>2, <2>3 DEF Lists
  <2> QED BY <2>1, <2>3, <2>4, <2>5
<1>4. CASE ListNetworks(g)
  <2> DEFINE phase == IF Holds("networks") = {} THEN "served" ELSE "listed"
             h == [g EXCEPT !.phase = phase, !.todo = Holds("networks")]
  <2>1. gets' = (gets \ {g}) \cup {h} /\ g.kind = "networks"
    BY <1>4 DEF ListNetworks
  <2>2. Holds("networks") \subseteq Items /\ Holds("networks") \subseteq Networks
    BY KindsTyped DEF Kinds, OfKind
  <2>3. phase \in {"listed", "served"}
    OBVIOUS
  <2> HIDE DEF phase
  <2>4. /\ h \in Get /\ h.n = g.n /\ h.kind = g.kind /\ h.rows = g.rows /\ h.was = g.was
        /\ h.todo = Holds("networks")
    BY <1>1, <2>2, <2>3 DEF Get
  <2> HIDE DEF h
  <2>5. Honest(h) /\ Inspecting(h)
    BY <1>1, <2>1, <2>2, <2>4 DEF Honest, Inspecting
  <2>6. Lists(h) \subseteq Lists(g) \cup {x \in Items : docker[x] # "gone"}
    BY <1>2, <2>4 DEF Lists, Kinds
  <2> QED BY <2>1, <2>4, <2>5, <2>6
<1>5. CASE \E x \in g.todo : InspectNetwork(g, x) \/ InspectFails(g, x)
  <2>1. PICK x \in g.todo, use \in {"used", "free", "unknown"} :
           /\ Inspected(g, x, use)
           /\ use = "free" => docker[x] = "free"
    <3>1. PICK x \in g.todo : InspectNetwork(g, x) \/ InspectFails(g, x)
      BY <1>5
    <3>2. docker[x] \in {"used", "free", "gone"}
      BY <1>1 DEF TypeOK
    <3> QED BY <3>1, <3>2 DEF InspectNetwork, InspectFails
  <2> DEFINE phase == IF g.todo = {x} THEN "served" ELSE "listed"
             row == [item |-> x, use |-> use]
             rows == g.rows \cup {row}
             was == g.was \cup ({x} \cap FreeNow("networks"))
             todo == g.todo \ {x}
             h == [g EXCEPT !.phase = phase, !.todo = todo, !.rows = rows, !.was = was]
  <2>2. gets' = (gets \ {g}) \cup {h} /\ g.phase = "listed"
    BY <2>1 DEF Inspected
  <2>3. phase \in {"listed", "served"} /\ todo \subseteq Items /\ todo \subseteq Networks
    BY <1>1 DEF Inspecting
  <2>4. x \in Items /\ x \in Networks /\ g.kind = "networks"
    BY <1>1, <2>2 DEF Inspecting
  <2>5. row \in Row /\ row.item = x /\ row.use = use
    BY <2>4 DEF Row
  <2>6. use = "free" => x \in FreeNow("networks")
    BY <2>1, <2>4 DEF FreeNow, Holds, OfKind
  <2> HIDE DEF phase, row
  <2>7. rows \subseteq Row /\ was \subseteq Items
    BY <1>1, <2>4, <2>5 DEF Get
  <2>8. Free(rows) \subseteq was /\ ItemsOf(rows) \subseteq ItemsOf(g.rows) \cup {x}
    BY <1>1, <2>5, <2>6 DEF Honest, Free, ItemsOf
  <2>9. was \subseteq OfKind(g.kind)
    BY <1>1, <2>4 DEF Honest, OfKind
  <2> HIDE DEF rows, was, todo
  <2>10. /\ h \in Get /\ h.n = g.n /\ h.kind = g.kind /\ h.rows = rows /\ h.was = was
         /\ h.todo = todo
    BY <1>1, <2>3, <2>7 DEF Get
  <2> HIDE DEF h
  <2>11. Honest(h) /\ Inspecting(h)
    BY <2>3, <2>4, <2>8, <2>9, <2>10 DEF Honest, Inspecting
  <2>12. Lists(h) \subseteq Lists(g)
    BY <2>8, <2>10 DEF Lists, todo
  <2> QED BY <2>2, <2>10, <2>11, <2>12
<1> QED BY <1>3, <1>4, <1>5

\* What a list shows after an answer.
LEMMA AnswerTyped ==
    ASSUME TypeOK, NEW g \in gets
    PROVE  Answer(g) \in Shown
BY DEF TypeOK, Get, Shown, Answer, Nothing

\* A measurement that was answered lists volumes, free what is free.
LEMMA MeasurementTyped ==
    ASSUME TypeOK
    PROVE  LET u == [kind |-> "volumes", rows |-> Rows("volumes", Uncounted), n |-> 0,
                     was |-> FreeNow("volumes")]
           IN  /\ u \in Shown
               /\ ItemsOf(u.rows) \subseteq Holds("volumes")
               /\ Free(u.rows) \subseteq u.was /\ u.was \subseteq Volumes
<1> DEFINE rows == Rows("volumes", Uncounted)
           was == FreeNow("volumes")
<1>1. "volumes" \in Kinds /\ OfKind("volumes") = Volumes
  BY DEF Kinds, OfKind
<1>2. /\ rows \subseteq Row /\ ItemsOf(rows) \subseteq Holds("volumes") /\ Free(rows) \subseteq was
      /\ was \subseteq Items /\ was \subseteq Volumes
  BY <1>1, RowsTyped
<1> HIDE DEF rows, was
<1> QED BY <1>1, <1>2 DEF Shown, rows, was

\* A request of the page that was answered.
LEMMA ServedJob ==
    ASSUME TypeOK, NEW j \in jobs, JobServe(j) \/ MeasureServe(j) \/ JobFail(j)
    PROVE  \E k \in Job :
              /\ jobs' = (jobs \ {j}) \cup {k}
              /\ k.scope = j.scope /\ k.rerun = j.rerun
              /\ k.phase = "done" /\ k.scope # "measure" =>
                    \A x \in k.hit : x \in Items /\ docker'[x] = "gone"
<1>1. j \in Job
  BY DEF TypeOK
<1>2. CASE JobServe(j)
  <2> DEFINE hit == Removes(j.scope, j.item)
             refused == j.scope \in {"image", "network"} /\ hit = {}
             k == [j EXCEPT !.phase = IF refused THEN "failed" ELSE "done", !.hit = hit]
  <2>1. /\ docker' = [x \in Items |-> IF x \in hit THEN "gone" ELSE docker[x]]
        /\ jobs' = (jobs \ {j}) \cup {k}
    BY <1>2 DEF JobServe
  <2>2. hit \subseteq Items
    BY RemovesTyped
  <2> HIDE DEF hit
  <2>3. k \in Job /\ k.scope = j.scope /\ k.rerun = j.rerun /\ k.hit = hit
    BY <1>1, <2>2 DEF Job
  <2> HIDE DEF k
  <2> QED BY <2>1, <2>2, <2>3
<1>3. CASE MeasureServe(j)
  <2> DEFINE u == [kind |-> "volumes", rows |-> Rows("volumes", Uncounted), n |-> 0,
                   was |-> FreeNow("volumes")]
             k == [j EXCEPT !.phase = "done", !.usage = u]
  <2>1. jobs' = (jobs \ {j}) \cup {k} /\ j.scope = "measure"
    BY <1>3 DEF MeasureServe
  <2>2. u \in Shown
    BY MeasurementTyped
  <2> HIDE DEF u
  <2>3. k \in Job /\ k.scope = j.scope /\ k.rerun = j.rerun
    BY <1>1, <2>2 DEF Job
  <2> HIDE DEF k
  <2> QED BY <2>1, <2>3
<1>4. CASE JobFail(j)
  <2> DEFINE k == [j EXCEPT !.phase = "failed"]
  <2>1. jobs' = (jobs \ {j}) \cup {k}
    BY <1>4 DEF JobFail
  <2>2. k \in Job /\ k.scope = j.scope /\ k.rerun = j.rerun /\ k.phase = "failed"
    BY <1>1 DEF Job
  <2> QED BY <2>1, <2>2
<1> QED BY <1>2, <1>3, <1>4

\* The variables that only the lists, the buttons or the requests change.
LEMMA ListsFrame ==
    ASSUME ListStep
    PROVE  UNCHANGED <<world, jobs, flags, volumeUsage, admin>>
BY DEF ListStep, SwitchTab, SyncNow, GetStep, GetServe, ListNetworks, InspectNetwork, Inspected,
       GetMishap, GetFail, InspectFails, GetLand, getsOnly

LEMMA UserFrame ==
    ASSUME UserStep
    PROVE  UNCHANGED <<docker, removed, tab, lists, volumeUsage, admin>>
BY DEF UserStep, Arm, Dismiss, ConfirmDelete, ConfirmPrune, Measure, world, lists,
       flags

LEMMA JobFrame ==
    ASSUME JobStep
    PROVE  /\ UNCHANGED <<tab, result, records, admin>>
           /\ UNCHANGED <<lists, removed>> \/ \E j \in jobs : Removed(j)
BY DEF JobStep, JobServe, MeasureServe, JobFail, JobError, Removed, Measured, RunEffects, lists, world

\* What is gone stays gone; nothing else changes what Docker holds.
LEMMA GoneStays ==
    ASSUME TypeOK, [Next]_vars
    PROVE  /\ docker' \in [Items -> {"used", "free", "gone"}]
           /\ \A x \in Items : docker[x] = "gone" => docker'[x] = "gone"
<1>1. CASE OthersChange
  <2>1. PICK x \in Volatile, use \in {"used", "free"} :
           docker[x] # "gone" /\ docker' = [docker EXCEPT ![x] = use]
    BY <1>1 DEF OthersChange
  <2> QED BY <2>1 DEF TypeOK
<1>2. CASE JobStep
  <2>1. PICK j \in jobs : \/ JobServe(j) \/ MeasureServe(j) \/ JobFail(j)
                         \/ JobError(j) \/ Removed(j) \/ Measured(j)
    BY <1>2 DEF JobStep
  <2>2. CASE docker' = docker
    BY <2>2 DEF TypeOK
  <2>3. ASSUME NEW hit, docker' = [x \in Items |-> IF x \in hit THEN "gone" ELSE docker[x]]
        PROVE  /\ docker' \in [Items -> {"used", "free", "gone"}]
               /\ \A x \in Items : docker[x] = "gone" => docker'[x] = "gone"
    BY <2>3 DEF TypeOK
  <2>4. CASE JobServe(j)
    BY <2>3, <2>4 DEF JobServe
  <2>5. CASE JobFail(j)
    BY <2>3, <2>5 DEF JobFail
  <2> QED BY <2>1, <2>2, <2>4, <2>5 DEF MeasureServe, JobError, Removed, Measured, world
<1>3. CASE ListStep \/ UserStep \/ UNCHANGED vars
  <2>1. docker' = docker
    BY <1>3, ListsFrame, UserFrame DEF vars, world
  <2> QED BY <2>1 DEF TypeOK
<1> QED BY <1>1, <1>2, <1>3 DEF Next

-----------------------------------------------------------------------------
(* The lists.                                                              *)

\* The effects run again: the new requests are the newest.
LEMMA EffectsKeepLists ==
    ASSUME IInv, NEW t \in Kinds, RunEffects(t)
    PROVE  /\ cur' \in 0..MaxFetches /\ left' \in [DOMAIN Bound -> Nat] /\ FetchesSpent'
           /\ tab' \in Kinds /\ gets' \subseteq Get
           /\ isLoading' /\ recordsLoading' \in BOOLEAN /\ (t = "builder" => recordsLoading')
           /\ result' = result /\ records' = records
           /\ cur' = cur + 1
           /\ \A g \in gets' : g \in gets \/ (g.n = cur' /\ g.kind = t /\ Blank(g))
           /\ NewestForTab'
<1>1. cur \in Nat /\ left.fetches \in Nat /\ cur + left.fetches = MaxFetches
  BY SMT DEF IInv, TypeOK, FetchesSpent, Bound
<1>2. /\ tab' = t /\ cur' = cur + 1
      /\ gets' = gets \cup Requests(t, cur + 1)
      /\ isLoading' = TRUE /\ recordsLoading' = (recordsLoading \/ t = "builder")
      /\ result' = result /\ records' = records
      /\ Spend("fetches")
  BY DEF RunEffects
<1>3. left' \in [DOMAIN Bound -> Nat] /\ left'.fetches = left.fetches - 1 /\ left.fetches > 0
  BY <1>2, SpendTyped DEF IInv, Spend
<1>4. FetchesSpent' /\ cur' \in 0..MaxFetches
  BY <1>1, <1>2, <1>3, AdminAssumption, SMT DEF FetchesSpent
<1>5. /\ Requests(t, cur + 1) \subseteq Get
      /\ \A g \in Requests(t, cur + 1) :
            g.n = cur + 1 /\ g.kind = t /\ Blank(g)
  BY <1>1, RequestsTyped, SMT
<1>6. gets' \subseteq Get /\ \A g \in gets : g.n \in Nat /\ g.n < cur'
  BY <1>1, <1>2, <1>5, SMT DEF IInv, TypeOK, NewestForTab, Get
<1>7. NewestForTab'
  BY <1>1, <1>2, <1>5, <1>6, SMT DEF NewestForTab, LoadedMatchesTab
<1>8. isLoading' /\ recordsLoading' \in BOOLEAN /\ (t = "builder" => recordsLoading')
  BY <1>2
<1>9. tab' \in Kinds
  BY <1>2
<1>10. \A g \in gets' : g \in gets \/ (g.n = cur' /\ g.kind = t /\ Blank(g))
  <2> SUFFICES ASSUME NEW g \in gets', g \notin gets
               PROVE  g.n = cur' /\ g.kind = t /\ Blank(g)
    OBVIOUS
  <2>1. g \in Requests(t, cur + 1)
    BY <1>2
  <2> QED BY <1>2, <1>5, <2>1
<1> QED BY <1>2, <1>3, <1>4, <1>6, <1>7, <1>8, <1>9, <1>10

\* A list step keeps the shapes and what the lists promise.
LEMMA ListStepKeeps ==
    ASSUME IInv, ListStep
    PROVE  IInv'
<1>1. UNCHANGED <<docker, removed, calm, jobs, deletingId, deletingNetworkId, pruning, measuring,
                  volumeUsage, admin>>
  BY ListsFrame DEF world, flags
<1>2. Slots'
  BY <1>1 DEF IInv, Slots
<1>3. ASSUME NEW t \in Kinds, RunEffects(t), UNCHANGED dialog
      PROVE  IInv'
  <2>1. /\ cur' \in 0..MaxFetches /\ left' \in [DOMAIN Bound -> Nat] /\ FetchesSpent'
        /\ tab' \in Kinds /\ gets' \subseteq Get
        /\ isLoading' /\ recordsLoading' \in BOOLEAN /\ (t = "builder" => recordsLoading')
        /\ result' = result /\ records' = records
        /\ cur' = cur + 1
        /\ \A g \in gets' : g \in gets \/ (g.n = cur' /\ g.kind = t /\ Blank(g))
        /\ NewestForTab'
    BY <1>3, EffectsKeepLists
  <2>2. tab' = t /\ isLoading' = TRUE
    BY <1>3 DEF RunEffects
  <2>3. TypeOK'
    BY <1>1, <1>3, <2>1, <2>2 DEF IInv, TypeOK
  <2>4. AllHonest'
    BY <2>1 DEF IInv, AllHonest, Honest, Inspecting, Blank, Free
  <2>5. RemovedGone'
    <3>1. \A g \in gets : g.n < cur'
      BY <2>1, SMT DEF IInv, NewestForTab, TypeOK, Get
    <3>2. \A g \in gets' : g.n = cur' => Lists(g) \cap removed' = {}
      BY <2>1, <3>1, SMT DEF Lists, ItemsOf, Blank, IInv, TypeOK, Get
    <3>3. RemovedNotListed'
      BY <2>1, <2>2 DEF RemovedNotListed
    <3> QED BY <1>1, <3>2, <3>3 DEF IInv, RemovedGone
  <2>6. DialogNames'
    BY <1>3 DEF IInv, DialogNames
  <2> QED BY <1>2, <2>1, <2>3, <2>4, <2>5, <2>6 DEF IInv
<1>4. ASSUME SwitchTab \/ SyncNow
      PROVE  IInv'
  BY <1>3, <1>4 DEF SwitchTab, SyncNow, IInv, TypeOK
<1>5. ASSUME NEW g \in gets, NEW h \in Get,
             gets' = (gets \ {g}) \cup {h}, h.n = g.n, h.kind = g.kind, Honest(h), Inspecting(h),
             h.n = cur => Lists(h) \cap removed = {},
             UNCHANGED <<tab, cur, result, isLoading, records, recordsLoading, dialog>>,
             left' \in [DOMAIN Bound -> Nat], left'.fetches = left.fetches
      PROVE  IInv'
  <2>1. TypeOK'
    BY <1>1, <1>5, SMTT(30) DEF IInv, TypeOK
  <2>2. FetchesSpent' /\ NewestForTab' /\ DialogNames'
    BY <1>5 DEF IInv, FetchesSpent, NewestForTab, LoadedMatchesTab, DialogNames
  <2>3. AllHonest'
    <3>1. Honest(result)'
      BY <1>5 DEF IInv, AllHonest, Honest, Inspecting, Free, OfKind
    <3>2. \A f \in gets' : Honest(f) /\ Inspecting(f)
      BY <1>5 DEF IInv, AllHonest
    <3> QED BY <3>1, <3>2 DEF AllHonest, Honest, Inspecting, Free, OfKind
  <2>4. RemovedGone'
    BY <1>1, <1>5 DEF IInv, RemovedGone, RemovedNotListed
  <2> QED BY <1>2, <2>1, <2>2, <2>3, <2>4 DEF IInv
<1>6. ASSUME NEW g \in gets,
             GetServe(g) \/ ListNetworks(g) \/ \E x \in g.todo : InspectNetwork(g, x) \/ InspectFails(g, x)
      PROVE  IInv'
  <2>1. PICK h \in Get :
              /\ gets' = (gets \ {g}) \cup {h}
              /\ h.n = g.n /\ h.kind = g.kind
              /\ Lists(h) \subseteq Lists(g) \cup {x \in Items : docker[x] # "gone"}
              /\ Honest(h) /\ Inspecting(h)
    BY <1>6, ServedGet DEF IInv
  <2>2. h.n = cur => Lists(h) \cap removed = {}
    BY <2>1 DEF IInv, RemovedGone
  <2>3. /\ UNCHANGED <<tab, cur, result, isLoading, records, recordsLoading, dialog>>
        /\ left' = left \/ Spend("mishaps")
    BY <1>6 DEF GetServe, ListNetworks, InspectNetwork, InspectFails, Inspected, getsOnly
  <2>4. left' \in [DOMAIN Bound -> Nat] /\ left'.fetches = left.fetches
    BY <2>3, SpendTyped DEF IInv, TypeOK
  <2> QED BY <1>5, <2>1, <2>2, <2>3, <2>4
<1>7. ASSUME NEW g \in gets, GetFail(g)
      PROVE  IInv'
  <2> DEFINE h == [g EXCEPT !.phase = "failed"]
  <2>1. /\ g \in Get /\ Honest(g) /\ Inspecting(g)
        /\ g.n = cur => Lists(g) \cap removed = {}
    BY DEF IInv, TypeOK, AllHonest, RemovedGone
  <2>2. /\ h \in Get /\ h.n = g.n /\ h.kind = g.kind /\ h.rows = g.rows /\ h.was = g.was
        /\ h.todo = g.todo /\ h.phase = "failed"
    BY <2>1 DEF Get
  <2>3. /\ gets' = (gets \ {g}) \cup {h} /\ Spend("mishaps")
        /\ UNCHANGED <<tab, cur, result, isLoading, records, recordsLoading, dialog>>
    BY <1>7 DEF GetFail, getsOnly
  <2>4. left' \in [DOMAIN Bound -> Nat] /\ left'.fetches = left.fetches
    BY <2>3, SpendTyped DEF IInv
  <2> HIDE DEF h
  <2>5. Honest(h) /\ Inspecting(h) /\ Lists(h) = Lists(g)
    BY <2>1, <2>2 DEF Honest, Inspecting, Lists
  <2> QED BY <1>5, <2>1, <2>2, <2>3, <2>4, <2>5
<1>8. ASSUME NEW g \in gets, GetLand(g)
      PROVE  IInv'
  <2> DEFINE list == g.slice = "list" /\ g.n = cur
             drill == g.slice = "records" /\ g.n = cur
  <2>1. /\ gets' = gets \ {g}
        /\ result' = IF list THEN Answer(g) ELSE result
        /\ isLoading' = (isLoading /\ ~list)
        /\ records' = IF drill THEN Answer(g) ELSE records
        /\ recordsLoading' = (recordsLoading /\ ~drill)
        /\ dialog' = KeptDialog(result'.kind)
        /\ UNCHANGED <<tab, cur, left>>
    BY <1>8 DEF GetLand, Cancelled
  <2>2. dialog' \in {dialog, Closed}
    BY <2>1 DEF KeptDialog
  <2>3. Answer(g) \in Shown
    BY AnswerTyped DEF IInv
  <2>4. /\ Answer(g).kind \in {g.kind, None}
        /\ Answer(g).rows \in {g.rows, {}}
        /\ Honest(Answer(g))
    BY DEF IInv, AllHonest, Answer, Nothing, Honest, Free
  <2>5. TypeOK'
    BY <1>1, <2>1, <2>2, <2>3 DEF IInv, TypeOK
  <2>6. FetchesSpent' /\ NewestForTab'
    BY <2>1, <2>4 DEF IInv, FetchesSpent, NewestForTab, LoadedMatchesTab
  <2>7. DialogNames'
    BY <2>2, ClosedNames DEF IInv, DialogNames
  <2>8. AllHonest'
    <3>1. result' \in {Answer(g), result}
      BY <2>1
    <3>2. Honest(result)'
      BY <2>4, <3>1 DEF IInv, AllHonest, Honest, Inspecting, Free, OfKind
    <3>3. \A f \in gets' : Honest(f) /\ Inspecting(f)
      BY <2>1 DEF IInv, AllHonest
    <3> QED BY <3>2, <3>3 DEF AllHonest, Honest, Inspecting, Free, OfKind
  <2>9. RemovedGone'
    <3>1. g.n = cur => ItemsOf(Answer(g).rows) \cap removed = {}
      BY <2>4 DEF IInv, RemovedGone, Lists, ItemsOf
    <3>2. RemovedNotListed'
      BY <1>1, <2>1, <3>1 DEF IInv, RemovedGone, RemovedNotListed, ItemsOf
    <3> QED BY <1>1, <2>1, <3>2 DEF IInv, RemovedGone, Lists
  <2> QED BY <1>2, <2>5, <2>6, <2>7, <2>8, <2>9 DEF IInv
<1> QED BY <1>4, <1>6, <1>7, <1>8 DEF ListStep, GetStep, GetMishap

-----------------------------------------------------------------------------
(* The buttons and the dialogs.                                            *)

LEMMA SentTyped ==
    ASSUME NEW scope \in Scopes, NEW item \in Items \cup {None}, NEW rerun \in BOOLEAN
    PROVE  LET k == Sent(scope, item, rerun)
           IN  /\ k \in Job /\ k.scope = scope /\ k.phase = "sent" /\ k.rerun = rerun
               /\ k.hit = {}
BY DEF Sent, Job, Shown, Nothing

\* What the lists, Docker and the history promise does not depend on the
\* buttons, as long as the requests they add are only sent.
LEMMA UserKeepsLists ==
    ASSUME IInv, UNCHANGED <<docker, removed, tab, lists>>,
           left' \in [DOMAIN Bound -> Nat], left'.fetches = left.fetches,
           \A k \in jobs' : k \in jobs \/ (k.phase = "sent" /\ k.hit = {})
    PROVE  FetchesSpent' /\ NewestForTab' /\ AllHonest' /\ RemovedGone'
<1> USE DEF lists
<1>1. FetchesSpent' /\ NewestForTab'
  BY DEF IInv, FetchesSpent, NewestForTab, LoadedMatchesTab
<1>2. AllHonest'
  BY DEF IInv, AllHonest, Honest, Inspecting, Free, OfKind
<1>3. RemovedGone'
  BY DEF IInv, RemovedGone, RemovedNotListed
<1> QED BY <1>1, <1>2, <1>3

\* Opening and closing a dialog.
LEMMA DialogKeeps ==
    ASSUME IInv, Arm \/ Dismiss
    PROVE  IInv'
<1>1. UNCHANGED <<world, tab, lists, jobs, flags, volumeUsage, admin, left>>
  BY DEF Arm, Dismiss
<1>2. FetchesSpent' /\ NewestForTab' /\ AllHonest' /\ RemovedGone'
  BY <1>1, UserKeepsLists DEF world, IInv, TypeOK
<1>3. Slots'
  BY <1>1 DEF IInv, Slots, flags
<1>4. /\ dialog' \in [scope: Scopes, item: Items \cup {None}] \cup {Closed}
      /\ DialogNames'
  <2>1. ASSUME Dismiss
        PROVE  /\ dialog' \in [scope: Scopes, item: Items \cup {None}] \cup {Closed}
               /\ DialogNames'
    BY <2>1, ClosedNames DEF Dismiss, DialogNames
  <2>2. ASSUME Arm
        PROVE  /\ dialog' \in [scope: Scopes, item: Items \cup {None}] \cup {Closed}
               /\ DialogNames'
    <3>1. \/ dialog' \in [scope: {"image"}, item: ImageOffers]
          \/ dialog' \in [scope: {"network"}, item: NetworkOffers]
          \/ dialog' \in [scope: PruneOffers, item: {None}]
          \/ dialog' \in [scope: {"record"}, item: RecordOffers]
      BY <2>2 DEF Arm, Offers
    <3>2. /\ ImageOffers \subseteq Images /\ NetworkOffers \subseteq Networks
          /\ RecordOffers \subseteq Records
      BY DEF ImageOffers, NetworkOffers, RecordOffers
    <3>3. PruneOffers \subseteq Prunes
      BY DEF PruneOffers, Prunes
    <3>4. PruneOffers \cap {"image", "network", "record"} = {}
      BY DEF PruneOffers
    <3>5. dialog' \in [scope: Scopes, item: Items \cup {None}]
      BY <3>1, <3>2, <3>3 DEF Items, Scopes, Prunes
    <3>6. DialogNames'
      BY <3>1, <3>2, <3>4 DEF DialogNames
    <3> QED BY <3>5, <3>6
  <2> QED BY <2>1, <2>2
<1>5. TypeOK'
  BY <1>1, <1>4 DEF IInv, TypeOK, world, lists, flags
<1> QED BY <1>2, <1>3, <1>4, <1>5 DEF IInv

\* A deletion starts when its slice is free.
LEMMA ConfirmDeleteKeeps ==
    ASSUME IInv, ConfirmDelete
    PROVE  IInv'
<1>1. /\ UNCHANGED <<world, tab, lists, pruning, measuring, volumeUsage, admin>>
      /\ Spend("clicks") /\ dialog.scope \in {"image", "network"}
  BY DEF ConfirmDelete
<1>2. left' \in [DOMAIN Bound -> Nat] /\ left'.fetches = left.fetches
  BY <1>1, SpendTyped DEF IInv
<1>3. dialog.item \in Items /\ dialog.item # None
      /\ (dialog.scope = "image" => dialog.item \in Images)
      /\ (dialog.scope = "network" => dialog.item \in Networks)
  BY <1>1, AdminAssumption DEF IInv, DialogNames, Items
<1>4. CASE Idle(dialog.scope)
  <2> DEFINE k == Sent(dialog.scope, dialog.item, FALSE)
  <2>1. jobs' = jobs \cup {k} /\ dialog' = dialog /\ Marks(dialog.scope, dialog.item)
    BY <1>4 DEF ConfirmDelete
  <2>2. k \in Job /\ k.scope = dialog.scope /\ k.phase = "sent" /\ k.rerun = FALSE /\ k.hit = {}
    BY <1>1, <1>3, SentTyped DEF Scopes
  <2> HIDE DEF k
  <2>3. FetchesSpent' /\ NewestForTab' /\ AllHonest' /\ RemovedGone'
    BY <1>1, <1>2, <2>1, <2>2, UserKeepsLists DEF world
  <2>4. deletingId' \in Images \cup {None} /\ deletingNetworkId' \in Networks \cup {None}
    BY <1>3, <2>1 DEF Marks, IInv, TypeOK
  <2>5. TypeOK'
    BY <1>1, <1>2, <2>1, <2>2, <2>4 DEF IInv, TypeOK, world, lists
  <2>6. DialogNames'
    BY <2>1 DEF IInv, DialogNames
  <2>7. Slots'
    <3>1. Held(jobs', Prunes, pruning' # None)
      BY <1>1, <2>1, <2>2, SlotAdd DEF IInv, Slots, Prunes
    <3>2. Held(jobs', {"image"}, deletingId' # None)
      BY <1>1, <1>3, <1>4, <2>1, <2>2, SlotAdd DEF IInv, Slots, Marks, Idle
    <3>3. Held(jobs', {"network"}, deletingNetworkId' # None)
      BY <1>1, <1>3, <1>4, <2>1, <2>2, SlotAdd DEF IInv, Slots, Marks, Idle
    <3>4. Held(jobs', {"measure"}, measuring')
      <4>1. k.scope \notin {"measure"}
        BY <1>1, <2>2
      <4>2. Held(jobs, {"measure"}, measuring)
        BY DEF IInv, Slots
      <4>3. Held(jobs \cup {k}, {"measure"}, measuring)
        BY <4>1, <4>2, SlotOther
      <4> QED BY <1>1, <2>1, <4>3
    <3>5. \A j \in jobs' : j.rerun => j.scope \in Prunes /\ ~measuring'
      BY <1>1, <2>1, <2>2 DEF IInv, Slots
    <3> QED BY <3>1, <3>2, <3>3, <3>4, <3>5 DEF Slots, Held, InSlot, Prunes
  <2> QED BY <2>3, <2>5, <2>6, <2>7 DEF IInv
<1>5. CASE ~Idle(dialog.scope)
  <2>1. UNCHANGED <<jobs, deletingId, deletingNetworkId>> /\ dialog' = Closed
    BY <1>5 DEF ConfirmDelete
  <2>2. FetchesSpent' /\ NewestForTab' /\ AllHonest' /\ RemovedGone'
    BY <1>1, <1>2, <2>1, UserKeepsLists DEF world
  <2>3. TypeOK'
    BY <1>1, <1>2, <2>1 DEF IInv, TypeOK, world, lists
  <2>4. DialogNames'
    BY <2>1, ClosedNames DEF DialogNames
  <2>5. Slots'
    BY <1>1, <2>1 DEF IInv, Slots
  <2> QED BY <2>2, <2>3, <2>4, <2>5 DEF IInv
<1> QED BY <1>4, <1>5

\* A prune starts when the shared flag is free; it asks for a new measurement
\* only when none runs.
LEMMA ConfirmPruneKeeps ==
    ASSUME IInv, ConfirmPrune
    PROVE  IInv'
<1>1. /\ UNCHANGED <<docker, removed, tab, lists, deletingId, deletingNetworkId, measuring,
                     volumeUsage, admin>>
      /\ Spend("clicks") /\ dialog.scope \in Prunes /\ dialog' = Closed
      /\ calm' \in BOOLEAN
  BY DEF ConfirmPrune
<1>2. left' \in [DOMAIN Bound -> Nat] /\ left'.fetches = left.fetches
  BY <1>1, SpendTyped DEF IInv
<1>3. DialogNames'
  BY <1>1, ClosedNames DEF DialogNames
<1>4. CASE pruning = None
  <2> DEFINE rerun == Remeasures(dialog.scope)
             k == Sent(dialog.scope, dialog.item, rerun)
  <2>1. jobs' = jobs \cup {k} /\ pruning' = dialog.scope
    BY <1>4 DEF ConfirmPrune
  <2>2. dialog.item \in Items \cup {None}
    BY SMT DEF IInv, TypeOK, Closed
  <2>3. rerun \in BOOLEAN /\ (rerun => ~measuring)
    BY DEF Remeasures
  <2> HIDE DEF rerun
  <2>4. k \in Job /\ k.scope = dialog.scope /\ k.phase = "sent" /\ k.rerun = rerun /\ k.hit = {}
    <3>1. dialog.scope \in Scopes
      BY <1>1 DEF Scopes
    <3>2. ASSUME NEW b \in BOOLEAN, b = rerun
          PROVE  k \in Job /\ k.scope = dialog.scope /\ k.phase = "sent" /\ k.rerun = b /\ k.hit = {}
      <4>1. k = Sent(dialog.scope, dialog.item, b)
        BY <3>2
      <4> HIDE DEF k
      <4> QED BY <2>2, <3>1, <4>1, SentTyped, SMT
    <3> QED BY <2>3, <3>2
  <2> HIDE DEF k
  <2>5. FetchesSpent' /\ NewestForTab' /\ AllHonest' /\ RemovedGone'
    BY <1>1, <1>2, <2>1, <2>4, UserKeepsLists DEF world
  <2>6. TypeOK'
    BY <1>1, <1>2, <2>1, <2>4 DEF IInv, TypeOK, lists
  <2>7. Slots'
    <3>1. pruning' # None
      BY <1>1, <2>1, NoneAssumption DEF Scopes
    <3>2. Held(jobs', Prunes, pruning' # None)
      BY <1>1, <1>4, <2>1, <2>4, <3>1, SlotAdd DEF IInv, Slots
    <3>3. Held(jobs', {"image"}, deletingId' # None)
      BY <1>1, <2>1, <2>4, SlotAdd DEF IInv, Slots, Prunes
    <3>4. Held(jobs', {"network"}, deletingNetworkId' # None)
      BY <1>1, <2>1, <2>4, SlotAdd DEF IInv, Slots, Prunes
    <3>5. Held(jobs', {"measure"}, measuring')
      <4>1. k.scope \notin {"measure"}
        BY <1>1, <2>4 DEF Prunes
      <4>2. Held(jobs, {"measure"}, measuring)
        BY DEF IInv, Slots
      <4>3. Held(jobs \cup {k}, {"measure"}, measuring)
        BY <4>1, <4>2, SlotOther
      <4> QED BY <1>1, <2>1, <4>3
    <3>6. \A j \in jobs' : j.rerun => j.scope \in Prunes /\ ~measuring'
      BY <1>1, <2>1, <2>3, <2>4 DEF IInv, Slots
    <3> QED BY <3>2, <3>3, <3>4, <3>5, <3>6 DEF Slots, Held, InSlot, Prunes
  <2> QED BY <1>3, <2>5, <2>6, <2>7 DEF IInv
<1>5. CASE pruning # None
  <2>1. jobs' = jobs /\ pruning' = pruning
    BY <1>5 DEF ConfirmPrune
  <2>2. FetchesSpent' /\ NewestForTab' /\ AllHonest' /\ RemovedGone'
    BY <1>1, <1>2, <2>1, UserKeepsLists DEF world
  <2>3. TypeOK'
    BY <1>1, <1>2, <2>1 DEF IInv, TypeOK, world, lists
  <2>4. Slots'
    BY <1>1, <2>1 DEF IInv, Slots
  <2> QED BY <1>3, <2>2, <2>3, <2>4 DEF IInv
<1> QED BY <1>4, <1>5

\* A measurement starts when none runs and nothing is pruned.
LEMMA MeasureKeeps ==
    ASSUME IInv, Measure
    PROVE  IInv'
<1> DEFINE k == Sent("measure", None, FALSE)
<1>1. /\ UNCHANGED <<world, tab, lists, deletingId, deletingNetworkId, pruning, volumeUsage,
                     dialog, admin>>
      /\ Spend("clicks") /\ ~measuring /\ pruning = None /\ measuring' = TRUE
      /\ jobs' = jobs \cup {k}
  BY DEF Measure
<1>2. left' \in [DOMAIN Bound -> Nat] /\ left'.fetches = left.fetches
  BY <1>1, SpendTyped DEF IInv
<1>3. k \in Job /\ k.scope = "measure" /\ k.phase = "sent" /\ k.rerun = FALSE /\ k.hit = {}
  BY SentTyped DEF Scopes
<1> HIDE DEF k
<1>4. FetchesSpent' /\ NewestForTab' /\ AllHonest' /\ RemovedGone'
  BY <1>1, <1>2, <1>3, UserKeepsLists DEF world
<1>5. TypeOK'
  BY <1>1, <1>2, <1>3 DEF IInv, TypeOK, world, lists
<1>6. DialogNames'
  BY <1>1 DEF IInv, DialogNames
<1>7. Slots'
  <2>1. \A j \in jobs : ~(j.scope \in Prunes)
    BY <1>1 DEF IInv, Slots, Held, InSlot
  <2>2. Held(jobs', Prunes, pruning' # None)
    BY <1>1, <1>3, SlotAdd DEF IInv, Slots, Prunes
  <2>3. Held(jobs', {"image"}, deletingId' # None)
    BY <1>1, <1>3, SlotAdd DEF IInv, Slots
  <2>4. Held(jobs', {"network"}, deletingNetworkId' # None)
    BY <1>1, <1>3, SlotAdd DEF IInv, Slots
  <2>5. Held(jobs', {"measure"}, measuring')
    BY <1>1, <1>3, SlotAdd, ZenonT(30) DEF IInv, Slots, TypeOK
  <2>6. \A j \in jobs' : ~j.rerun
    BY <1>1, <1>3, <2>1 DEF IInv, Slots
  <2> QED BY <2>2, <2>3, <2>4, <2>5, <2>6 DEF Slots, Held, InSlot, Prunes
<1> QED BY <1>4, <1>5, <1>6, <1>7 DEF IInv

-----------------------------------------------------------------------------
(* The requests of the page.                                               *)

\* A settled request leaves its slice free.
LEMMA ReleaseFrees ==
    ASSUME IInv, NEW j \in jobs, Release(j)
    PROVE  /\ Held(jobs \ {j}, Prunes, pruning' # None)
           /\ Held(jobs \ {j}, {"image"}, deletingId' # None)
           /\ Held(jobs \ {j}, {"network"}, deletingNetworkId' # None)
           /\ j.scope = "measure" => Held(jobs \ {j}, {"measure"}, FALSE)
           /\ j.scope # "measure" => Held(jobs \ {j}, {"measure"}, measuring)
           /\ pruning' \in Prunes \cup {None}
           /\ deletingId' \in Images \cup {None}
           /\ deletingNetworkId' \in Networks \cup {None}
           /\ dialog' \in {dialog, Closed}
<1>1. /\ Held(jobs, Prunes, pruning # None)
      /\ Held(jobs, {"image"}, deletingId # None)
      /\ Held(jobs, {"network"}, deletingNetworkId # None)
      /\ Held(jobs, {"measure"}, measuring)
  BY DEF IInv, Slots
<1>2. Held(jobs \ {j}, Prunes, pruning' # None)
  <2>1. (pruning' # None) = IF j.scope \in Prunes THEN FALSE ELSE pruning # None
    BY DEF Release
  <2> QED BY <1>1, <2>1, SlotRemove
<1>3. Held(jobs \ {j}, {"image"}, deletingId' # None)
  <2>1. (deletingId' # None) = IF j.scope \in {"image"} THEN FALSE ELSE deletingId # None
    BY DEF Release
  <2> QED BY <1>1, <2>1, SlotRemove
<1>4. Held(jobs \ {j}, {"network"}, deletingNetworkId' # None)
  <2>1. (deletingNetworkId' # None) = IF j.scope \in {"network"} THEN FALSE
                                      ELSE deletingNetworkId # None
    BY DEF Release
  <2> QED BY <1>1, <2>1, SlotRemove
<1>5. j.scope # "measure" => Held(jobs \ {j}, {"measure"}, measuring)
  <2>1. j.scope # "measure" => j.scope \notin {"measure"}
    OBVIOUS
  <2> QED BY <1>1, <2>1, SlotOther
<1>6. j.scope = "measure" => Held(jobs \ {j}, {"measure"}, FALSE)
  BY <1>1 DEF Held, InSlot
<1>7. /\ pruning' \in Prunes \cup {None}
      /\ deletingId' \in Images \cup {None}
      /\ deletingNetworkId' \in Networks \cup {None}
      /\ dialog' \in {dialog, Closed}
  BY DEF Release, IInv, TypeOK
<1> QED BY <1>2, <1>3, <1>4, <1>5, <1>6, <1>7

LEMMA ClosedNamesNothing ==
    ASSUME IInv, dialog' \in {dialog, Closed}
    PROVE  /\ DialogNames'
           /\ dialog' \in [scope: Scopes, item: Items \cup {None}] \cup {Closed}
BY ClosedNames DEF IInv, TypeOK, DialogNames

\* The daemon answers a request, or it fails.
LEMMA ServingKeeps ==
    ASSUME IInv, NEW j \in jobs, JobServe(j) \/ MeasureServe(j) \/ JobFail(j)
    PROVE  IInv'
<1>1. /\ UNCHANGED <<tab, lists, flags, volumeUsage, dialog, admin, removed>>
      /\ left' = left \/ Spend("mishaps")
      /\ calm' \in BOOLEAN
  BY DEF JobServe, MeasureServe, JobFail, world, IInv, TypeOK
<1>2. left' \in [DOMAIN Bound -> Nat] /\ left'.fetches = left.fetches
  BY <1>1, SpendTyped DEF IInv, TypeOK
<1>3. PICK k \in Job :
              /\ jobs' = (jobs \ {j}) \cup {k}
              /\ k.scope = j.scope /\ k.rerun = j.rerun
              /\ k.phase = "done" /\ k.scope # "measure" =>
                    \A x \in k.hit : x \in Items /\ docker'[x] = "gone"
  BY ServedJob DEF IInv
<1>4. JobStep
  BY DEF JobStep
<1>5. /\ docker' \in [Items -> {"used", "free", "gone"}]
      /\ \A x \in Items : docker[x] = "gone" => docker'[x] = "gone"
  BY <1>4, GoneStays DEF IInv, Next
<1>6. TypeOK'
  BY <1>1, <1>2, <1>3, <1>5, ZenonT(30) DEF IInv, TypeOK, lists, flags
<1>7. FetchesSpent' /\ NewestForTab' /\ DialogNames'
  BY <1>1, <1>2 DEF IInv, FetchesSpent, NewestForTab, LoadedMatchesTab, DialogNames, lists
<1>8. AllHonest'
  BY <1>1 DEF IInv, AllHonest, Honest, Inspecting, Free, OfKind, lists
<1>9. RemovedGone'
  <2>1. \A x \in removed' : docker'[x] = "gone"
    BY <1>1, <1>5 DEF IInv, RemovedGone, TypeOK
  <2>2. \A i \in jobs' : i.phase = "done" /\ i.scope # "measure" =>
           \A x \in i.hit : docker'[x] = "gone"
    <3>1. \A i \in jobs : i.hit \subseteq Items
      BY DEF IInv, TypeOK, Job
    <3> QED BY <1>3, <1>5, <3>1 DEF IInv, RemovedGone
  <2>3. \A g \in gets' : g.n = cur' => Lists(g) \cap removed' = {}
    BY <1>1 DEF IInv, RemovedGone, lists
  <2>4. RemovedNotListed'
    BY <1>1 DEF IInv, RemovedGone, RemovedNotListed, lists
  <2> QED BY <2>1, <2>2, <2>3, <2>4 DEF RemovedGone
<1>10. Slots'
  <2>1. /\ Held(jobs', Prunes, pruning # None)
        /\ Held(jobs', {"image"}, deletingId # None)
        /\ Held(jobs', {"network"}, deletingNetworkId # None)
    BY <1>3, SlotReplace DEF IInv, Slots
  <2>2. Held(jobs', {"measure"}, measuring)
    <3>1. measuring \in BOOLEAN /\ Held(jobs, {"measure"}, measuring)
      BY DEF IInv, Slots, TypeOK
    <3> QED BY <1>3, <3>1, SlotReplace, SMT
  <2>3. \A i \in jobs' : i.rerun => i.scope \in Prunes /\ ~measuring
    BY <1>3 DEF IInv, Slots
  <2> QED BY <1>1, <2>1, <2>2, <2>3 DEF Slots, flags
<1> QED BY <1>6, <1>7, <1>8, <1>9, <1>10 DEF IInv

\* An error, or a measurement, is handled.
LEMMA SettlingKeeps ==
    ASSUME IInv, NEW j \in jobs, JobError(j) \/ Measured(j)
    PROVE  IInv'
<1>1. /\ UNCHANGED <<world, tab, lists, admin, left>> /\ Release(j)
      /\ jobs' = jobs \ {j}
      /\ measuring' = (measuring /\ j.scope # "measure")
  BY DEF JobError, Measured
<1>2. volumeUsage' \in Shown
  <2>1. CASE JobError(j)
    BY <2>1 DEF JobError, IInv, TypeOK
  <2>2. CASE Measured(j)
    BY <2>2 DEF Measured, IInv, TypeOK, Job
  <2> QED BY <2>1, <2>2
<1>3. /\ Held(jobs', Prunes, pruning' # None)
      /\ Held(jobs', {"image"}, deletingId' # None)
      /\ Held(jobs', {"network"}, deletingNetworkId' # None)
      /\ j.scope = "measure" => Held(jobs', {"measure"}, FALSE)
      /\ j.scope # "measure" => Held(jobs', {"measure"}, measuring)
      /\ pruning' \in Prunes \cup {None}
      /\ deletingId' \in Images \cup {None}
      /\ deletingNetworkId' \in Networks \cup {None}
      /\ dialog' \in {dialog, Closed}
  BY <1>1, ReleaseFrees
<1>4. /\ DialogNames'
      /\ dialog' \in [scope: Scopes, item: Items \cup {None}] \cup {Closed}
  BY <1>3, ClosedNamesNothing
<1>5. TypeOK'
  <2>1. measuring' \in BOOLEAN
    BY <1>1
  <2> QED BY <1>1, <1>2, <1>3, <1>4, <2>1 DEF IInv, TypeOK, world, lists
<1>6. FetchesSpent' /\ NewestForTab' /\ AllHonest' /\ RemovedGone'
  <2> USE DEF world, lists
  <2>1. FetchesSpent' /\ NewestForTab'
    BY <1>1 DEF IInv, FetchesSpent, NewestForTab, LoadedMatchesTab
  <2>2. AllHonest'
    BY <1>1 DEF IInv, AllHonest, Honest, Inspecting, Free, OfKind
  <2>3. RemovedGone'
    BY <1>1 DEF IInv, RemovedGone, RemovedNotListed
  <2> QED BY <2>1, <2>2, <2>3
<1>7. Slots'
  <2>1. Held(jobs', {"measure"}, measuring')
    <3>1. CASE j.scope = "measure"
      <4>1. ~measuring'
        BY <1>1, <3>1
      <4> QED BY <1>3, <3>1, <4>1 DEF Held
    <3>2. CASE j.scope # "measure"
      <4>1. measuring' <=> measuring
        BY <1>1, <3>2
      <4> QED BY <1>3, <3>2, <4>1 DEF Held
    <3> QED BY <3>1, <3>2
  <2>2. \A i \in jobs' : i.rerun => i.scope \in Prunes /\ ~measuring'
    BY <1>1 DEF IInv, Slots
  <2> QED BY <1>3, <2>1, <2>2 DEF Slots, Held, InSlot, Prunes
<1> QED BY <1>4, <1>5, <1>6, <1>7 DEF IInv

\* A removal is handled: the lists are asked for again, so that nothing that
\* was served before is shown after it.
LEMMA RemovedKeeps ==
    ASSUME IInv, NEW j \in jobs, Removed(j)
    PROVE  IInv'
<1> DEFINE k == Sent("measure", None, FALSE)
<1>1. /\ j.phase = "done" /\ j.scope # "measure"
      /\ removed' = removed \cup j.hit
      /\ measuring' = (measuring \/ j.rerun)
      /\ Release(j) /\ RunEffects(tab)
      /\ UNCHANGED <<docker, calm, volumeUsage, admin>>
  BY DEF Removed
<1>2. jobs' = IF j.rerun THEN (jobs \ {j}) \cup {k} ELSE jobs \ {j}
  <2>1. jobs' = (jobs \ {j}) \cup {k : r \in {j.rerun} \cap {TRUE}}
    BY DEF Removed
  <2>2. j.rerun \in BOOLEAN
    BY DEF IInv, TypeOK, Job
  <2> HIDE DEF k
  <2> QED BY <2>1, <2>2
<1>3. k \in Job /\ k.scope = "measure" /\ k.phase = "sent" /\ k.rerun = FALSE /\ k.hit = {}
  BY SentTyped DEF Scopes
<1> HIDE DEF k
<1>4. /\ Held(jobs \ {j}, Prunes, pruning' # None)
      /\ Held(jobs \ {j}, {"image"}, deletingId' # None)
      /\ Held(jobs \ {j}, {"network"}, deletingNetworkId' # None)
      /\ Held(jobs \ {j}, {"measure"}, measuring)
      /\ pruning' \in Prunes \cup {None}
      /\ deletingId' \in Images \cup {None}
      /\ deletingNetworkId' \in Networks \cup {None}
      /\ dialog' \in {dialog, Closed}
  BY <1>1, ReleaseFrees
<1>5. /\ DialogNames'
      /\ dialog' \in [scope: Scopes, item: Items \cup {None}] \cup {Closed}
  BY <1>4, ClosedNamesNothing
<1>6. tab \in Kinds
  BY DEF IInv, TypeOK
<1>7. /\ cur' \in 0..MaxFetches /\ left' \in [DOMAIN Bound -> Nat] /\ FetchesSpent'
      /\ tab' \in Kinds /\ gets' \subseteq Get
      /\ isLoading' /\ recordsLoading' \in BOOLEAN /\ (tab = "builder" => recordsLoading')
      /\ result' = result /\ records' = records
      /\ cur' = cur + 1
      /\ \A g \in gets' : g \in gets \/ (g.n = cur' /\ g.kind = tab /\ Blank(g))
      /\ NewestForTab'
  BY <1>1, <1>6, EffectsKeepLists
<1>8. tab' = tab /\ isLoading' = TRUE
  BY <1>1 DEF RunEffects
<1>9. TypeOK'
  <2>1. measuring' \in BOOLEAN
    BY <1>1
  <2>2. jobs' \subseteq Job
    BY <1>2, <1>3 DEF IInv, TypeOK
  <2>3. removed' \subseteq Items
    BY <1>1 DEF IInv, TypeOK, Job
  <2> QED BY <1>1, <1>4, <1>5, <1>7, <1>8, <2>1, <2>2, <2>3 DEF IInv, TypeOK
<1>10. AllHonest'
  BY <1>7 DEF IInv, AllHonest, Honest, Inspecting, Blank, Free
<1>11. RemovedGone'
  <2>1. \A x \in removed' : docker'[x] = "gone"
    BY <1>1 DEF IInv, RemovedGone
  <2>2. \A i \in jobs' : i \in jobs \/ (i.phase = "sent" /\ i.hit = {})
    BY <1>2, <1>3
  <2>3. ASSUME NEW g \in gets
        PROVE  g.n # cur'
    <3>1. g.n \in Nat /\ cur \in Nat /\ g.n <= cur
      BY SMTT(30) DEF IInv, NewestForTab, TypeOK, Get
    <3>2. cur' = cur + 1
      BY <1>7
    <3> QED BY ONLY <3>1, <3>2, SMT
  <2>4. \A g \in gets' : g.n = cur' => Lists(g) \cap removed' = {}
    <3>1. \A g \in gets' : g.n = cur' => Blank(g)
      BY <1>7, <2>3
    <3> QED BY <3>1 DEF Lists, ItemsOf, Blank
  <2>5. RemovedNotListed'
    BY <1>7, <1>8 DEF RemovedNotListed
  <2> QED BY <1>1, <2>1, <2>2, <2>4, <2>5 DEF IInv, RemovedGone
<1>12. Slots'
  <2>1. CASE j.rerun
    <3>1. ~measuring /\ measuring'
      BY <1>1, <2>1 DEF IInv, Slots
    <3>2. Held(jobs \ {j}, {"measure"}, FALSE)
      BY <1>4, <3>1 DEF Held
    <3>3. Held(jobs', {"measure"}, TRUE)
      BY <1>2, <1>3, <2>1, <3>2, SlotAdd
    <3>4. Held(jobs', {"measure"}, measuring')
      BY <3>1, <3>3 DEF Held
    <3>5. k.scope \notin Prunes /\ k.scope \notin {"image"} /\ k.scope \notin {"network"}
      BY <1>3 DEF Prunes
    <3>6. /\ Held(jobs', Prunes, pruning' # None)
          /\ Held(jobs', {"image"}, deletingId' # None)
          /\ Held(jobs', {"network"}, deletingNetworkId' # None)
      BY <1>2, <1>4, <2>1, <3>5, SlotOther
    <3>7. j.scope \in Prunes
      BY <2>1 DEF IInv, Slots
    <3>8. \A i \in jobs \ {j} : i.scope \notin Prunes
      BY <1>1, <1>4, <3>7 DEF Release, Held, InSlot
    <3>9. \A i \in jobs' : ~i.rerun
      BY <1>2, <1>3, <2>1, <3>8 DEF IInv, Slots
    <3> QED BY <3>4, <3>6, <3>9 DEF Slots, Held, InSlot, Prunes
  <2>2. CASE ~j.rerun
    <3>1. measuring' <=> measuring
      BY <1>1, <2>2
    <3>2. jobs' = jobs \ {j}
      BY <1>2, <2>2
    <3>3. Held(jobs', {"measure"}, measuring')
      BY <1>4, <3>1, <3>2 DEF Held
    <3>4. \A i \in jobs' : i.rerun => i.scope \in Prunes /\ ~measuring'
      BY <3>1, <3>2 DEF IInv, Slots
    <3> QED BY <1>4, <3>2, <3>3, <3>4 DEF Slots, Held, InSlot, Prunes
  <2> QED BY <2>1, <2>2
<1> QED BY <1>5, <1>7, <1>9, <1>10, <1>11, <1>12 DEF IInv

\* Others start or stop using a resource.
LEMMA OthersKeep ==
    ASSUME IInv, OthersChange
    PROVE  IInv'
<1>1. /\ UNCHANGED <<tab, lists, jobs, flags, volumeUsage, dialog, admin, removed, calm>>
      /\ Spend("mishaps")
  BY DEF OthersChange
<1>2. left' \in [DOMAIN Bound -> Nat] /\ left'.fetches = left.fetches
  BY <1>1, SpendTyped DEF IInv
<1>3. /\ docker' \in [Items -> {"used", "free", "gone"}]
      /\ \A x \in Items : docker[x] = "gone" => docker'[x] = "gone"
  BY GoneStays DEF IInv, Next
<1>4. TypeOK'
  BY <1>1, <1>2, <1>3 DEF IInv, TypeOK, lists, flags
<1>5. FetchesSpent' /\ NewestForTab' /\ DialogNames'
  BY <1>1, <1>2 DEF IInv, FetchesSpent, NewestForTab, LoadedMatchesTab, DialogNames, lists
<1>6. AllHonest'
  BY <1>1 DEF IInv, AllHonest, Honest, Inspecting, Free, OfKind, lists
<1>7. RemovedGone'
  <2>1. removed \subseteq Items /\ \A i \in jobs : i.hit \subseteq Items
    BY DEF IInv, TypeOK, Job
  <2> QED BY <1>1, <1>3, <2>1 DEF IInv, RemovedGone, RemovedNotListed, lists
<1>8. Slots'
  BY <1>1 DEF IInv, Slots, flags
<1> QED BY <1>4, <1>5, <1>6, <1>7, <1>8 DEF IInv

-----------------------------------------------------------------------------
(* Measurements.                                                           *)

\* A measurement lists volumes, and as free only what was free when it was taken.
Measurement(u) ==
    /\ Free(u.rows) \subseteq u.was
    /\ u.was \subseteq Volumes /\ ItemsOf(u.rows) \subseteq Volumes

\* Only a prune of volumes removes volumes, and only a measurement measures.
JobVolumes(j) ==
    /\ j.scope \in {"image", "network", "record"} => j.item \notin Volumes
    /\ j.scope # "volumes" => j.hit \cap Volumes = {}
    /\ j.scope # "measure" => j.usage = Nothing
    /\ Measurement(j.usage)

\* No measurement runs beside a prune of volumes, which measures again when there
\* is something to correct; so no measurement lists what is removed by the time
\* it is over.
Corrected ==
    /\ \A j \in jobs : j.scope = "volumes" => ~measuring /\ (volumeUsage = Nothing \/ j.rerun)
    /\ \A j \in jobs : j.scope = "measure" => j.phase # "failed"
    /\ \A j \in jobs : ItemsOf(j.usage.rows) \cap removed = {}
    /\ ~measuring => ItemsOf(volumeUsage.rows) \cap removed = {}

MInv ==
    /\ Measurement(volumeUsage)
    /\ \A j \in jobs : JobVolumes(j)
    /\ calm => Corrected

LEMMA NothingMeasured == Measurement(Nothing) /\ ItemsOf(Nothing.rows) = {}
BY DEF Measurement, Nothing, Free, ItemsOf

\* A request of the page is sent.
LEMMA SendingMeasures ==
    ASSUME MInv, NEW scope \in Scopes, NEW item \in Items \cup {None}, NEW rerun \in BOOLEAN,
           jobs' = jobs \cup {Sent(scope, item, rerun)}, UNCHANGED <<removed, volumeUsage>>,
           scope \in {"image", "network", "record"} => item \notin Volumes,
           calm' => calm, ~measuring' => ~measuring,
           calm' => \A j \in jobs' : j.scope = "volumes" => ~measuring' /\ (volumeUsage = Nothing \/ j.rerun)
    PROVE  MInv'
<1> DEFINE k == Sent(scope, item, rerun)
<1>1. /\ k.scope = scope /\ k.phase = "sent" /\ k.hit = {} /\ k.item = item /\ k.usage = Nothing
      /\ jobs' = jobs \cup {k}
  BY DEF Sent
<1> HIDE DEF k
<1>2. JobVolumes(k)
  BY <1>1, NothingMeasured DEF JobVolumes
<1>3. \A j \in jobs' : JobVolumes(j)
  BY <1>1, <1>2 DEF MInv
<1>4. ASSUME calm'
      PROVE  \A j \in jobs' : /\ ItemsOf(j.usage.rows) \cap removed' = {}
                              /\ j.scope = "measure" => j.phase # "failed"
  BY <1>1, <1>4, NothingMeasured DEF MInv, Corrected
<1>5. ASSUME calm' PROVE ~measuring' => ItemsOf(volumeUsage'.rows) \cap removed' = {}
  BY <1>5 DEF MInv, Corrected
<1>6. Measurement(volumeUsage')
  BY DEF MInv
<1>7. ASSUME calm' PROVE Corrected'
  <2>1. \A j \in jobs' : j.scope = "volumes" => ~measuring' /\ (volumeUsage' = Nothing \/ j.rerun)
    BY <1>7
  <2>2. \A j \in jobs' : j.scope = "measure" => j.phase # "failed"
    BY <1>4, <1>7
  <2>3. \A j \in jobs' : ItemsOf(j.usage.rows) \cap removed' = {}
    BY <1>4, <1>7
  <2>4. ~measuring' => ItemsOf(volumeUsage'.rows) \cap removed' = {}
    BY <1>5, <1>7
  <2> QED BY <2>1, <2>2, <2>3, <2>4 DEF Corrected
<1>8. (\A j \in jobs : JobVolumes(j))' /\ Measurement(volumeUsage)'
  BY <1>3, <1>6 DEF Measurement, JobVolumes, Free
<1> QED BY <1>7, <1>8 DEF MInv

\* The user's steps: a prune that is confirmed during a measurement is the
\* exception, otherwise the prune measures again.
LEMMA UserMeasures ==
    ASSUME IInv, MInv, UserStep
    PROVE  MInv'
<1>1. CASE Arm \/ Dismiss
  <2>1. UNCHANGED <<removed, calm, jobs, measuring, volumeUsage>>
    BY <1>1 DEF Arm, Dismiss, world, flags
  <2> QED BY <2>1 DEF MInv, Corrected
<1>2. CASE ConfirmDelete
  <2>1. UNCHANGED <<removed, calm, measuring, volumeUsage>> /\ dialog.scope \in {"image", "network"}
    BY <1>2 DEF ConfirmDelete, world
  <2>2. CASE jobs' = jobs
    BY <2>1, <2>2 DEF MInv, Corrected
  <2>3. CASE jobs' = jobs \cup {Sent(dialog.scope, dialog.item, FALSE)}
    <3>1. dialog.item \in Items /\ dialog.item \notin Volumes /\ dialog.scope \in Scopes
      BY <2>1, AdminAssumption DEF IInv, DialogNames, Items, Scopes
    <3>2. ASSUME calm'
          PROVE  \A j \in jobs' : j.scope = "volumes" => ~measuring' /\ (volumeUsage = Nothing \/ j.rerun)
      <4>1. Sent(dialog.scope, dialog.item, FALSE).scope # "volumes"
        BY <2>1 DEF Sent
      <4> QED BY <2>1, <2>3, <3>2, <4>1 DEF MInv, Corrected
    <3> QED BY <2>1, <2>3, <3>1, <3>2, SendingMeasures
  <2> QED BY <1>2, <2>2, <2>3 DEF ConfirmDelete
<1>3. CASE ConfirmPrune
  <2> DEFINE rerun == Remeasures(dialog.scope)
  <2>1. /\ UNCHANGED <<removed, measuring, volumeUsage>> /\ dialog.scope \in Prunes
        /\ calm' = (calm /\ ~(dialog.scope = "volumes" /\ measuring))
    BY <1>3 DEF ConfirmPrune
  <2>2. CASE jobs' = jobs
    BY <2>1, <2>2 DEF MInv, Corrected
  <2>3. CASE jobs' = jobs \cup {Sent(dialog.scope, dialog.item, rerun)}
    <3>1. dialog.item \in Items \cup {None} /\ dialog.scope \in Scopes
      BY <2>1, SMT DEF IInv, TypeOK, Closed, Scopes
    <3>2. dialog.scope \in {"image", "network", "record"} => dialog.item \notin Volumes
      BY <2>1, AdminAssumption DEF IInv, DialogNames, Prunes
    <3>3. rerun \in BOOLEAN
      BY DEF Remeasures
    <3>4. ASSUME calm'
          PROVE  \A j \in jobs' : j.scope = "volumes" => ~measuring' /\ (volumeUsage = Nothing \/ j.rerun)
      <4> DEFINE k == Sent(dialog.scope, dialog.item, rerun)
      <4>1. k.scope = dialog.scope /\ k.rerun = rerun
        BY DEF Sent
      <4>2. calm /\ (dialog.scope = "volumes" => ~measuring)
        BY <2>1, <3>4
      <4>3. k.scope = "volumes" => ~measuring' /\ (volumeUsage = Nothing \/ k.rerun)
        BY <2>1, <4>1, <4>2 DEF Remeasures
      <4> HIDE DEF k
      <4>4. jobs' = jobs \cup {k}
        BY <2>3 DEF k
      <4> QED BY <2>1, <4>2, <4>3, <4>4 DEF MInv, Corrected
    <3> HIDE DEF rerun
    <3> QED BY <2>1, <2>3, <3>1, <3>2, <3>3, <3>4, SendingMeasures
  <2> QED BY <1>3, <2>2, <2>3 DEF ConfirmPrune
<1>4. CASE Measure
  <2>1. /\ UNCHANGED <<removed, calm, volumeUsage>> /\ measuring' = TRUE /\ pruning = None
        /\ jobs' = jobs \cup {Sent("measure", None, FALSE)}
    BY <1>4 DEF Measure, world
  <2>2. \A j \in jobs' : j.scope # "volumes"
    <3>1. \A j \in jobs : j.scope \notin Prunes
      BY <2>1 DEF IInv, Slots, Held, InSlot
    <3>2. Sent("measure", None, FALSE).scope = "measure"
      BY DEF Sent
    <3> QED BY <2>1, <3>1, <3>2 DEF Prunes
  <2> QED BY <2>1, <2>2, SendingMeasures DEF Scopes
<1> QED BY <1>1, <1>2, <1>3, <1>4 DEF UserStep

\* A request is answered, or fails.
LEMMA ServingMeasures ==
    ASSUME IInv, MInv, NEW j \in jobs, JobServe(j) \/ MeasureServe(j) \/ JobFail(j)
    PROVE  MInv'
<1>1. UNCHANGED <<removed, measuring, volumeUsage>> /\ (calm' => calm)
  <2>1. CASE JobServe(j)
    BY <2>1 DEF JobServe, flags
  <2>2. CASE MeasureServe(j)
    BY <2>2 DEF MeasureServe, flags, world
  <2>3. CASE JobFail(j)
    BY <2>3 DEF JobFail, flags
  <2> QED BY <2>1, <2>2, <2>3
<1>2. j \in Job /\ JobVolumes(j)
  BY DEF IInv, TypeOK, MInv
<1>3. ASSUME NEW k, jobs' = (jobs \ {j}) \cup {k}, k.scope = j.scope, k.rerun = j.rerun,
             JobVolumes(k), calm' => ItemsOf(k.usage.rows) \cap removed = {},
             calm' => (k.scope = "measure" => k.phase # "failed")
      PROVE  MInv'
  <2>1. \A i \in jobs' : JobVolumes(i)
    BY <1>3 DEF MInv
  <2>2. calm' => Corrected'
    BY <1>1, <1>3 DEF MInv, Corrected
  <2> QED BY <1>1, <2>1, <2>2 DEF MInv, Measurement, JobVolumes, Free
<1>4. CASE JobServe(j)
  <2> DEFINE hit == Removes(j.scope, j.item)
             refused == j.scope \in {"image", "network"} /\ hit = {}
             k == [j EXCEPT !.phase = IF refused THEN "failed" ELSE "done", !.hit = hit]
  <2>1. jobs' = (jobs \ {j}) \cup {k} /\ j.scope # "measure"
    BY <1>4 DEF JobServe
  <2>2. j.scope # "volumes" => hit \cap Volumes = {}
    <3>1. j.scope \in {"unused", "dangling"} => hit \subseteq Images
      BY AdminAssumption DEF Removes
    <3>2. j.scope = "builder" => hit \subseteq Records
      BY DEF Removes
    <3>3. j.scope = "networks" => hit \subseteq Networks
      BY DEF Removes
    <3>4. j.scope \in {"image", "network", "record"} => hit \subseteq {j.item}
      BY DEF Removes
    <3>5. j.scope \in Scopes
      BY <1>2 DEF Job
    <3> HIDE DEF hit
    <3>6. j.scope \in {"unused", "dangling", "builder", "networks", "image", "network", "record"}
             => hit \cap Volumes = {}
      BY <1>2, <3>1, <3>2, <3>3, <3>4, AdminAssumption DEF JobVolumes
    <3> QED BY <2>1, <3>5, <3>6 DEF Scopes, Prunes
  <2> HIDE DEF hit
  <2>3. k.scope = j.scope /\ k.rerun = j.rerun /\ k.hit = hit /\ k.item = j.item /\ k.usage = j.usage
    BY <1>2 DEF Job
  <2> HIDE DEF k
  <2>4. JobVolumes(k)
    BY <1>2, <2>2, <2>3 DEF JobVolumes
  <2>5. calm' => ItemsOf(k.usage.rows) \cap removed = {}
    BY <1>1, <2>3 DEF MInv, Corrected
  <2> QED BY <1>3, <2>1, <2>3, <2>4, <2>5
<1>5. CASE MeasureServe(j)
  <2> DEFINE u == [kind |-> "volumes", rows |-> Rows("volumes", Uncounted), n |-> 0,
                   was |-> FreeNow("volumes")]
             k == [j EXCEPT !.phase = "done", !.usage = u]
  <2>1. jobs' = (jobs \ {j}) \cup {k} /\ j.scope = "measure"
    BY <1>5 DEF MeasureServe
  <2>2. /\ ItemsOf(u.rows) \subseteq Holds("volumes")
        /\ Free(u.rows) \subseteq u.was /\ u.was \subseteq Volumes
    BY MeasurementTyped DEF IInv
  <2> HIDE DEF u
  <2>3. k.scope = j.scope /\ k.rerun = j.rerun /\ k.hit = j.hit /\ k.item = j.item /\ k.usage = u
    BY <1>2 DEF Job
  <2> HIDE DEF k
  <2>4. Holds("volumes") \subseteq Volumes /\ Holds("volumes") \cap removed = {}
    BY DEF Holds, OfKind, IInv, RemovedGone
  <2>5. JobVolumes(k)
    BY <1>2, <2>1, <2>2, <2>3, <2>4 DEF JobVolumes, Measurement
  <2>6. k.phase = "done"
    BY <1>2 DEF Job, k
  <2> QED BY <1>3, <2>1, <2>2, <2>3, <2>4, <2>5, <2>6
<1>6. CASE JobFail(j)
  <2> DEFINE k == [j EXCEPT !.phase = "failed"]
  <2>1. jobs' = (jobs \ {j}) \cup {k} /\ calm' = (calm /\ j.scope # "measure")
    BY <1>6 DEF JobFail
  <2>2. /\ k.scope = j.scope /\ k.rerun = j.rerun /\ k.hit = j.hit /\ k.item = j.item
        /\ k.usage = j.usage
    BY <1>2 DEF Job
  <2> HIDE DEF k
  <2>3. JobVolumes(k)
    BY <1>2, <2>2 DEF JobVolumes
  <2>4. calm' => ItemsOf(k.usage.rows) \cap removed = {}
    BY <1>1, <2>2 DEF MInv, Corrected
  <2> QED BY <1>3, <2>1, <2>2, <2>3, <2>4
<1> QED BY <1>4, <1>5, <1>6

\* An error is handled.
LEMMA ErrorMeasures ==
    ASSUME IInv, MInv, NEW j \in jobs, JobError(j)
    PROVE  MInv'
<1>1. /\ UNCHANGED <<removed, calm, volumeUsage>> /\ jobs' = jobs \ {j}
      /\ measuring' = (measuring /\ j.scope # "measure") /\ j.phase = "failed"
  BY DEF JobError, world
<1>2. calm' => (measuring' <=> measuring)
  BY <1>1 DEF MInv, Corrected
<1> QED BY <1>1, <1>2 DEF MInv, Corrected

\* A measurement arrives.
LEMMA ArrivalMeasures ==
    ASSUME IInv, MInv, NEW j \in jobs, Measured(j)
    PROVE  MInv'
<1>1. /\ UNCHANGED <<removed, calm>> /\ jobs' = jobs \ {j} /\ measuring' = FALSE
      /\ volumeUsage' = j.usage /\ j.scope = "measure"
  BY DEF Measured, world
<1>2. measuring
  BY <1>1 DEF IInv, Slots, Held, InSlot
<1>3. Measurement(volumeUsage)'
  BY <1>1 DEF MInv, JobVolumes, Measurement, Free
<1>4. calm' => Corrected'
  BY <1>1, <1>2 DEF MInv, Corrected
<1> QED BY <1>1, <1>3, <1>4 DEF MInv

\* A removal is handled: a prune of volumes starts a measurement, or there is
\* none to correct.
LEMMA RemovalMeasures ==
    ASSUME IInv, MInv, NEW j \in jobs, Removed(j)
    PROVE  MInv'
<1> DEFINE k == Sent("measure", None, FALSE)
<1>1. /\ UNCHANGED <<calm, volumeUsage>> /\ removed' = removed \cup j.hit /\ j.scope # "measure"
      /\ measuring' = (measuring \/ j.rerun)
  BY DEF Removed
<1>2. /\ \A i \in jobs' : i \in jobs \ {j} \/ (j.rerun /\ i = k)
      /\ j.rerun => \A i \in jobs' : i.scope # "volumes"
      /\ j.scope = "volumes" => \A i \in jobs' : i.scope # "volumes"
  <2>1. \A i \in jobs' : i \in jobs \ {j} \/ (j.rerun /\ i = k)
    BY DEF Removed
  <2>2. j.rerun => j.scope \in Prunes
    BY DEF IInv, Slots
  <2>3. ASSUME j.scope \in Prunes, NEW i \in jobs \ {j}
        PROVE  i.scope \notin Prunes
    BY <2>3 DEF IInv, Slots, Held, InSlot
  <2>4. k.scope = "measure"
    BY DEF Sent
  <2> HIDE DEF k
  <2> QED BY <2>1, <2>2, <2>3, <2>4 DEF Prunes
<1>3. k.scope = "measure" /\ k.phase = "sent" /\ k.hit = {} /\ k.usage = Nothing
  BY DEF Sent
<1> HIDE DEF k
<1>4. \A i \in jobs' : JobVolumes(i)
  BY <1>2, <1>3, NothingMeasured DEF MInv, JobVolumes
<1>5. ASSUME calm' PROVE Corrected'
  <2>1. calm /\ Corrected
    BY <1>1, <1>5 DEF MInv
  <2>2. \A i \in jobs' : i.scope = "volumes" => ~measuring' /\ (volumeUsage' = Nothing \/ i.rerun)
    BY <1>1, <1>2, <2>1 DEF Corrected
  <2>3. \A i \in jobs' : i.scope = "measure" => i.phase # "failed"
    BY <1>2, <1>3, <2>1 DEF Corrected
  <2>4. CASE j.scope = "volumes"
    <3>1. ~measuring /\ (volumeUsage = Nothing \/ j.rerun)
      BY <2>1, <2>4 DEF Corrected
    <3>2. \A i \in jobs : i.scope # "measure"
      BY <3>1 DEF IInv, Slots, Held, InSlot
    <3>3. \A i \in jobs' : i.usage = Nothing
      BY <1>2, <1>3, <3>2 DEF MInv, JobVolumes
    <3>4. \A i \in jobs' : ItemsOf(i.usage.rows) \cap removed' = {}
      BY <3>3, NothingMeasured
    <3>5. ~measuring' => ItemsOf(volumeUsage'.rows) \cap removed' = {}
      BY <1>1, <3>1, NothingMeasured
    <3> QED BY <2>2, <2>3, <3>4, <3>5 DEF Corrected
  <2>5. CASE j.scope # "volumes"
    <3>1. j.hit \cap Volumes = {}
      BY <2>5 DEF MInv, JobVolumes
    <3>2. \A i \in jobs' : ItemsOf(i.usage.rows) \cap removed' = {}
      <4>1. \A i \in jobs' : ItemsOf(i.usage.rows) \subseteq Volumes
        BY <1>4 DEF JobVolumes, Measurement
      <4>2. \A i \in jobs' : ItemsOf(i.usage.rows) \cap removed = {}
        BY <1>2, <1>3, <2>1, NothingMeasured DEF Corrected
      <4> QED BY <1>1, <3>1, <4>1, <4>2
    <3>3. ~measuring' => ItemsOf(volumeUsage'.rows) \cap removed' = {}
      BY <1>1, <2>1, <3>1 DEF Corrected, MInv, Measurement
    <3> QED BY <2>2, <2>3, <3>2, <3>3 DEF Corrected
  <2> QED BY <2>4, <2>5
<1>6. Measurement(volumeUsage)'
  BY <1>1 DEF MInv, Measurement, Free
<1> QED BY <1>4, <1>5, <1>6 DEF MInv, JobVolumes, Measurement, Free

LEMMA MeasureInit == Init => MInv
BY NothingMeasured DEF Init, MInv, Corrected, ItemsOf

LEMMA MeasureNext == IInv /\ MInv /\ [Next]_vars => MInv'
<1> SUFFICES ASSUME IInv, MInv, [Next]_vars PROVE MInv'
  OBVIOUS
<1>1. ASSUME UNCHANGED <<removed, calm, jobs, measuring, volumeUsage>>
      PROVE  MInv'
  BY <1>1 DEF MInv, Corrected
<1>2. CASE OthersChange \/ ListStep \/ UNCHANGED vars
  <2>1. UNCHANGED <<removed, calm, jobs, measuring, volumeUsage>>
    BY <1>2, ListsFrame DEF OthersChange, vars, world, flags
  <2> QED BY <1>1, <2>1
<1>3. CASE JobStep
  BY <1>3, ServingMeasures, ErrorMeasures, RemovalMeasures, ArrivalMeasures DEF JobStep
<1> QED BY <1>2, <1>3, UserMeasures DEF Next

-----------------------------------------------------------------------------
(* Theorems.                                                               *)

LEMMA InvInit == Init => IInv
<1> SUFFICES ASSUME Init PROVE IInv
  OBVIOUS
<1>1. tab \in Kinds /\ tab = "images" /\ gets = Requests(tab, 1) /\ cur = 1
  BY DEF Init, Kinds
<1>2. /\ gets \subseteq Get
      /\ \A g \in gets : g.n = 1 /\ g.kind = tab /\ Blank(g)
  BY <1>1, RequestsTyped
<1>3. left \in [DOMAIN Bound -> Nat] /\ left.fetches = MaxFetches - 1 /\ MaxFetches >= 1
  BY AdminAssumption, SMT DEF Init, Bound
<1>4. docker \in [Items -> {"used", "free", "gone"}]
  <2>1. docker \in [Items -> {"used", "free"}]
    BY AdminAssumption DEF Init, Items
  <2> QED BY <2>1
<1>5. Nothing \in Shown
  BY DEF Nothing, Shown
<1>6. TypeOK
  <2>1. cur \in 0..MaxFetches
    <3>1. cur = 1 /\ MaxFetches >= 1 /\ MaxFetches \in Nat
      BY <1>1, <1>3, AdminAssumption
    <3> QED BY ONLY <3>1, SMT
  <2>2. /\ result \in Shown /\ records \in Shown /\ jobs \subseteq Job
        /\ volumeUsage \in Shown /\ removed \subseteq Items /\ calm \in BOOLEAN
        /\ dialog \in [scope: Scopes, item: Items \cup {None}] \cup {Closed}
    BY <1>5 DEF Init
  <2>3. isLoading \in BOOLEAN /\ recordsLoading \in BOOLEAN /\ measuring \in BOOLEAN
        /\ admin \in BOOLEAN
    BY DEF Init
  <2>4. deletingId = None /\ deletingNetworkId = None /\ pruning = None
    BY DEF Init
  <2> QED BY <1>1, <1>2, <1>3, <1>4, <2>1, <2>2, <2>3, <2>4 DEF TypeOK
<1>7. FetchesSpent /\ NewestForTab
  BY <1>1, <1>2, <1>3, AdminAssumption, SMT DEF Init, FetchesSpent, NewestForTab, LoadedMatchesTab, Nothing
<1>8. AllHonest
  BY <1>2 DEF Init, AllHonest, Honest, Inspecting, Blank, Free, Nothing
<1>9. RemovedGone
  BY DEF Init, RemovedGone, RemovedNotListed
<1>10. DialogNames
  BY ClosedNames DEF Init, DialogNames
<1>11. Slots
  BY DEF Init, Slots, Held, InSlot
<1> QED BY <1>6, <1>7, <1>8, <1>9, <1>10, <1>11 DEF IInv

LEMMA InvNext == IInv /\ [Next]_vars => IInv'
<1> SUFFICES ASSUME IInv, [Next]_vars PROVE IInv'
  OBVIOUS
<1>1. CASE UserStep
  BY <1>1, DialogKeeps, ConfirmDeleteKeeps, ConfirmPruneKeeps, MeasureKeeps DEF UserStep
<1>2. CASE JobStep
  BY <1>2, ServingKeeps, SettlingKeeps, RemovedKeeps DEF JobStep
<1>3. CASE UNCHANGED vars
  <2>1. TypeOK' /\ FetchesSpent' /\ NewestForTab' /\ DialogNames'
    BY <1>3, SMT DEF vars, IInv, TypeOK, FetchesSpent, NewestForTab, LoadedMatchesTab, DialogNames
  <2>2. AllHonest' /\ RemovedGone' /\ Slots'
    BY <1>3 DEF vars, IInv, AllHonest, Honest, Inspecting, Free, OfKind, RemovedGone, RemovedNotListed, Slots
  <2> QED BY <2>1, <2>2 DEF IInv
<1> QED BY <1>1, <1>2, <1>3, OthersKeep, ListStepKeeps DEF Next

LEMMA InvAlways == Spec => []IInv
BY InvInit, InvNext, PTL DEF Spec

LEMMA MeasureAlways == Spec => []MInv
BY MeasureInit, MeasureNext, InvAlways, PTL DEF Spec

\* The state of the page keeps its types.
THEOREM AdminTypeCorrect == Spec => []TypeOK
<1>1. IInv => TypeOK
  BY DEF IInv
<1> QED BY <1>1, InvAlways, PTL

\* Whatever tabs are visited while lists are on their way, the list that is
\* shown once loading is over is the one of the tab.
THEOREM AdminLoadedMatchesTab == Spec => []LoadedMatchesTab
<1>1. IInv => LoadedMatchesTab
  BY DEF IInv, NewestForTab
<1> QED BY <1>1, InvAlways, PTL

\* However lists, removals and changes by others interleave, what the page was
\* told it removed is not on screen once the lists are loaded.
THEOREM AdminRemovedNotListed == Spec => []RemovedNotListed
<1>1. IInv => RemovedNotListed
  BY DEF IInv, RemovedGone
<1> QED BY <1>1, InvAlways, PTL

\* Every slice has one request at a time, and its busy flag is set exactly
\* while it runs, also for the measurement that follows a prune.
THEOREM AdminOneAtATime == Spec => []OneAtATime
<1>1. IInv => OneAtATime
  <2> SUFFICES ASSUME IInv PROVE OneAtATime
    OBVIOUS
  <2>1. /\ Held(jobs, Prunes, pruning # None)
        /\ Held(jobs, {"image"}, deletingId # None)
        /\ Held(jobs, {"network"}, deletingNetworkId # None)
        /\ Held(jobs, {"measure"}, measuring)
        /\ measuring \in BOOLEAN
    BY DEF IInv, Slots, TypeOK
  <2>2. Cardinality({j \in jobs : j.scope \in Prunes}) = IF pruning # None THEN 1 ELSE 0
    BY <2>1, SlotCount
  <2>3. Cardinality({j \in jobs : j.scope \in {"image"}}) = IF deletingId # None THEN 1 ELSE 0
    BY <2>1, SlotCount
  <2>4. Cardinality({j \in jobs : j.scope \in {"network"}})
           = IF deletingNetworkId # None THEN 1 ELSE 0
    BY <2>1, SlotCount
  <2>5. Cardinality({j \in jobs : j.scope \in {"measure"}}) = IF measuring THEN 1 ELSE 0
    BY <2>1, SlotCount
  <2> QED BY <2>2, <2>3, <2>4, <2>5 DEF OneAtATime
<1> QED BY <1>1, InvAlways, PTL

\* A prune dialog promises to free only what was free when the daemon served the
\* list or measured the volumes, and no network of Docker's own.
THEOREM AdminNeverOverstates == Spec => []NeverOverstates
<1>1. IInv /\ MInv => NeverOverstates
  <2> SUFFICES ASSUME IInv, MInv, NEW scope \in Prunes
               PROVE  Freeable(scope) \subseteq FreeThen(scope) \ Predefined
    BY DEF NeverOverstates
  <2>1. CASE scope = "volumes"
    <3>1. /\ Freeable(scope) = Free(volumeUsage.rows) /\ FreeThen(scope) = volumeUsage.was
      BY <2>1 DEF Freeable, FreeThen
    <3> QED BY <3>1, AdminAssumption DEF MInv, Measurement
  <2>2. CASE scope # "volumes"
    <3>1. Free(result.rows) \subseteq result.was /\ FreeThen(scope) = result.was
      BY <2>2 DEF IInv, AllHonest, Honest, FreeThen
    <3>2. ASSUME result.kind \in {"images", "builder"}
          PROVE  result.was \cap Predefined = {}
      <4>1. result.was \subseteq Images \/ result.was \subseteq Records
        BY <3>2 DEF IInv, AllHonest, Honest, Kinds, OfKind
      <4> QED BY <4>1, AdminAssumption
    <3> QED BY <2>2, <3>1, <3>2 DEF Freeable, Prunes
  <2> QED BY <2>1, <2>2
<1> QED BY <1>1, InvAlways, MeasureAlways, PTL

\* However measurements, prunes and other removals overlap: as long as no prune
\* of volumes was confirmed during a measurement and none failed, the
\* measurement on screen lists no volume the page was told it removed.
THEOREM AdminRemovedNotMeasured == Spec => []RemovedNotMeasured
<1>1. MInv => RemovedNotMeasured
  BY DEF MInv, Corrected, RemovedNotMeasured, ItemsOf
<1> QED BY <1>1, MeasureAlways, PTL

\* The list slice implements the abstract slice: it turns only to the answer of
\* its newest request, or to nothing.
THEOREM AdminNewestListOnly == Spec => NewestListOnly
<1>1. Init => ListSlice!Init
  BY SMT DEF Init, ListSlice!Init, Nothing
<1>2. IInv /\ [Next]_vars => [ListSlice!Next]_(ListSlice!lwvars)
  <2> SUFFICES ASSUME IInv, [Next]_vars
               PROVE  [ListSlice!Next]_(ListSlice!lwvars)
    OBVIOUS
  <2> USE DEF ListSlice!lwvars, ListSlice!Next
  <2>1. ASSUME cur' = cur + 1, result' = result
        PROVE  ListSlice!Issue
    BY <2>1 DEF ListSlice!Issue
  <2>2. ASSUME cur' = cur, result' = result
        PROVE  UNCHANGED ListSlice!lwvars
    BY <2>2
  <2>3. CASE SwitchTab \/ SyncNow \/ \E j \in jobs : Removed(j)
    <3>1. cur' = cur + 1 /\ result' = result
      BY <2>3 DEF SwitchTab, SyncNow, Removed, RunEffects
    <3> QED BY <2>1, <3>1
  <2>4. ASSUME NEW g \in gets, GetStep(g) \/ GetMishap(g)
        PROVE  UNCHANGED ListSlice!lwvars
    <3>1. cur' = cur /\ result' = result
      BY <2>4 DEF GetStep, GetServe, ListNetworks, InspectNetwork, Inspected, GetMishap, GetFail,
                  InspectFails, getsOnly
    <3> QED BY <2>2, <3>1
  <2>5. ASSUME NEW g \in gets, GetLand(g)
        PROVE  [ListSlice!Next]_(ListSlice!lwvars)
    <3>1. cur' = cur /\ (result' = result \/ (g.n = cur /\ result' = Answer(g)))
      BY <2>5 DEF GetLand, Cancelled
    <3>2. Answer(g).n \in {g.n, 0}
      BY DEF Answer, Nothing
    <3> QED BY <3>1, <3>2 DEF ListSlice!Show, ListSlice!Clear
  <2>6. CASE OthersChange \/ UserStep \/ UNCHANGED vars
    <3>1. cur' = cur /\ result' = result
      BY <2>6, UserFrame DEF OthersChange, vars, lists
    <3> QED BY <2>2, <3>1
  <2>7. CASE JobStep
    BY <2>2, <2>3, <2>7, JobFrame DEF lists
  <2> QED BY <2>3, <2>4, <2>5, <2>6, <2>7 DEF Next, ListStep
<1> QED BY <1>1, <1>2, InvAlways, PTL DEF Spec, NewestListOnly, ListSlice!Spec
=============================================================================
