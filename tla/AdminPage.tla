------------------------------ MODULE AdminPage ------------------------------
(***************************************************************************)
(* The administration page of the web interface: the useAdminResources     *)
(* hook, the page that arms its buttons and dialogs, and the four resource *)
(* tables.                                                                 *)
(*                                                                         *)
(* An effect keyed by the tab and a refresh counter lists one kind of      *)
(* Docker resource; a second one, on the builder tab, lists the cache      *)
(* records.  Re-running an effect cancels its previous request, whose      *)
(* answer may still arrive.  Deletions, prunes and measurements are        *)
(* requests of their own, single-flight per slice, and a successful one    *)
(* re-runs the effects.  Docker is shared with everybody else: resources   *)
(* change under the page.  The browser's back button changes the tab while *)
(* a modal dialog is open; every other click waits for the dialog.         *)
(***************************************************************************)
EXTENDS Naturals, FiniteSets

CONSTANTS
    Images, Dangling,          \* images; those without a tag
    Volumes, Records,          \* volumes; build cache records
    Networks, Predefined,      \* networks; those Docker owns
    Uncounted,                 \* those whose use the daemon does not count
    Volatile,                  \* resources others start or stop using
    Boot,                      \* what Docker may hold when the page is opened
    None,
    MaxFetches,                \* how often the effects run
    MaxClicks,                 \* operations the user confirms
    MaxMishaps                 \* changes made by others, and requests that fail

ASSUME AdminAssumption ==
    /\ Dangling \subseteq Images
    /\ Predefined \subseteq Networks
    /\ Networks \cap (Images \cup Volumes \cup Records) = {}
    /\ Volumes \cap (Images \cup Records) = {}
    /\ None \notin Images \cup Volumes \cup Networks \cup Records
    /\ MaxFetches \in Nat /\ MaxClicks \in Nat /\ MaxMishaps \in Nat
    /\ MaxFetches > MaxClicks
    /\ Volatile \subseteq Images \cup Volumes \cup Networks \cup Records
    /\ Uncounted \subseteq Images \cup Volumes
    /\ Boot \subseteq [Images \cup Volumes \cup Networks \cup Records -> {"used", "free"}]

VARIABLES
    docker,      \* what Docker holds: "used", "free" or "gone" per resource
    tab,         \* the tab of the route
    cur,         \* number of the newest run of the effects
    gets,        \* list requests in flight, cancelled ones included
    result, isLoading,             \* the list slice
    records, recordsLoading,       \* the builder's drill-down slice
    jobs,        \* deletions, prunes and measurements in flight
    deletingId, deletingNetworkId, pruning, measuring,   \* busy flags
    volumeUsage, \* the last measurement of the volumes
    dialog,      \* the confirmation on screen
    admin,       \* the signed-in user is an administrator
    removed,     \* history: what this page was told it removed
    calm,        \* history: no volume prune was confirmed during a measurement,
                 \* and no measurement failed
    left         \* what is left of the bounds

vars == <<docker, tab, cur, gets, result, isLoading, records, recordsLoading,
          jobs, deletingId, deletingNetworkId, pruning, measuring, volumeUsage,
          dialog, admin, removed, calm, left>>

world == <<docker, removed, calm>>
lists == <<cur, gets, result, isLoading, records, recordsLoading>>
flags == <<deletingId, deletingNetworkId, pruning, measuring>>

-----------------------------------------------------------------------------
Kinds == {"images", "volumes", "networks", "builder"}
Items == Images \cup Volumes \cup Networks \cup Records

Prunes == {"unused", "dangling", "builder", "volumes", "networks", "record"}
Scopes == Prunes \cup {"image", "network", "measure"}

OfKind(kind) == CASE kind = "images"   -> Images
                  [] kind = "volumes"  -> Volumes
                  [] kind = "networks" -> Networks
                  [] kind = "builder"  -> Records

\* A row of a list: the usage is "unknown" when the daemon did not count it.
Row == [item: Items, use: {"used", "free", "unknown"}]

\* What a slice shows: the rows, the request they answer, and Docker as it
\* was then (a history field).
Shown == [kind: Kinds \cup {None}, rows: SUBSET Row, n: Nat, was: SUBSET Items]
Nothing == [kind |-> None, rows |-> {}, n |-> 0, was |-> {}]

\* todo are the networks that are listed and not inspected yet.
Get == [n: Nat, kind: Kinds, slice: {"list", "records"},
        phase: {"sent", "listed", "served", "failed"}, todo: SUBSET Items,
        rows: SUBSET Row, was: SUBSET Items]

Job == [scope: Scopes, item: Items \cup {None}, phase: {"sent", "done", "failed"},
        hit: SUBSET Items, usage: Shown, rerun: BOOLEAN]

ASSUME NoneAssumption == None \notin Scopes \cup Kinds

Closed == [scope |-> None, item |-> None]

Bound == [fetches |-> MaxFetches, clicks |-> MaxClicks,
          mishaps |-> MaxMishaps]

Spend(kind) == left[kind] > 0 /\ left' = [left EXCEPT ![kind] = @ - 1]

TypeOK ==
    /\ docker \in [Items -> {"used", "free", "gone"}]
    /\ tab \in Kinds
    /\ cur \in 0..MaxFetches
    /\ gets \subseteq Get
    /\ result \in Shown /\ records \in Shown
    /\ isLoading \in BOOLEAN /\ recordsLoading \in BOOLEAN
    /\ jobs \subseteq Job
    /\ deletingId \in Images \cup {None}
    /\ deletingNetworkId \in Networks \cup {None}
    /\ pruning \in Prunes \cup {None}
    /\ measuring \in BOOLEAN
    /\ volumeUsage \in Shown
    /\ dialog \in [scope: Scopes, item: Items \cup {None}] \cup {Closed}
    /\ admin \in BOOLEAN
    /\ removed \subseteq Items
    /\ calm \in BOOLEAN
    /\ left \in [DOMAIN Bound -> Nat]

-----------------------------------------------------------------------------
(* Docker, as the requests of this page use it. *)

Holds(kind) == {x \in OfKind(kind): docker[x] # "gone"}

\* What the daemon removes: only what nothing uses at that moment, and never
\* a network of its own.
Removes(scope, item) ==
    LET free == {x \in Items: docker[x] = "free"} \ Predefined
    IN  CASE scope = "unused"   -> free \cap Images
          [] scope = "dangling" -> free \cap Dangling
          [] scope = "builder"  -> free \cap Records
          [] scope = "volumes"  -> free \cap Volumes
          [] scope = "networks" -> free \cap Networks
          [] OTHER              -> free \cap {item}

\* Somebody else creates or removes a container, and with it a use.
OthersChange ==
    /\ Spend("mishaps")
    /\ \E x \in Volatile, use \in {"used", "free"}:
          /\ docker[x] \notin {"gone", use}
          /\ docker' = [docker EXCEPT ![x] = use]
    /\ UNCHANGED <<tab, lists, jobs, flags, volumeUsage, dialog, admin, removed, calm>>

-----------------------------------------------------------------------------
(* The list effects. *)

Request(slice, kind, n) ==
    [n |-> n, kind |-> kind, slice |-> slice, phase |-> "sent", todo |-> {},
     rows |-> {}, was |-> {}]

Requests(kind, n) ==
    {Request("list", kind, n)}
        \cup (IF kind = "builder" THEN {Request("records", kind, n)} ELSE {})

\* Both effects run again, for tab t: what is shown stays until the answer.
RunEffects(t) ==
    /\ Spend("fetches")
    /\ tab' = t
    /\ cur' = cur + 1
    /\ gets' = gets \cup Requests(t, cur + 1)
    /\ isLoading' = TRUE
    /\ recordsLoading' = (recordsLoading \/ t = "builder")
    /\ UNCHANGED <<result, records>>

\* The bound keeps a run of the effects for every removal that may still end.
Room == left.fetches > left.clicks + Cardinality({j \in jobs: j.scope # "measure"})

SwitchTab ==
    /\ Room
    /\ \E t \in Kinds \ {tab}: RunEffects(t)
    /\ UNCHANGED <<world, jobs, flags, volumeUsage, dialog, admin>>

SyncNow ==
    /\ ~isLoading /\ dialog = Closed
    /\ Room
    /\ RunEffects(tab)
    /\ UNCHANGED <<world, jobs, flags, volumeUsage, dialog, admin>>

\* The rows the daemon reports for a kind, the uses of some not counted (-1),
\* and what is free at that moment.
Rows(kind, uncounted) ==
    {[item |-> x, use |-> IF x \in uncounted THEN "unknown" ELSE docker[x]] : x \in Holds(kind)}
FreeNow(kind) == {x \in Holds(kind) : docker[x] = "free"}

getsOnly == <<world, tab, cur, result, isLoading, records, recordsLoading,
              jobs, flags, volumeUsage, dialog, admin>>

\* ListImages, ListVolumes, which tells no uses at all, GetBuildCacheStats and
\* ListBuildCacheRecords: one call of the daemon.
GetServe(g) ==
    /\ g.phase = "sent" /\ g.kind # "networks"
    /\ LET uncounted == IF g.kind = "volumes" THEN Volumes ELSE Uncounted
       IN  gets' = (gets \ {g}) \cup
               {[g EXCEPT !.phase = "served", !.rows = Rows(g.kind, uncounted),
                          !.was = FreeNow(g.kind)]}
    /\ UNCHANGED <<getsOnly, left>>

\* ListNetworks lists the networks,
ListNetworks(g) ==
    /\ g.phase = "sent" /\ g.kind = "networks"
    /\ gets' = (gets \ {g}) \cup
           {[g EXCEPT !.phase = IF Holds("networks") = {} THEN "served" ELSE "listed",
                      !.todo = Holds("networks")]}
    /\ UNCHANGED <<getsOnly, left>>

\* and inspects one after the other: use is what an inspection tells.
Inspected(g, x, use) ==
    /\ g.phase = "listed"
    /\ gets' = (gets \ {g}) \cup
           {[g EXCEPT !.phase = IF g.todo = {x} THEN "served" ELSE "listed",
                      !.todo = @ \ {x},
                      !.rows = @ \cup {[item |-> x, use |-> use]},
                      !.was = @ \cup ({x} \cap FreeNow("networks"))]}
    /\ UNCHANGED getsOnly

\* A network that has gone since it was listed is of unknown use,
InspectNetwork(g, x) ==
    /\ Inspected(g, x, IF docker[x] = "gone" THEN "unknown" ELSE docker[x])
    /\ UNCHANGED left

\* and so is one whose inspection fails.
InspectFails(g, x) == Inspected(g, x, "unknown") /\ Spend("mishaps")

\* The failure of a cancelled request is dropped just as its answer is.
GetFail(g) ==
    /\ g.phase = "sent" /\ g.n = cur
    /\ Spend("mishaps")
    /\ gets' = (gets \ {g}) \cup {[g EXCEPT !.phase = "failed"]}
    /\ UNCHANGED getsOnly

\* Mutant: the cleanup of the effect does not cancel.
CancelledNever(g) == FALSE

\* The effect that sent the request was cleaned up since.
Cancelled(g) == g.n # cur

Answer(g) ==
    IF g.phase = "served" THEN [kind |-> g.kind, rows |-> g.rows, n |-> g.n, was |-> g.was]
                          ELSE Nothing

\* A table takes its open confirmation with it when it leaves the screen.
KeptDialog(kind) ==
    IF \/ dialog.scope = "image" /\ kind # "images"
       \/ dialog.scope = "network" /\ kind # "networks"
    THEN Closed ELSE dialog

GetLand(g) ==
    /\ g.phase \in {"served", "failed"}
    /\ gets' = gets \ {g}
    /\ LET list == g.slice = "list" /\ ~Cancelled(g)
           drill == g.slice = "records" /\ ~Cancelled(g)
       IN  /\ result' = IF list THEN Answer(g) ELSE result
           /\ isLoading' = (isLoading /\ ~list)
           /\ records' = IF drill THEN Answer(g) ELSE records
           /\ recordsLoading' = (recordsLoading /\ ~drill)
           /\ dialog' = KeptDialog(result'.kind)
    /\ UNCHANGED <<world, tab, cur, jobs, flags, volumeUsage, admin, left>>

-----------------------------------------------------------------------------
(* The buttons of the page and of its tables. *)

\* Mutant: an unknown usage counts as free.
FreeCountsUnknown(rows) == {r.item: r \in {q \in rows: q.use # "used"}}

Free(rows) == {r.item: r \in {q \in rows: q.use = "free"}}

\* The resources whose space, or names, a prune dialog promises to free: from the
\* list on screen, and for volumes from the last measurement.  (For the build
\* cache it also gives the number of all records, those in use included.)
Freeable(scope) ==
    CASE scope = "unused"   -> IF result.kind = "images" THEN Free(result.rows) ELSE {}
      [] scope = "dangling" -> IF result.kind = "images"
                               THEN Free(result.rows) \cap Dangling ELSE {}
      [] scope = "networks" -> IF result.kind = "networks"
                               THEN Free(result.rows) \ Predefined ELSE {}
      [] scope = "builder"  -> IF result.kind = "builder" THEN Free(result.rows) ELSE {}
      [] scope = "volumes"  -> Free(volumeUsage.rows)
      [] OTHER              -> {}

UnknownNetworkUsage ==
    result.kind = "networks" /\ \E r \in result.rows: r.use = "unknown"

Spinner == isLoading /\ result = Nothing

PruneOffers ==
    {scope \in {"unused", "dangling"}: tab = "images" /\ Freeable(scope) # {}}
    \cup {scope \in {"volumes"}: tab = "volumes"}
    \cup {scope \in {"networks"}:
             tab = "networks" /\ (Freeable(scope) # {} \/ UnknownNetworkUsage)}
    \cup {scope \in {"builder"}: tab = "builder" /\ ~Spinner /\ Freeable(scope) # {}}

ImageOffers ==
    {x \in Images: result.kind = "images" /\ x \in Free(result.rows) /\ deletingId = None}

NetworkOffers ==
    {x \in Networks: /\ result.kind = "networks"
                     /\ x \in Free(result.rows) \ Predefined
                     /\ deletingNetworkId = None}

RecordOffers ==
    {x \in Records: /\ tab = "builder" /\ ~Spinner /\ ~recordsLoading
                    /\ x \in Free(records.rows)}

Offers ==
    IF ~admin THEN {}
    ELSE [scope: {"image"}, item: ImageOffers]
         \cup [scope: {"network"}, item: NetworkOffers]
         \cup (IF pruning # None THEN {}
               ELSE [scope: PruneOffers, item: {None}]
                    \cup [scope: {"record"}, item: RecordOffers])

Arm ==
    /\ dialog = Closed
    /\ left.clicks > 0
    /\ dialog' \in Offers
    /\ UNCHANGED <<world, tab, lists, jobs, flags, volumeUsage, admin, left>>

\* The dialog is locked while its own request is in flight.
Locked ==
    \/ dialog.scope = "image" /\ deletingId = dialog.item
    \/ dialog.scope = "network" /\ deletingNetworkId = dialog.item
    \/ dialog.scope = "record" /\ pruning = "record"
    \/ dialog.scope \in Prunes \ {"record"} /\ pruning # None

Dismiss ==
    /\ dialog # Closed /\ ~Locked
    /\ dialog' = Closed
    /\ UNCHANGED <<world, tab, lists, jobs, flags, volumeUsage, admin, left>>

-----------------------------------------------------------------------------
(* Deletions, prunes and measurements. *)

Sent(scope, item, rerun) ==
    [scope |-> scope, item |-> item, phase |-> "sent", hit |-> {}, usage |-> Nothing,
     rerun |-> rerun]

\* The slice of a single deletion is free.
Idle(scope) == IF scope = "image" THEN deletingId = None ELSE deletingNetworkId = None

\* What the deletion of an item marks as being deleted, slice by slice.
Marks(scope, item) ==
    /\ deletingId' = IF scope = "image" THEN item ELSE deletingId
    /\ deletingNetworkId' = IF scope = "network" THEN item ELSE deletingNetworkId

\* deleteImage and deleteNetwork: the dialog stays until the request settles,
\* or closes at once when the slice is busy.
ConfirmDelete ==
    /\ dialog.scope \in {"image", "network"} /\ ~Locked
    /\ IF Idle(dialog.scope)
       THEN /\ jobs' = jobs \cup {Sent(dialog.scope, dialog.item, FALSE)}
            /\ Marks(dialog.scope, dialog.item)
            /\ UNCHANGED dialog
       ELSE /\ dialog' = Closed
            /\ UNCHANGED <<jobs, deletingId, deletingNetworkId>>
    /\ Spend("clicks")
    /\ UNCHANGED <<world, tab, lists, pruning, measuring, volumeUsage, admin>>

\* pruneVolumes keeps, from the render it was created in, whether sizes are known
\* and whether a measurement is running: they decide whether it measures again.
Remeasures(scope) == scope = "volumes" /\ volumeUsage # Nothing /\ ~measuring

\* Mutant: the sizes are not measured again after a prune.
ConfirmPruneOnly ==
    /\ dialog.scope \in Prunes /\ ~Locked
    /\ dialog' = Closed
    /\ pruning' = IF pruning = None THEN dialog.scope ELSE pruning
    /\ jobs' = jobs \cup
           (IF pruning = None THEN {Sent(dialog.scope, dialog.item, FALSE)} ELSE {})
    /\ calm' = (calm /\ ~(dialog.scope = "volumes" /\ measuring))
    /\ Spend("clicks")
    /\ UNCHANGED <<docker, removed, tab, lists, deletingId, deletingNetworkId, measuring,
                   volumeUsage, admin>>

\* The prunes share one single-flight flag.
ConfirmPrune ==
    /\ dialog.scope \in Prunes /\ ~Locked
    /\ dialog' = Closed
    /\ pruning' = IF pruning = None THEN dialog.scope ELSE pruning
    /\ jobs' = jobs \cup
           (IF pruning = None THEN {Sent(dialog.scope, dialog.item, Remeasures(dialog.scope))} ELSE {})
    /\ calm' = (calm /\ ~(dialog.scope = "volumes" /\ measuring))
    /\ Spend("clicks")
    /\ UNCHANGED <<docker, removed, tab, lists, deletingId, deletingNetworkId, measuring,
                   volumeUsage, admin>>

Measure ==
    /\ dialog = Closed
    /\ tab = "volumes" /\ ~measuring /\ pruning = None
    /\ measuring' = TRUE
    /\ jobs' = jobs \cup {Sent("measure", None, FALSE)}
    /\ Spend("clicks")
    /\ UNCHANGED <<world, tab, lists, deletingId, deletingNetworkId, pruning,
                   volumeUsage, dialog, admin>>

\* The daemon checks the use of every resource again and removes what it may;
\* the deletion of a single resource it refuses is an error.
JobServe(j) ==
    /\ j.phase = "sent" /\ j.scope # "measure"
    /\ LET hit == Removes(j.scope, j.item)
           refused == j.scope \in {"image", "network"} /\ hit = {}
       IN  /\ docker' = [x \in Items |-> IF x \in hit THEN "gone" ELSE docker[x]]
           /\ jobs' = (jobs \ {j}) \cup
                  {[j EXCEPT !.phase = IF refused THEN "failed" ELSE "done", !.hit = hit]}
    /\ UNCHANGED <<tab, lists, flags, volumeUsage, dialog, admin, removed, calm, left>>

\* GetVolumeUsage: the daemon reports every volume and who refers to it.
MeasureServe(j) ==
    /\ j.phase = "sent" /\ j.scope = "measure"
    /\ jobs' = (jobs \ {j}) \cup
           {[j EXCEPT !.phase = "done",
                      !.usage = [kind |-> "volumes", rows |-> Rows("volumes", Uncounted),
                                 n |-> 0, was |-> FreeNow("volumes")]]}
    /\ UNCHANGED <<world, tab, lists, flags, volumeUsage, dialog, admin, left>>

\* The request fails: before the daemon saw it, or after it did its work.
JobFail(j) ==
    /\ j.phase = "sent"
    /\ Spend("mishaps")
    /\ \E hit \in {{}, IF j.scope = "measure" THEN {} ELSE Removes(j.scope, j.item)}:
          docker' = [x \in Items |-> IF x \in hit THEN "gone" ELSE docker[x]]
    /\ jobs' = (jobs \ {j}) \cup {[j EXCEPT !.phase = "failed"]}
    /\ calm' = (calm /\ j.scope # "measure")
    /\ UNCHANGED <<tab, lists, flags, volumeUsage, dialog, admin, removed>>

\* Mutant: the finally block forgets the row marker.
ReleaseOnlyScopes(j) ==
    /\ deletingId' = IF j.scope = "image" THEN None ELSE deletingId
    /\ deletingNetworkId' = IF j.scope = "network" THEN None ELSE deletingNetworkId
    /\ pruning' = IF j.scope \in Prunes \ {"record"} THEN None ELSE pruning
    /\ dialog' = IF j.scope \in {"image", "network"} /\ dialog.scope = j.scope
                 THEN Closed ELSE dialog

\* What a settled request no longer keeps busy; the dialog of a deletion closes.
Release(j) ==
    /\ deletingId' = IF j.scope = "image" THEN None ELSE deletingId
    /\ deletingNetworkId' = IF j.scope = "network" THEN None ELSE deletingNetworkId
    /\ pruning' = IF j.scope \in Prunes THEN None ELSE pruning
    /\ dialog' = IF j.scope \in {"image", "network"} /\ dialog.scope = j.scope
                 THEN Closed ELSE dialog

\* Mutant: the flag is not released after an error.
JobErrorStuck(j) ==
    /\ j.phase = "failed"
    /\ jobs' = jobs \ {j}
    /\ measuring' = (measuring /\ j.scope # "measure")
    /\ UNCHANGED <<world, tab, lists, deletingId, deletingNetworkId, pruning, dialog,
                   volumeUsage, admin, left>>

JobError(j) ==
    /\ j.phase = "failed"
    /\ jobs' = jobs \ {j}
    /\ Release(j)
    /\ measuring' = (measuring /\ j.scope # "measure")
    /\ UNCHANGED <<world, tab, lists, volumeUsage, admin, left>>

\* Mutant: the lists are not loaded again after a removal.
RemovedNoRefresh(j) ==
    /\ j.phase = "done" /\ j.scope # "measure"
    /\ removed' = removed \cup j.hit
    /\ jobs' = (jobs \ {j}) \cup {Sent("measure", None, FALSE): r \in {j.rerun} \cap {TRUE}}
    /\ measuring' = (measuring \/ j.rerun)
    /\ Release(j)
    /\ UNCHANGED <<docker, calm, tab, lists, volumeUsage, admin, left>>

\* A removal succeeded: the list effects run again, and pruneVolumes starts
\* the measurement its closure asks for.
Removed(j) ==
    /\ j.phase = "done" /\ j.scope # "measure"
    /\ removed' = removed \cup j.hit
    /\ jobs' = (jobs \ {j}) \cup {Sent("measure", None, FALSE): r \in {j.rerun} \cap {TRUE}}
    /\ measuring' = (measuring \/ j.rerun)
    /\ Release(j)
    /\ RunEffects(tab)
    /\ UNCHANGED <<docker, calm, volumeUsage, admin>>

Measured(j) ==
    /\ j.phase = "done" /\ j.scope = "measure"
    /\ volumeUsage' = j.usage
    /\ jobs' = jobs \ {j}
    /\ Release(j)
    /\ measuring' = FALSE
    /\ UNCHANGED <<world, tab, lists, admin, left>>

-----------------------------------------------------------------------------
Init ==
    /\ docker \in Boot
    /\ tab = "images"
    /\ cur = 1
    /\ gets = Requests(tab, 1)
    /\ result = Nothing /\ isLoading = TRUE
    /\ records = Nothing /\ recordsLoading = (tab = "builder")
    /\ jobs = {}
    /\ deletingId = None /\ deletingNetworkId = None
    /\ pruning = None /\ measuring = FALSE
    /\ volumeUsage = Nothing
    /\ dialog = Closed
    /\ admin \in BOOLEAN
    /\ removed = {}
    /\ calm = TRUE
    /\ left = [Bound EXCEPT !.fetches = @ - 1]

GetStep(g) == GetServe(g) \/ ListNetworks(g) \/ (\E x \in g.todo: InspectNetwork(g, x))

GetMishap(g) == GetFail(g) \/ (\E x \in g.todo: InspectFails(g, x))

ListStep == SwitchTab \/ SyncNow \/ \E g \in gets: GetStep(g) \/ GetMishap(g) \/ GetLand(g)

UserStep == Arm \/ Dismiss \/ ConfirmDelete \/ ConfirmPrune \/ Measure

JobStep == \E j \in jobs: \/ JobServe(j) \/ MeasureServe(j) \/ JobFail(j)
                          \/ JobError(j) \/ Removed(j) \/ Measured(j)

Next == OthersChange \/ ListStep \/ UserStep \/ JobStep

\* Every request is answered, and the answer is handled.
Answers ==
    \/ \E g \in gets: GetStep(g) \/ GetLand(g)
    \/ \E j \in jobs: JobServe(j) \/ MeasureServe(j) \/ JobError(j) \/ Removed(j) \/ Measured(j)

Fairness == WF_vars(Answers)

Spec == Init /\ [][Next]_vars /\ Fairness

-----------------------------------------------------------------------------
(* Properties. *)

\* Once loading is over the page shows the tab it is on, or nothing: an
\* answer for a tab the user left is dropped by the effect's cancelled flag
\* (useAdminResources.ts:62-101).
LoadedMatchesTab == ~isLoading => result.kind \in {tab, None}

\* Whatever this page was told it removed is not offered again once the lists
\* are loaded: every successful removal lists anew, and a list the daemon
\* served before the removal is not shown after it.
RemovedNotListed ==
    /\ ~isLoading => {r.item: r \in result.rows} \cap removed = {}
    /\ tab = "builder" /\ ~recordsLoading => {r.item: r \in records.rows} \cap removed = {}

\* One request per slice, and the slice's busy flag is set exactly while it
\* runs: the shared prune flag, the two deletion slices and the measurement.
OneAtATime ==
    LET of(S) == {j \in jobs: j.scope \in S}
    IN  /\ Cardinality(of(Prunes)) = (IF pruning = None THEN 0 ELSE 1)
        /\ Cardinality(of({"image"})) = (IF deletingId = None THEN 0 ELSE 1)
        /\ Cardinality(of({"network"})) = (IF deletingNetworkId = None THEN 0 ELSE 1)
        /\ Cardinality(of({"measure"})) = (IF measuring THEN 1 ELSE 0)

\* What was free when the daemon reported it.
FreeThen(scope) == IF scope = "volumes" THEN volumeUsage.was ELSE result.was

\* A prune dialog never overstates what it would free: every resource behind
\* "reclaiming up to" or a name was free when the daemon served the list or
\* measured the volumes, and is none Docker owns; one whose use was not counted
\* is left out ("treated as in use so freeable never overstates",
\* adminFormat.ts:91).
NeverOverstates == \A scope \in Prunes: Freeable(scope) \subseteq FreeThen(scope) \ Predefined

\* "when sizes were previously calculated, the measurement re-runs automatically"
\* (useAdminResources.ts, pruneVolumes): after a prune the sizes on screen, and
\* with them the next dialog, are not of volumes that are gone.  A measurement
\* that was running when the prune was confirmed, or that failed, is excepted:
\* the prune of that render does not measure again.
RemovedNotMeasured ==
    calm /\ ~measuring => {r.item: r \in volumeUsage.rows} \cap removed = {}

\* The page does not load for ever and no dialog stays locked: each request
\* settles, its finally block runs, and the lists it asks for arrive.
Settles == (isLoading \/ Locked) ~> (~isLoading /\ ~Locked)

ListSlice == INSTANCE LatestWins WITH issued <- cur, shown <- result.n

\* Whatever the order of the answers, the list slice only ever turns to the
\* answer of its newest request (useAdminResources.ts:61, the cancelled flag).
NewestListOnly == ListSlice!Spec
=============================================================================
