---------------------------- MODULE EventMonitor ----------------------------
(***************************************************************************)
(* The containers table as a cache of the Docker host.                     *)
(*                                                                         *)
(* serve lists the host once at startup and upserts what it finds          *)
(* (internal/container/sync.go), then one goroutine follows the Docker     *)
(* event stream and inspects or deletes the container each event names     *)
(* (internal/docker/monitor.go), telling the stream broker through the     *)
(* callback of cmd/serve.go after every write.                             *)
(*                                                                         *)
(* Every SQL statement and every Docker call is one atomic step: the       *)
(* database has a single connection and no transaction spans statements.   *)
(* The Docker host is external; other clients of it (the docker CLI, a     *)
(* crashing process, restart policies) are the External actions.           *)
(***************************************************************************)
EXTENDS Naturals, Sequences, FiniteSets

CONSTANTS
    Ids,          \* container ids; Docker never reuses one
    Names,        \* container names, unique among live containers
    Images,       \* image ids
    None,         \* no container / no row
    BootHost,     \* containers that may exist when serve first boots
    BootRows,     \* rows an earlier run may have left in the table
    MaxExternal,  \* bound: operations of other Docker clients
    FaultKinds,   \* which faults may happen: "stream", "inspect", "db", "crash"
    MaxFaults     \* bound: how many faults may happen

VARIABLES
    host,    \* the containers on the Docker host
    used,    \* ids that were given to a container so far
    table,   \* the containers table
    sync,    \* the startup synchronisation; pc = "up" once serve runs
    conn,    \* the event stream is subscribed
    events,  \* events the monitor has not read yet
    mon,     \* the monitor goroutine inside handleEvent
    feed,    \* what a subscriber that misses no message believes
    unseen,  \* history: ids with a host change the table was not told of
    ext,     \* external operations left
    faults   \* faults left

vars == <<host, used, table, sync, conn, events, mon, feed, unseen, ext, faults>>

Statuses == {"created", "running", "paused", "exited"}
Container == [name : Names, image : Images, status : Statuses]
Row == [name : Names, image : Images, status : Statuses,
        auto : BOOLEAN, avail : BOOLEAN]

EventKinds ==
    {"create", "start", "die", "stop", "destroy", "rename", "pause", "unpause"}
Event == [kind : EventKinds, id : Ids]
MonitorPCs == {"idle", "delete", "deleted", "inspect", "upsert", "read", "publish"}
SyncPCs == {"down", "upsert", "up"}

ASSUME NoneAssumption == None \notin Container /\ None \notin Row /\ None \notin Ids
ASSUME BootAssumption == BootHost \subseteq Container /\ BootRows \subseteq Row
ASSUME BoundAssumption == MaxExternal \in Nat /\ MaxFaults \in Nat

IdleMonitor == [pc |-> "idle", id |-> None, insp |-> None, row |-> None]

-----------------------------------------------------------------------------
(* The statements of internal/db/queries/containers.sql the cache uses.      *)

\* A status column that the conflict clause forgets to overwrite.
UpsertedKeepsStatus(row, c) ==
    [name |-> c.name, image |-> c.image,
     status |-> IF row = None THEN c.status ELSE row.status,
     auto  |-> IF row = None THEN FALSE ELSE row.auto,
     avail |-> IF row = None THEN FALSE ELSE row.avail]

\* An upsert that writes every column, as SaveContainer does.
UpsertedResetsFlags(row, c) ==
    [name |-> c.name, image |-> c.image, status |-> c.status,
     auto |-> FALSE, avail |-> FALSE]

\* UpsertContainerFromEvent: what is observed on the host is overwritten, the
\* flags of an existing row stay and those of a new row are the defaults.
Upserted(row, c) ==
    [name |-> c.name, image |-> c.image, status |-> c.status,
     auto  |-> IF row = None THEN FALSE ELSE row.auto,
     avail |-> IF row = None THEN FALSE ELSE row.avail]

\* DeleteOrphanContainers: with an empty list the generated query compares with
\* NULL, which no row satisfies, so nothing is deleted.
WithoutOrphans(rows, listed) ==
    IF listed = {} THEN rows
    ELSE [i \in Ids |-> IF i \in listed THEN rows[i] ELSE None]

-----------------------------------------------------------------------------
(* The Docker host.                                                          *)

Live == {i \in Ids : host[i] # None}
NameTaken(n) == \E i \in Live : host[i].name = n

\* The container events that must reach the table.
PromisedKinds == {"create", "start", "stop", "destroy", "die"}

\* A host change is announced to the subscribed stream; a change that is not
\* announced, or whose event the monitor ignores, is noted in unseen.
Emit(kind, i) ==
    /\ events' = IF conn THEN Append(events, [kind |-> kind, id |-> i]) ELSE events
    /\ unseen' = IF conn /\ kind \in PromisedKinds THEN unseen ELSE unseen \cup {i}

HostCreate(i, c) ==
    /\ i \notin used
    /\ ~NameTaken(c.name)
    /\ host' = [host EXCEPT ![i] = c]
    /\ used' = used \cup {i}
    /\ Emit("create", i)

HostSetStatus(i, kind, status) ==
    /\ host' = [host EXCEPT ![i].status = status]
    /\ used' = used
    /\ Emit(kind, i)

HostRemove(i) ==
    /\ host[i] # None
    /\ host' = [host EXCEPT ![i] = None]
    /\ used' = used
    /\ Emit("destroy", i)

External ==
    /\ ext > 0
    /\ ext' = ext - 1
    /\ UNCHANGED <<table, sync, conn, mon, feed, faults>>

ExternalCreate(i) ==
    /\ External
    /\ \E n \in Names, m \in Images :
         HostCreate(i, [name |-> n, image |-> m, status |-> "created"])

ExternalStart(i) ==
    /\ External
    /\ host[i] # None
    /\ host[i].status \in {"created", "exited"}
    /\ HostSetStatus(i, "start", "running")

\* The main process ends, by itself or by a docker stop.
ExternalDie(i) ==
    /\ External
    /\ host[i] # None
    /\ host[i].status = "running"
    /\ HostSetStatus(i, "die", "exited")

ExternalPause(i) ==
    /\ External
    /\ host[i] # None
    /\ \/ host[i].status = "running" /\ HostSetStatus(i, "pause", "paused")
       \/ host[i].status = "paused" /\ HostSetStatus(i, "unpause", "running")

ExternalRename(i) ==
    /\ External
    /\ host[i] # None
    /\ \E n \in Names : /\ ~NameTaken(n)
                        /\ host' = [host EXCEPT ![i].name = n]
    /\ used' = used
    /\ Emit("rename", i)

ExternalRemove(i) ==
    /\ External
    /\ HostRemove(i)

-----------------------------------------------------------------------------
(* Startup: SyncContainers, called by serve before anything else runs.       *)

SyncList ==
    /\ sync.pc = "down"
    /\ sync' = [pc |-> "upsert", snap |-> host, todo |-> Live]
    /\ unseen' = {}
    /\ UNCHANGED <<host, used, table, conn, events, mon, feed, ext, faults>>

SyncUpsert(i) ==
    /\ sync.pc = "upsert"
    /\ i \in sync.todo
    /\ table' = [table EXCEPT ![i] = Upserted(@, sync.snap[i])]
    /\ sync' = [sync EXCEPT !.todo = @ \ {i}]
    /\ UNCHANGED <<host, used, conn, events, mon, feed, unseen, ext, faults>>

Listed == {i \in Ids : sync.snap[i] # None}

\* The orphan deletion ends the synchronisation and the server comes up; a
\* subscriber that arrives now reads the table as it is.
SyncOrphans ==
    /\ sync.pc = "upsert"
    /\ sync.todo = {}
    /\ table' = WithoutOrphans(table, Listed)
    /\ feed' = table'
    /\ unseen' = IF Listed = {} THEN unseen \cup {i \in Ids : table[i] # None}
                 ELSE unseen
    /\ sync' = [sync EXCEPT !.pc = "up"]
    /\ UNCHANGED <<host, used, conn, events, mon, ext, faults>>

-----------------------------------------------------------------------------
(* The monitor goroutine: StartEventMonitor and handleEvent.                 *)

\* The first subscription and every later one: no event from before it is
\* asked for and the host is not listed again.
Subscribe ==
    /\ sync.pc = "up"
    /\ ~conn
    /\ mon.pc = "idle"
    /\ conn' = TRUE
    /\ UNCHANGED <<host, used, table, sync, events, mon, feed, unseen, ext, faults>>

\* A die event that the list of actions forgets.
ChangeActionsWithoutDie == {"create", "start", "stop", "update"}

ChangeActions == {"create", "start", "stop", "die", "update"}
DeleteActions == {"destroy", "delete"}

\* Reading an event enters handleEvent; actions of neither list return at once.
MonitorTake ==
    /\ sync.pc = "up"
    /\ conn
    /\ mon.pc = "idle"
    /\ events # <<>>
    /\ LET e == Head(events)
       IN  mon' = IF e.kind \in DeleteActions
                    THEN [IdleMonitor EXCEPT !.pc = "delete", !.id = e.id]
                  ELSE IF e.kind \in ChangeActions
                    THEN [IdleMonitor EXCEPT !.pc = "inspect", !.id = e.id]
                  ELSE IdleMonitor
    /\ events' = Tail(events)
    /\ UNCHANGED <<host, used, table, sync, conn, feed, unseen, ext, faults>>

MonitorDelete ==
    /\ mon.pc = "delete"
    /\ table' = [table EXCEPT ![mon.id] = None]
    /\ unseen' = unseen \ {mon.id}
    /\ mon' = [mon EXCEPT !.pc = "deleted"]
    /\ UNCHANGED <<host, used, sync, conn, events, feed, ext, faults>>

\* onEvent("delete"): the broker is told without another look at the table.
MonitorPublishDelete ==
    /\ mon.pc = "deleted"
    /\ feed' = [feed EXCEPT ![mon.id] = None]
    /\ mon' = IdleMonitor
    /\ UNCHANGED <<host, used, table, sync, conn, events, unseen, ext, faults>>

\* ContainerInspect; a container that is gone ends the handler.
MonitorInspect ==
    /\ mon.pc = "inspect"
    /\ mon' = IF host[mon.id] = None THEN IdleMonitor
              ELSE [mon EXCEPT !.pc = "upsert", !.insp = host[mon.id]]
    /\ unseen' = IF host[mon.id] = None THEN unseen ELSE unseen \ {mon.id}
    /\ UNCHANGED <<host, used, table, sync, conn, events, feed, ext, faults>>

MonitorUpsert ==
    /\ mon.pc = "upsert"
    /\ table' = [table EXCEPT ![mon.id] = Upserted(@, mon.insp)]
    /\ mon' = [mon EXCEPT !.pc = "read", !.insp = None]
    /\ UNCHANGED <<host, used, sync, conn, events, feed, unseen, ext, faults>>

\* onEvent("save"): the callback reads the row back before it publishes it.
MonitorRead ==
    /\ mon.pc = "read"
    /\ mon' = IF table[mon.id] = None THEN IdleMonitor
              ELSE [mon EXCEPT !.pc = "publish", !.row = table[mon.id]]
    /\ UNCHANGED <<host, used, table, sync, conn, events, feed, unseen, ext, faults>>

\* A callback that forgets to publish.
MonitorPublishNothing ==
    /\ mon.pc = "publish"
    /\ mon' = IdleMonitor
    /\ UNCHANGED <<host, used, table, sync, conn, events, feed, unseen, ext, faults>>

MonitorPublish ==
    /\ mon.pc = "publish"
    /\ feed' = [feed EXCEPT ![mon.id] = mon.row]
    /\ mon' = IdleMonitor
    /\ UNCHANGED <<host, used, table, sync, conn, events, unseen, ext, faults>>

-----------------------------------------------------------------------------
(* Faults.                                                                   *)

Fault(kind) ==
    /\ kind \in FaultKinds
    /\ faults > 0
    /\ faults' = faults - 1
    /\ UNCHANGED <<host, used, ext>>

\* The stream ends with an error: events still in flight are lost.
StreamError ==
    /\ Fault("stream")
    /\ conn
    /\ conn' = FALSE
    /\ events' = <<>>
    /\ unseen' = unseen \cup {events[k].id : k \in 1..Len(events)}
    /\ UNCHANGED <<table, sync, mon, feed>>

\* A failed inspect or write is logged and the event is dropped.
MonitorError ==
    /\ \/ Fault("inspect") /\ mon.pc = "inspect"
       \/ Fault("db") /\ mon.pc \in {"delete", "upsert"}
    /\ unseen' = unseen \cup {mon.id}
    /\ mon' = IdleMonitor
    /\ UNCHANGED <<table, sync, conn, events, feed>>

\* The row of a save event cannot be read back: nothing is published.
MonitorReadError ==
    /\ Fault("db")
    /\ mon.pc = "read"
    /\ mon' = IdleMonitor
    /\ UNCHANGED <<table, sync, conn, events, feed, unseen>>

\* The process ends, at any point of startup included; a supervisor starts it
\* again. Only the table survives.
Crash ==
    /\ Fault("crash")
    /\ sync.pc # "down"
    /\ sync' = [pc |-> "down", snap |-> [i \in Ids |-> None], todo |-> {}]
    /\ conn' = FALSE
    /\ events' = <<>>
    /\ mon' = IdleMonitor
    /\ unseen' = Ids
    /\ UNCHANGED <<table, feed>>

-----------------------------------------------------------------------------
\* A first or a later boot: containers exist on the host, and the table may
\* hold rows of an earlier run, for containers that are gone as well.
Init ==
    /\ used \in SUBSET Ids
    /\ host \in [Ids -> BootHost \cup {None}]
    /\ \A i \in Ids : host[i] # None => i \in used
    /\ \A i, j \in Live : host[i].name = host[j].name => i = j
    /\ table \in [Ids -> BootRows \cup {None}]
    /\ \A i \in Ids : table[i] # None => i \in used
    /\ sync = [pc |-> "down", snap |-> [i \in Ids |-> None], todo |-> {}]
    /\ conn = FALSE
    /\ events = <<>>
    /\ mon = IdleMonitor
    /\ feed = table
    /\ unseen = Ids
    /\ ext = MaxExternal
    /\ faults = MaxFaults

ExternalStep(i) ==
    \/ ExternalCreate(i)
    \/ ExternalStart(i)
    \/ ExternalDie(i)
    \/ ExternalPause(i)
    \/ ExternalRename(i)
    \/ ExternalRemove(i)

SyncStep ==
    \/ SyncList
    \/ \E i \in Ids : SyncUpsert(i)
    \/ SyncOrphans

MonitorStep ==
    \/ Subscribe
    \/ MonitorTake
    \/ MonitorDelete
    \/ MonitorPublishDelete
    \/ MonitorInspect
    \/ MonitorUpsert
    \/ MonitorRead
    \/ MonitorPublish

FaultStep ==
    \/ StreamError
    \/ MonitorError
    \/ MonitorReadError
    \/ Crash

Next ==
    \/ \E i \in Ids : ExternalStep(i)
    \/ SyncStep
    \/ MonitorStep
    \/ FaultStep

Spec == Init /\ [][Next]_vars

\* The goroutine and the startup code keep running; the host owes nothing.
FairSpec == Spec /\ WF_vars(SyncStep) /\ WF_vars(MonitorStep)

-----------------------------------------------------------------------------
(* Properties.                                                               *)

TypeOK ==
    /\ host \in [Ids -> Container \cup {None}]
    /\ used \in SUBSET Ids
    /\ table \in [Ids -> Row \cup {None}]
    /\ sync \in [pc : SyncPCs, snap : [Ids -> Container \cup {None}], todo : SUBSET Ids]
    /\ conn \in BOOLEAN
    /\ events \in Seq(Event)
    /\ mon \in [pc : MonitorPCs, id : Ids \cup {None},
                insp : Container \cup {None}, row : Row \cup {None}]
    /\ feed \in [Ids -> Row \cup {None}]
    /\ unseen \in SUBSET Ids
    /\ ext \in 0..MaxExternal
    /\ faults \in 0..MaxFaults

\* The row of i says what the host says.
Agree(i) ==
    IF host[i] = None THEN table[i] = None
    ELSE /\ table[i] # None
         /\ table[i].name = host[i].name
         /\ table[i].image = host[i].image
         /\ table[i].status = host[i].status

Quiet == sync.pc = "up" /\ conn /\ events = <<>> /\ mon.pc = "idle"

\* Once the monitor has nothing left to do, the table agrees with the host on
\* every container except those whose last change was never delivered: a change
\* made while no stream was subscribed, events lost with a stream, an event
\* whose handling failed, a pause or rename (handleEvent ignores them), and
\* rows an empty startup listing left behind.
CacheAgrees == Quiet => \A i \in Ids \ unseen : Agree(i)

\* Subscribers are told of every write of the monitor: once it is idle, what
\* they were last told of a container is its row, unless a read-back failed.
FeedAgrees == Quiet /\ faults = MaxFaults => feed = table

\* Neither the startup upserts and orphan deletion nor the monitor ever loses
\* the auto_update and update_available flags of a container that still exists.
FlagsSurvive ==
    [][\A i \in Ids : table[i] # None /\ host[i] # None =>
         /\ table'[i] # None
         /\ table'[i].auto = table[i].auto
         /\ table'[i].avail = table[i].avail]_vars

\* The table catches up for good with every delivered change: no event is left
\* behind when the host stops changing (the bound on external operations).
CatchesUp == <>[](sync.pc = "up" /\ \A i \in Ids \ unseen : Agree(i))

\* sync.go:42 "Delete orphan containers that no longer exist on the host": when
\* the synchronisation ends, no row names a container the listing did not have.
NoOrphansAfterSync ==
    [][sync.pc = "upsert" /\ sync'.pc = "up" =>
         \A i \in Ids : sync.snap[i] = None => table'[i] = None]_vars

\* docs/requirements.md:16 "must automatically discover all Docker containers
\* existing on the host machine": an idle monitor has a row for each of them.
AllDiscovered == Quiet => \A i \in Live : table[i] # None
=============================================================================
