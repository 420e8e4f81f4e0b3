---------------------------- MODULE ContainerOps ----------------------------
(***************************************************************************)
(* The container operations of the API and the update scheduler, running   *)
(* beside the event monitor on the same Docker host and the same table     *)
(* (internal/container: actions.go, upgrade.go, scheduler.go).             *)
(*                                                                         *)
(* A worker is a request's goroutine or the scheduler's. Every call it     *)
(* makes of the database, of Docker or of the broker is one step, so calls *)
(* of several workers and of the monitor interleave between any two; no    *)
(* lock or transaction of the code spans two calls.                        *)
(*                                                                         *)
(* All containers run the same image reference. An image is its version:   *)
(* the registry's tag moves to higher ones, and two digests are equal when *)
(* the versions are.                                                       *)
(***************************************************************************)
EXTENDS EventMonitor

CONSTANTS
    Users,      \* goroutines that serve API requests
    Scheduler,  \* the scheduler's goroutine
    Ops,        \* the requests users make
    MaxReqs,    \* bound: requests
    MaxTicks    \* bound: scheduler ticks

VARIABLES
    task,      \* what each worker is doing
    agenda,    \* rows the scheduler listed at its tick and has yet to handle
    registry,  \* version the registry has for the tag
    tagged,    \* version the host's copy of the tag has
    wanted,    \* history: auto_update as last set, by id, carried to a successor
    reqs,      \* requests left
    ticks      \* ticks left

opVars == <<task, agenda, registry, tagged, wanted, reqs, ticks>>
monVars == <<sync, conn, mon, ext>>
allVars == <<vars, opVars>>

Workers == Users \cup {Scheduler}
OpKinds == {"start", "stop", "set", "check", "upgrade"}

ASSUME WorkerAssumption == Scheduler \notin Users
ASSUME VersionAssumption == Images \subseteq Nat
ASSUME OpsAssumption == Ops \subseteq OpKinds /\ MaxReqs \in Nat /\ MaxTicks \in Nat

\* An idle goroutine: a request's ends, the scheduler's takes its next record.
Free == [op |-> "none", pc |-> "free", id |-> None, row |-> None, seen |-> None,
         img |-> None, new |-> None, flag |-> FALSE, auto |-> FALSE]

-----------------------------------------------------------------------------
(* Steps of a worker.                                                        *)

At(w, pc) == task[w].pc = pc
Become(w, t) == task' = [task EXCEPT ![w] = t]
Goto(w, pc) == Become(w, [task[w] EXCEPT !.pc = pc])
Finish(w) == Become(w, Free)

\* What a step changes besides the worker's own state: nothing, the table, the
\* host, what subscribers know, or the faults left.
OnlyFault == UNCHANGED <<table, events, feed, unseen, tagged>>
OnlyTask == UNCHANGED <<host, used, table, events, feed, unseen, faults, tagged>>
OnlyTable == UNCHANGED <<host, used, events, feed, unseen, faults, tagged>>
OnlyHost == UNCHANGED <<table, feed, faults, tagged>>
OnlyFeed == UNCHANGED <<host, used, table, events, unseen, faults, tagged>>

\* A call that answers with an error when the container is not on the host.
NotFound(w, i) == host[i] = None /\ Finish(w) /\ OnlyTask

\* ContainerStart: a running container is left as it is, a paused one refused.
DockerStart(w, i, pc) ==
    \/ NotFound(w, i)
    \/ /\ host[i] # None /\ host[i].status = "paused"
       /\ Finish(w) /\ OnlyTask
    \/ /\ host[i] # None /\ host[i].status = "running"
       /\ Goto(w, pc) /\ OnlyTask
    \/ /\ host[i] # None /\ host[i].status \in {"created", "exited"}
       /\ HostSetStatus(i, "start", "running")
       /\ Goto(w, pc) /\ OnlyHost

DockerStop(w, i, pc) ==
    \/ NotFound(w, i)
    \/ /\ host[i] # None /\ host[i].status \in {"created", "exited"}
       /\ Goto(w, pc) /\ OnlyTask
    \/ /\ host[i] # None /\ host[i].status \in {"running", "paused"}
       /\ HostSetStatus(i, "stop", "exited")
       /\ Goto(w, pc) /\ OnlyHost

-----------------------------------------------------------------------------
(* GetContainer, the first step of every operation.                          *)

Get(w) ==
    /\ At(w, "get")
    /\ LET t == task[w] row == table[task[w].id]
       IN  IF row = None THEN Finish(w)
           ELSE Become(w, [t EXCEPT !.row = row,
                  !.pc = CASE t.op \in {"start", "stop"} -> "before"
                           [] t.op = "set" -> "set"
                           [] t.op = "check" -> "look"
                           [] t.op = "upgrade" -> "inspect"])
    /\ OnlyTask

\* The last two steps: the row is read back and what was read is published.
ReadBack(w) ==
    /\ At(w, "read")
    /\ \/ /\ table[task[w].id] # None
          /\ Become(w, [task[w] EXCEPT !.pc = "publish", !.row = table[task[w].id]])
          /\ OnlyTask
       \/ table[task[w].id] = None /\ Goto(w, "end") /\ OnlyTask
       \/ Fault("call") /\ Goto(w, "end") /\ OnlyFault

Publish(w) ==
    /\ At(w, "publish")
    /\ feed' = [feed EXCEPT ![task[w].id] = task[w].row]
    /\ Goto(w, "end")
    /\ OnlyFeed

\* The scheduler follows a check that found an update with an upgrade, when the
\* row it listed at its tick has automatic updates enabled.
EndOfOperation(w) ==
    /\ At(w, "end")
    /\ LET t == task[w]
       IN  IF t.op = "check" /\ t.auto /\ t.flag
           THEN Become(w, [Free EXCEPT !.op = "upgrade", !.pc = "get", !.id = t.id])
           ELSE Finish(w)
    /\ OnlyTask

-----------------------------------------------------------------------------
(* StartContainer and StopContainer.                                         *)

InspectBefore(w) ==
    /\ At(w, "before")
    /\ \/ NotFound(w, task[w].id)
       \/ host[task[w].id] # None /\ Goto(w, "act") /\ OnlyTask

Act(w) ==
    /\ At(w, "act")
    /\ \/ task[w].op = "start" /\ DockerStart(w, task[w].id, "after")
       \/ task[w].op = "stop" /\ DockerStop(w, task[w].id, "after")

InspectAfter(w) ==
    /\ At(w, "after")
    /\ \/ NotFound(w, task[w].id)
       \/ /\ host[task[w].id] # None
          /\ Become(w, [task[w] EXCEPT !.pc = "save", !.seen = host[task[w].id]])
          /\ OnlyTask

\* SaveContainer writes every column: the state just inspected and, for the
\* others, the row read at the start. A row deleted since is inserted again.
Save(w) ==
    /\ At(w, "save")
    /\ LET t == task[w]
       IN  table' = [table EXCEPT ![t.id] = [t.row EXCEPT !.status = t.seen.status]]
    /\ Goto(w, "read")
    /\ OnlyTable

-----------------------------------------------------------------------------
(* SetContainerAutoUpdate and the update check: an UPDATE of a few columns,  *)
(* which does nothing when the row is gone.                                  *)

\* A toggle that saves the whole row it read, as a start or a stop does.
SetAutoSaves(w) ==
    /\ At(w, "set")
    /\ table' = [table EXCEPT ![task[w].id] = [task[w].row EXCEPT !.auto = task[w].flag]]
    /\ Goto(w, "read")
    /\ OnlyTable

SetAuto(w) ==
    /\ At(w, "set")
    /\ LET t == task[w]
       IN  table' = IF table[t.id] = None THEN table
                    ELSE [table EXCEPT ![t.id].auto = t.flag]
    /\ Goto(w, "read")
    /\ OnlyTable

\* The image comes from the host when the container can be inspected there, else
\* from the row.
Look(w) ==
    /\ At(w, "look")
    /\ LET t == task[w]
       IN  \/ /\ host[t.id] # None
              /\ Become(w, [t EXCEPT !.pc = "registry", !.img = host[t.id].image])
              /\ OnlyTask
           \/ /\ Become(w, [t EXCEPT !.pc = "registry", !.img = t.row.image])
              /\ \/ host[t.id] = None /\ OnlyTask
                 \/ Fault("call") /\ OnlyFault

\* DistributionInspect, and isUpdateAvailable on the local image's digests; an
\* image that cannot be inspected has none, and differs.
AskRegistry(w) ==
    /\ At(w, "registry")
    /\ \/ /\ Become(w, [task[w] EXCEPT !.pc = "record", !.flag = task[w].img # registry])
          /\ OnlyTask
       \/ /\ Fault("image")
          /\ Become(w, [task[w] EXCEPT !.pc = "record", !.flag = TRUE])
          /\ OnlyFault

\* A check that saves the whole row it read at its start.
RecordSaves(w) ==
    /\ At(w, "record")
    /\ LET t == task[w]
       IN  table' = IF table[t.id] = None THEN table
                    ELSE [table EXCEPT ![t.id] = [t.row EXCEPT !.avail = t.flag]]
    /\ Goto(w, "read")
    /\ OnlyTable

Record(w) ==
    /\ At(w, "record")
    /\ LET t == task[w]
       IN  table' = IF table[t.id] = None THEN table
                    ELSE [table EXCEPT ![t.id].avail = t.flag]
    /\ Goto(w, "read")
    /\ OnlyTable

-----------------------------------------------------------------------------
(* upgradeContainerInternal.                                                 *)

Inspect(w) ==
    /\ At(w, "inspect")
    /\ \/ NotFound(w, task[w].id)
       \/ /\ host[task[w].id] # None
          /\ Become(w, [task[w] EXCEPT !.pc = "pull", !.seen = host[task[w].id]])
          /\ OnlyTask

\* The pull's progress stream is read to its end and its errors are dropped: a
\* pull that fails half-way leaves the tag where it was.
Pull(w) ==
    /\ At(w, "pull")
    /\ Goto(w, "image")
    /\ \/ tagged' = registry /\ UNCHANGED <<faults, host, used>>
       \/ Fault("pull") /\ UNCHANGED tagged
    /\ UNCHANGED <<table, events, feed, unseen>>

InspectImage(w) ==
    /\ At(w, "image")
    /\ Become(w, [task[w] EXCEPT !.img = tagged,
          !.pc = IF task[w].seen.status \in {"running", "paused"} THEN "halt" ELSE "remove"])
    /\ OnlyTask

Halt(w) == At(w, "halt") /\ DockerStop(w, task[w].id, "remove")

\* A removal that takes "no such container" for success.
RemoveTolerant(w) ==
    /\ At(w, "remove")
    /\ Goto(w, "create")
    /\ \/ host[task[w].id] = None /\ OnlyTask
       \/ HostRemove(task[w].id) /\ OnlyHost

Remove(w) ==
    /\ At(w, "remove")
    /\ \/ NotFound(w, task[w].id)
       \/ HostRemove(task[w].id) /\ Goto(w, "create") /\ OnlyHost

\* The new container has the inspected name and whatever the tag now points to;
\* Docker refuses a name that is taken (or runs out of the bounded ids).
Create(w) ==
    /\ At(w, "create")
    /\ LET t == task[w]
       IN  \/ (NameTaken(t.seen.name) \/ used = Ids) /\ Finish(w) /\ OnlyTask
           \/ \E i \in Ids :
                /\ HostCreate(i, [name |-> t.seen.name, image |-> tagged,
                                  status |-> "created"])
                /\ Become(w, [t EXCEPT !.pc = "connect", !.new = i])
                /\ OnlyHost

\* Additional networks; a failure rolls the creation back.
Connect(w) ==
    /\ At(w, "connect")
    /\ \/ Goto(w, "launch") /\ OnlyTask
       \/ /\ Fault("network")
          /\ Goto(w, "rollback")
          /\ OnlyFault

\* The rollback's own error is ignored.
Rollback(w) ==
    /\ At(w, "rollback")
    /\ Finish(w)
    /\ \/ HostRemove(task[w].new) /\ OnlyHost
       \/ host[task[w].new] = None /\ OnlyTask

Launch(w) == At(w, "launch") /\ DockerStart(w, task[w].new, "verify")

\* The new container's state; "running" when it cannot be inspected.
Verify(w) ==
    /\ At(w, "verify")
    /\ LET t == task[w]
       IN  \/ /\ host[t.new] # None
              /\ Become(w, [t EXCEPT !.pc = "swap", !.seen.status = host[t.new].status])
              /\ OnlyTask
           \/ /\ Become(w, [t EXCEPT !.pc = "swap", !.seen.status = "running"])
              /\ \/ host[t.new] = None /\ OnlyTask
                 \/ Fault("call") /\ OnlyFault

\* The columns both statements write for the new container.
Upgraded(t, auto) ==
    [name |-> t.seen.name, image |-> t.img, status |-> t.seen.status,
     auto |-> auto, avail |-> FALSE]

\* An in-place update that leaves update_available as it was.
SwapKeepsAvail(w) ==
    /\ At(w, "swap")
    /\ LET t == task[w]
       IN  \/ /\ table[t.id] = None
              /\ Goto(w, "fallback") /\ OnlyTask
           \/ /\ table[t.id] # None /\ table[t.new] # None
              /\ Finish(w) /\ OnlyTask
           \/ /\ table[t.id] # None /\ table[t.new] = None
              /\ table' = [table EXCEPT ![t.id] = None,
                             ![t.new] = [Upgraded(t, table[t.id].auto)
                                         EXCEPT !.avail = table[t.id].avail]]
              /\ Goto(w, "retire") /\ OnlyTable

\* UpdateContainerForUpgrade: the row of the old id becomes the new id's. It
\* fails on the primary key when the new id already has a row.
Swap(w) ==
    /\ At(w, "swap")
    /\ LET t == task[w]
       IN  \/ /\ table[t.id] = None
              /\ Goto(w, "fallback") /\ OnlyTask
           \/ /\ table[t.id] # None /\ table[t.new] # None
              /\ Finish(w) /\ OnlyTask
           \/ /\ table[t.id] # None /\ table[t.new] = None
              /\ table' = [table EXCEPT ![t.id] = None,
                                        ![t.new] = Upgraded(t, table[t.id].auto)]
              /\ Goto(w, "retire") /\ OnlyTable

\* A fallback that writes the default of a new row.
FallbackDefault(w) ==
    /\ At(w, "fallback")
    /\ table' = [table EXCEPT ![task[w].new] = Upgraded(task[w], FALSE)]
    /\ Goto(w, "retire")
    /\ OnlyTable

\* The old row was gone: SaveContainer with the auto_update read at the start.
Fallback(w) ==
    /\ At(w, "fallback")
    /\ table' = [table EXCEPT ![task[w].new] = Upgraded(task[w], task[w].row.auto)]
    /\ Goto(w, "retire")
    /\ OnlyTable

\* Publish the deletion of the old id, then the new id's row like any other.
Retire(w) ==
    /\ At(w, "retire")
    /\ feed' = [feed EXCEPT ![task[w].id] = None]
    /\ Become(w, [task[w] EXCEPT !.pc = "read", !.id = task[w].new])
    /\ OnlyFeed

-----------------------------------------------------------------------------
(* Requests, the scheduler's loop, the registry, and failures.               *)

Request(w, op, i, b) ==
    /\ sync.pc = "up"
    /\ At(w, "free")
    /\ reqs > 0
    /\ reqs' = reqs - 1
    /\ Become(w, [Free EXCEPT !.op = op, !.pc = "get", !.id = i, !.flag = b])
    /\ UNCHANGED <<agenda, registry, wanted, ticks>>
    /\ OnlyTask

\* The ticker fires: checkAllContainers lists the table once; when that fails it
\* returns to its ticker.
Tick ==
    /\ sync.pc = "up"
    /\ At(Scheduler, "free")
    /\ \A i \in Ids : agenda[i] = None
    /\ ticks > 0
    /\ ticks' = ticks - 1
    /\ \/ agenda' = table /\ OnlyTask
       \/ Fault("call") /\ UNCHANGED agenda /\ OnlyFault
    /\ UNCHANGED <<task, registry, wanted, reqs>>

\* The loop's next record.
Dispatch(i) ==
    /\ At(Scheduler, "free")
    /\ agenda[i] # None
    /\ agenda' = [agenda EXCEPT ![i] = None]
    /\ Become(Scheduler, [Free EXCEPT !.op = "check", !.pc = "get", !.id = i,
                                      !.auto = agenda[i].auto])
    /\ UNCHANGED <<registry, wanted, reqs, ticks>>
    /\ OnlyTask

\* A new version is pushed to the registry.
Push ==
    /\ \E m \in Images : m > registry /\ registry' = m
    /\ UNCHANGED <<task, agenda, wanted, reqs, ticks>>
    /\ OnlyTask

\* Steps at which a failed call, or the request's cancelled context, makes the
\* operation return an error.
CallPCs == {"get", "before", "act", "after", "save", "set", "registry", "record",
            "inspect", "pull", "image", "halt", "remove", "create", "rollback",
            "launch", "swap", "fallback"}

CallFails(w) ==
    /\ Fault("call")
    /\ task[w].pc \in CallPCs
    /\ Finish(w)
    /\ OnlyFault

\* The process ends with every goroutine in it.
CrashAll ==
    /\ Crash
    /\ task' = [w \in Workers |-> Free]
    /\ agenda' = [i \in Ids |-> None]
    /\ UNCHANGED <<registry, tagged, wanted, reqs, ticks>>

-----------------------------------------------------------------------------
\* The server is up, the monitor is subscribed and the table agrees with the
\* host: what the startup synchronisation leaves when nothing moves meanwhile.
OpsInit ==
    /\ registry \in Images
    /\ host \in [Ids -> BootHost \cup {None}]
    /\ Live # {}
    /\ \A i, j \in Live : host[i].name = host[j].name => i = j
    /\ \A i \in Live : host[i].image <= registry
    /\ used = Live
    /\ wanted \in [Ids -> BOOLEAN]
    /\ \A i \in Ids \ Live : ~wanted[i]
    /\ table = [i \in Ids |-> IF host[i] = None THEN None
                              ELSE [name |-> host[i].name, image |-> host[i].image,
                                    status |-> host[i].status,
                                    auto |-> wanted[i], avail |-> FALSE]]
    /\ sync = [pc |-> "up", snap |-> host, todo |-> {}]
    /\ conn = TRUE
    /\ events = <<>>
    /\ mon = IdleMonitor
    /\ feed = table
    /\ unseen = {}
    /\ ext = MaxExternal
    /\ faults = MaxFaults
    /\ task = [w \in Workers |-> Free]
    /\ agenda = [i \in Ids |-> None]
    /\ tagged = registry
    /\ reqs = MaxReqs
    /\ ticks = MaxTicks

CommonStep(w) == Get(w) \/ ReadBack(w) \/ Publish(w) \/ EndOfOperation(w)
StartStopStep(w) == InspectBefore(w) \/ Act(w) \/ InspectAfter(w) \/ Save(w)
FlagStep(w) == SetAuto(w) \/ Look(w) \/ AskRegistry(w) \/ Record(w)
UpgradeStep(w) ==
    \/ Inspect(w) \/ Pull(w) \/ InspectImage(w) \/ Halt(w) \/ Remove(w) \/ Create(w)
    \/ Connect(w) \/ Rollback(w) \/ Launch(w) \/ Verify(w) \/ Swap(w) \/ Fallback(w)
    \/ Retire(w)

\* A toggle is wanted from the moment its UPDATE succeeds, and a container made
\* by an upgrade takes over what was wanted of the one it replaces.
Wanted(w) ==
    [i \in Ids |->
       IF At(w, "set") /\ i = task[w].id THEN task[w].flag
       ELSE IF i = task'[w].new /\ i # task[w].new THEN wanted[task[w].id]
       ELSE wanted[i]]

WorkerStep(w) ==
    /\ \/ CommonStep(w)
       \/ StartStopStep(w)
       \/ FlagStep(w)
       \/ UpgradeStep(w)
    /\ wanted' = Wanted(w)
    /\ UNCHANGED <<agenda, registry, reqs, ticks>>
    /\ UNCHANGED monVars

SchedulerStep ==
    /\ Tick \/ \E i \in Ids : Dispatch(i)
    /\ UNCHANGED monVars

OutsideStep ==
    /\ \/ \E w \in Users, op \in Ops, i \in Ids, b \in BOOLEAN :
            (op = "set" \/ ~b) /\ Request(w, op, i, b)
       \/ Push
    /\ UNCHANGED monVars

\* Other clients only run versions the registry has had.
Published == \A i \in Ids : host'[i] # None => host'[i].image <= registry

CacheStep ==
    /\ \/ \E i \in Ids : ExternalStep(i) /\ Published
       \/ SyncStep
       \/ MonitorStep
       \/ StreamError
       \/ MonitorError
       \/ MonitorReadError
    /\ UNCHANGED opVars

\* A sweep that returns at the first call that fails.
FailureStepReturns ==
    \/ \E w \in Workers : /\ CallFails(w)
                          /\ agenda' = IF w = Scheduler THEN [i \in Ids |-> None] ELSE agenda
                          /\ UNCHANGED <<registry, wanted, reqs, ticks>>
                          /\ UNCHANGED monVars
    \/ CrashAll

\* An error ends the operation; the scheduler logs it and goes on to its next
\* record.
FailureStep ==
    \/ \E w \in Workers : /\ CallFails(w)
                          /\ UNCHANGED <<agenda, registry, wanted, reqs, ticks>>
                          /\ UNCHANGED monVars
    \/ CrashAll

OpsNext ==
    \/ \E w \in Workers : WorkerStep(w)
    \/ SchedulerStep
    \/ OutsideStep
    \/ CacheStep
    \/ FailureStep

OpsSpec == OpsInit /\ [][OpsNext]_allVars

\* Every goroutine keeps running; requests and pushes need not come.
OpsFairSpec ==
    /\ OpsSpec
    /\ \A w \in Workers : WF_allVars(WorkerStep(w))
    /\ WF_allVars(SchedulerStep)
    /\ WF_allVars(CacheStep /\ (SyncStep \/ MonitorStep))

-----------------------------------------------------------------------------
(* Properties.                                                               *)

TaskPCs == CallPCs \cup {"free", "look", "connect", "verify", "retire", "read",
                         "publish", "end"}
Task == [op : OpKinds \cup {"none"}, pc : TaskPCs, id : Ids \cup {None},
         row : Row \cup {None}, seen : Container \cup {None}, img : Images \cup {None},
         new : Ids \cup {None}, flag : BOOLEAN, auto : BOOLEAN]

OpsTypeOK ==
    /\ TypeOK
    /\ task \in [Workers -> Task]
    /\ agenda \in [Ids -> Row \cup {None}]
    /\ registry \in Images
    /\ tagged \in Images
    /\ wanted \in [Ids -> BOOLEAN]
    /\ reqs \in 0..MaxReqs
    /\ ticks \in 0..MaxTicks

OpsQuiet == Quiet /\ \A w \in Workers : At(w, "free")

\* The part of an upgrade in which the old container is gone and the new one is
\* being put in its place.
Replacing(w) ==
    task[w].pc \in {"create", "connect", "rollback", "launch", "verify", "swap",
                    "fallback", "retire"}

\* Nothing in upgradeContainerInternal keeps two upgrades of one container
\* apart, but Docker's removal does: only one of them gets past it, so a
\* container never has two successors.
OneSuccessor ==
    \A v, w \in Workers :
      Replacing(v) /\ Replacing(w) /\ task[v].id = task[w].id => v = w

\* A row that says an update is available for an existing container tells the
\* truth: its image is older than the registry's, whatever checks, upgrades and
\* events interleave (checkContainerUpdatesInternal and the upgrade's writes).
AvailIsTrue ==
    \A i \in Live : table[i] # None /\ table[i].avail => host[i].image < registry

\* upgrade.go:207 "atomically swaps container ID and preserves auto_update,
\* avoiding the race condition of delete-then-insert", actions.go:229
\* "persists a container's auto-update settings": when all is done, the row of a
\* container has the auto_update last set for it or for what it replaced.
AutoUpdateKept ==
    OpsQuiet => \A i \in Live : table[i] # None => table[i].auto = wanted[i]

\* docs/requirements.md:104 "Container status changes initiated via the UI should
\* be reflected promptly without requiring manual page refreshes": when all is
\* done and nothing failed, a subscriber that got every message has the table.
FeedCurrent == OpsQuiet /\ faults = MaxFaults => feed = table

\* The table agrees with the host when all is done (CacheAgrees, with the
\* operations running as well).
OpsCacheAgrees == OpsQuiet => \A i \in Ids \ unseen : Agree(i)

\* docs/requirements.md:107 "The automated update process must not result in data
\* loss or configuration loss": an upgrade that ends, in success or in error,
\* leaves a container with the name of the one it was asked to upgrade.
ContainerSurvives ==
    [][\A w \in Workers :
         task[w].op = "upgrade" /\ task[w].seen # None /\ task'[w].pc = "free" =>
           \E i \in Ids : host'[i] # None /\ host'[i].name = task[w].seen.name]_allVars

\* The scheduler is about to remove a container to upgrade it.
AutoRemoval(i) == At(Scheduler, "remove") /\ task[Scheduler].id = i

\* docs/design.md:249 "If automatic updates are enabled on a per-container basis
\* and a newer image is confirmed": a container the scheduler removes has
\* automatic updates enabled,
OnlyEnabledUpgraded == \A i \in Ids : AutoRemoval(i) => wanted[i]

\* and runs an older image than the registry has.
OnlyOutdatedUpgraded ==
    \A i \in Ids : AutoRemoval(i) /\ host[i] # None => host[i].image < registry

\* checkAllContainers handles every row it listed, and returns to its ticker,
\* also when a row is gone by its turn, a check fails or an upgrade fails: each
\* row is taken up in its turn unless the process ends before, and the sweep
\* comes to its end.
SweepEnds ==
    /\ \A i \in Ids : agenda[i] # None ~> \/ task[Scheduler].op = "check" /\ task[Scheduler].id = i
                                          \/ sync.pc # "up"
    /\ (\E i \in Ids : agenda[i] # None) ~>
         At(Scheduler, "free") /\ \A i \in Ids : agenda[i] = None
=============================================================================
